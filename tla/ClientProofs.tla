---------------------------- MODULE ClientProofs ----------------------------
(***************************************************************************)
(* What a person uses: theorems about BrowserUi, TerminalApp, NativeSignIn *)
(* and BrowserSignIn, for every set of notes and views, every number of    *)
(* tabs, programs and servers, and every order of keys, answers, reports   *)
(* and starts.                                                             *)
(***************************************************************************)
EXTENDS BrowserUi, TerminalApp, BrowserSignIn, NativeSignIn, Induction

-----------------------------------------------------------------------------
(***************************************************************************)
(* BrowserUi: rows are those of the view the page shows. A call that has   *)
(* the number of the newest query asks for the view of the page, and an    *)
(* answer to it that succeeds is no older than the report the page shows.  *)
(***************************************************************************)

RowSets == [of : Views, at : Nat, notes : SUBSET UiNotes]

Pages == [view : Views, report : Nat, query : Nat, loading : BOOLEAN, rows : SUBSET RowSets,
          selected : SUBSET UiNotes, pane : {"items", "detail"}, editing : BOOLEAN,
          editingId : SUBSET UiNotes, saving : SUBSET Nat]

Queries == [id : Nat \ {0}, method : {"query"}, arg : Views]
Others == [id : Nat \ {0}, method : {"refresh", "save", "delete", "stored"}, arg : SUBSET UiNotes]
AnswerShapes == [id : Nat \ {0}, ok : BOOLEAN, report : Nat, notes : SUBSET UiNotes]

(* CallsMade made so far; the worker queues those that are no queries.         *)
CallsMade(n) == {q \in Queries \cup Others : q.id <= n}
Queued(n) == {q \in Others : q.id <= n}

(* An answer of the page's query was given after the query was made, so it *)
(* is no older than the report shown.                                      *)
Timely ==
    {a \in AnswerShapes : /\ a.id <= lastCall /\ a.report <= replica.v
                          /\ a.ok /\ a.id = ui.query => a.report >= ui.report}

UiIInv ==
    /\ ui \in Pages /\ lastCall \in Nat /\ ui.query <= lastCall
    /\ replica \in [v : Nat, notes : [UiNotes -> Views \cup {NoView}]]
    /\ ui.report <= replica.v
    /\ calls \subseteq CallsMade(lastCall)
    /\ toWorker \in Seq(CallsMade(lastCall)) /\ jobs \in Seq(Queued(lastCall))
    /\ answers \in Seq(Timely)
    /\ \A c \in calls : c.id = ui.query => c.method = "query" /\ c.arg = ui.view
    /\ RowsAnswerView

LEMMA LongerSeq == ASSUME NEW S, NEW T, S \subseteq T, NEW s \in Seq(S) PROVE s \in Seq(T)
OBVIOUS

(* Nothing is asked at the start, and the rows are those of the view.      *)
LEMMA UiInitIInv == UiInit => UiIInv
<1> SUFFICES ASSUME UiInit PROVE UiIInv
  OBVIOUS
<1>1. PICK view \in Views, i \in UiNotes :
         /\ replica = [v |-> 0, notes |-> [j \in UiNotes |-> IF j = i THEN view ELSE NoView]]
         /\ ui = [view |-> view, report |-> 0, query |-> 0, loading |-> FALSE,
                  rows |-> {[of |-> view, at |-> 0, notes |-> {i}]}, selected |-> {i},
                  pane |-> "items", editing |-> FALSE, editingId |-> {}, saving |-> {}]
  BY DEF UiInit
<1>2. {[of |-> view, at |-> 0, notes |-> {i}]} \in SUBSET RowSets
  BY DEF RowSets
<1>3. ui \in Pages /\ ui.query = 0 /\ ui.report = 0
  BY <1>1, <1>2 DEF Pages
<1>4. replica \in [v : Nat, notes : [UiNotes -> Views \cup {NoView}]] /\ replica.v = 0
  BY <1>1
<1>5. RowsAnswerView
  BY <1>1 DEF RowsAnswerView
<1> QED BY <1>3, <1>4, <1>5 DEF UiInit, UiIInv

(* An answer that is timely stays so: a report that changes the page comes *)
(* with a new query.                                                       *)
LEMMA TimelyStays ==
    ASSUME UiIInv, lastCall' \in Nat, lastCall <= lastCall', replica'.v \in Nat,
           replica.v <= replica'.v,
           (ui'.query = ui.query /\ ui'.report = ui.report) \/ ui'.query = lastCall + 1
    PROVE  Timely \subseteq Timely'
BY DEF UiIInv, Timely, AnswerShapes

(* One more call. *)
LEMMA CallPosted ==
    ASSUME UiIInv, NEW q \in Queries \cup Others, q.id = lastCall + 1,
           calls' \subseteq calls \cup {q}, toWorker' = Append(toWorker, q),
           lastCall' = lastCall + 1, jobs' = jobs
    PROVE  /\ lastCall' \in Nat /\ calls' \subseteq CallsMade(lastCall')
           /\ toWorker' \in Seq(CallsMade(lastCall')) /\ jobs' \in Seq(Queued(lastCall'))
           /\ \A c \in calls : c.id < lastCall'
<1>1. lastCall' \in Nat /\ q \in CallsMade(lastCall') /\ lastCall \in Nat
  BY DEF UiIInv, CallsMade
<1>2. CallsMade(lastCall) \subseteq CallsMade(lastCall') /\ Queued(lastCall) \subseteq Queued(lastCall')
  BY <1>1 DEF CallsMade, Queued, Queries, Others
<1>3. toWorker \in Seq(CallsMade(lastCall')) /\ jobs \in Seq(Queued(lastCall'))
  BY <1>2, LongerSeq DEF UiIInv
<1>4. \A c \in calls : c.id < lastCall'
  BY <1>1 DEF UiIInv, CallsMade, Queries, Others
<1> QED BY <1>1, <1>2, <1>3, <1>4 DEF UiIInv

LEMMA PostOne ==
    ASSUME UiIInv, NEW q, Post(<<q>>)
    PROVE  /\ calls' = calls \cup {q} /\ toWorker' = Append(toWorker, q)
           /\ lastCall' = lastCall + 1
<1>1. ToSet(<<q>>) = {q} /\ Len(<<q>>) = 1
  BY DEF ToSet
<1>2. toWorker \o <<q>> = Append(toWorker, q)
  BY DEF UiIInv
<1> QED BY <1>1, <1>2 DEF Post

(* A page that asks for rows shows none, and none of the calls before is   *)
(* its query.                                                              *)
LEMMA QueriesAnew ==
    ASSUME UiIInv, NEW page \in Pages, page.report <= replica.v,
           ui' = Querying(page), calls' \subseteq calls \cup {NewCall(lastCall + 1, "query", page.view)},
           toWorker' = Append(toWorker, NewCall(lastCall + 1, "query", page.view)),
           lastCall' = lastCall + 1, UNCHANGED <<jobs, replica>>,
           answers' = answers \/ (answers # <<>> /\ answers' = Tail(answers))
    PROVE  UiIInv'
<1> DEFINE q == NewCall(lastCall + 1, "query", page.view)
<1>1. q \in Queries /\ q.id = lastCall + 1 /\ q.method = "query" /\ q.arg = page.view
  BY DEF UiIInv, NewCall, Queries, Pages
<1> HIDE DEF q
<1>2. /\ lastCall' \in Nat /\ calls' \subseteq CallsMade(lastCall')
      /\ toWorker' \in Seq(CallsMade(lastCall')) /\ jobs' \in Seq(Queued(lastCall'))
      /\ \A c \in calls : c.id < lastCall'
  BY <1>1, CallPosted DEF q
<1>3. /\ ui' \in Pages /\ ui'.query = lastCall + 1 /\ ui'.rows = {} /\ ui'.view = page.view
      /\ ui'.report = page.report
  <2>1. lastCall + 1 \in Nat /\ {} \in SUBSET RowSets
    BY DEF UiIInv
  <2>2. ui' = [page EXCEPT !.rows = {}, !.query = lastCall + 1, !.loading = TRUE]
    BY DEF Querying
  <2>3. ui' \in Pages
    BY <2>1, <2>2 DEF Pages
  <2> QED BY <2>2, <2>3 DEF Pages
<1>4. Timely \subseteq Timely'
  BY <1>2, <1>3, TimelyStays DEF UiIInv
<1>5. answers' \in Seq(Timely')
  <2>1. answers \in Seq(Timely')
    BY <1>4, LongerSeq DEF UiIInv
  <2> QED BY <2>1
<1>6. \A c \in calls' : c.id = ui'.query => c.method = "query" /\ c.arg = ui'.view
  BY <1>1, <1>2, <1>3 DEF q, UiIInv
<1>7. RowsAnswerView'
  BY <1>3 DEF RowsAnswerView
<1> QED BY <1>2, <1>3, <1>5, <1>6, <1>7 DEF UiIInv

(* A page that changes otherwise. *)
LEMMA PageChanges ==
    ASSUME UiIInv, ui' \in Pages, ui'.view = ui.view, ui'.report = ui.report,
           ui'.query = ui.query, calls' \subseteq calls, UNCHANGED <<lastCall, toWorker, jobs, replica>>,
           answers' = answers \/ (answers # <<>> /\ answers' = Tail(answers)),
           \A rows \in ui'.rows : rows.of = ui.view /\ rows.at >= ui.report
    PROVE  UiIInv'
<1>1. Timely \subseteq Timely'
  BY TimelyStays DEF UiIInv
<1>2. answers' \in Seq(Timely')
  <2>1. answers \in Seq(Timely')
    BY <1>1, LongerSeq DEF UiIInv
  <2> QED BY <2>1
<1>3. RowsAnswerView'
  BY DEF RowsAnswerView
<1> QED BY <1>2, <1>3 DEF UiIInv

LEMMA ShowsPage ==
    ASSUME UiIInv, NEW page \in Pages, page.report = ui.report, page.query = ui.query,
           page.rows = ui.rows, Shows(page), UNCHANGED <<jobs, replica, answers>>
    PROVE  UiIInv'
<1>1. CASE page.view # ui.view
  <2>1. /\ ui' = Querying(page)
        /\ Post(<<NewCall(lastCall + 1, "query", page.view)>>)
    BY <1>1 DEF Shows
  <2>2. page.report <= replica.v
    BY DEF UiIInv
  <2>3. /\ calls' = calls \cup {NewCall(lastCall + 1, "query", page.view)}
        /\ toWorker' = Append(toWorker, NewCall(lastCall + 1, "query", page.view))
        /\ lastCall' = lastCall + 1
    BY <2>1, PostOne
  <2> QED BY <2>1, <2>2, <2>3, QueriesAnew
<1>2. CASE page.view = ui.view
  <2>1. ui' = page /\ UNCHANGED <<lastCall, toWorker, calls>>
    BY <1>2 DEF Shows
  <2> QED BY <1>2, <2>1, PageChanges DEF UiIInv, RowsAnswerView
<1> QED BY <1>1, <1>2

(* A call that is no query. *)
LEMMA OtherPosted ==
    ASSUME UiIInv, ui' \in Pages, ui'.view = ui.view, ui'.report = ui.report,
           ui'.query = ui.query, ui'.rows = ui.rows, NEW q \in Others, q.id = lastCall + 1,
           Post(<<q>>), UNCHANGED <<jobs, replica, answers>>
    PROVE  UiIInv'
<1>1. /\ calls' = calls \cup {q} /\ toWorker' = Append(toWorker, q) /\ lastCall' = lastCall + 1
  BY PostOne
<1>2. /\ lastCall' \in Nat /\ calls' \subseteq CallsMade(lastCall')
      /\ toWorker' \in Seq(CallsMade(lastCall')) /\ jobs' \in Seq(Queued(lastCall'))
  BY <1>1, CallPosted
<1>3. Timely \subseteq Timely'
  BY <1>1, <1>2, TimelyStays DEF UiIInv
<1>4. answers' \in Seq(Timely')
  BY <1>3, LongerSeq DEF UiIInv
<1>5. \A c \in calls' : c.id = ui'.query => c.method = "query" /\ c.arg = ui'.view
  BY <1>1 DEF UiIInv, Pages
<1> QED BY <1>1, <1>2, <1>4, <1>5 DEF UiIInv, RowsAnswerView, Pages
-----------------------------------------------------------------------------
(* The steps *)

LEMMA PersonStep ==
    ASSUME UiIInv,
           \/ \E view \in Views : ChooseView(view)
           \/ \E i \in UiNotes : SelectNote(i)
           \/ StartEditing \/ CancelEditing \/ SaveDraft \/ RemoveNote \/ RefreshTick
    PROVE  UiIInv'
<1>0. ui \in Pages /\ lastCall \in Nat
  BY DEF UiIInv
<1>1. ASSUME NEW view \in Views, ChooseView(view) PROVE UiIInv'
  <2>1. [ui EXCEPT !.view = view, !.pane = "items"] \in Pages
    BY <1>0 DEF Pages
  <2>2. /\ [ui EXCEPT !.view = view, !.pane = "items"].report = ui.report
        /\ [ui EXCEPT !.view = view, !.pane = "items"].query = ui.query
        /\ [ui EXCEPT !.view = view, !.pane = "items"].rows = ui.rows
    BY <1>0 DEF Pages
  <2> QED BY <1>1, <2>1, <2>2, ShowsPage DEF ChooseView, Acts
<1>2. ASSUME NEW i \in UiNotes, SelectNote(i) PROVE UiIInv'
  <2>1. [ui EXCEPT !.selected = {i}, !.pane = "detail"] \in Pages
    BY <1>0 DEF Pages
  <2>2. /\ [ui EXCEPT !.selected = {i}, !.pane = "detail"].report = ui.report
        /\ [ui EXCEPT !.selected = {i}, !.pane = "detail"].query = ui.query
        /\ [ui EXCEPT !.selected = {i}, !.pane = "detail"].rows = ui.rows
    BY <1>0 DEF Pages
  <2> QED BY <1>2, <2>1, <2>2, ShowsPage DEF SelectNote, Acts
<1>3. CASE StartEditing
  <2>1. PICK ids \in SUBSET UiNotes : Shows([ui EXCEPT !.editing = TRUE, !.editingId = ids])
    BY <1>0, <1>3 DEF StartEditing, Pages
  <2>2. [ui EXCEPT !.editing = TRUE, !.editingId = ids] \in Pages
    BY <1>0 DEF Pages
  <2>3. /\ [ui EXCEPT !.editing = TRUE, !.editingId = ids].report = ui.report
        /\ [ui EXCEPT !.editing = TRUE, !.editingId = ids].query = ui.query
        /\ [ui EXCEPT !.editing = TRUE, !.editingId = ids].rows = ui.rows
    BY <1>0 DEF Pages
  <2> QED BY <1>3, <2>1, <2>2, <2>3, ShowsPage DEF StartEditing, Acts
<1>4. CASE CancelEditing
  <2>1. [ui EXCEPT !.editing = FALSE] \in Pages
    BY <1>0 DEF Pages
  <2>2. /\ [ui EXCEPT !.editing = FALSE].report = ui.report
        /\ [ui EXCEPT !.editing = FALSE].query = ui.query
        /\ [ui EXCEPT !.editing = FALSE].rows = ui.rows
    BY <1>0 DEF Pages
  <2> QED BY <1>4, <2>1, <2>2, ShowsPage DEF CancelEditing, Acts
<1>5. CASE SaveDraft
  <2>1. /\ ui' = [ui EXCEPT !.editing = FALSE, !.pane = "items", !.saving = @ \cup {lastCall + 1}]
        /\ Post(<<NewCall(lastCall + 1, "save", ui.editingId)>>)
        /\ UNCHANGED <<jobs, replica, answers>>
    BY <1>5 DEF SaveDraft, Acts
  <2>2. ui.saving \cup {lastCall + 1} \in SUBSET Nat
    BY <1>0 DEF Pages
  <2>3. /\ ui' \in Pages /\ ui'.view = ui.view /\ ui'.report = ui.report
        /\ ui'.query = ui.query /\ ui'.rows = ui.rows
    BY <1>0, <2>1, <2>2 DEF Pages
  <2>4. /\ NewCall(lastCall + 1, "save", ui.editingId) \in Others
        /\ NewCall(lastCall + 1, "save", ui.editingId).id = lastCall + 1
    BY <1>0 DEF NewCall, Others, Pages
  <2> QED BY <2>1, <2>3, <2>4, OtherPosted
<1>6. CASE RemoveNote
  <2>1. /\ ui' = ui /\ Post(<<NewCall(lastCall + 1, "delete", ui.selected)>>)
        /\ UNCHANGED <<jobs, replica, answers>>
    BY <1>6 DEF RemoveNote, Acts
  <2>2. /\ NewCall(lastCall + 1, "delete", ui.selected) \in Others
        /\ NewCall(lastCall + 1, "delete", ui.selected).id = lastCall + 1
    BY <1>0 DEF NewCall, Others, Pages
  <2> QED BY <1>0, <2>1, <2>2, OtherPosted
<1>7. CASE RefreshTick
  <2>1. /\ ui' = ui /\ Post(<<NewCall(lastCall + 1, "refresh", {})>>)
        /\ UNCHANGED <<jobs, replica, answers>>
    BY <1>7 DEF RefreshTick
  <2>2. /\ NewCall(lastCall + 1, "refresh", {}) \in Others
        /\ NewCall(lastCall + 1, "refresh", {}).id = lastCall + 1
    BY <1>0 DEF NewCall, Others
  <2> QED BY <1>0, <2>1, <2>2, OtherPosted
<1> QED BY <1>1, <1>2, <1>3, <1>4, <1>5, <1>6, <1>7

(* A new answer carries the worker's present report. *)
LEMMA Answered ==
    ASSUME UiIInv, NEW id \in Nat \ {0}, id <= lastCall, NEW ok \in BOOLEAN, NEW report,
           report = IF ok THEN replica.v ELSE 0, NEW noted \in SUBSET UiNotes
    PROVE  Answer(id, ok, report, noted) \in Seq(Timely)
<1> DEFINE a == [id |-> id, ok |-> ok, report |-> report, notes |-> noted]
<1>1. replica.v \in Nat /\ ui.report <= replica.v /\ report \in Nat /\ report <= replica.v
  BY DEF UiIInv
<1>2. a \in AnswerShapes
  BY <1>1 DEF AnswerShapes
<1>3. a \in Timely
  BY <1>1, <1>2 DEF Timely
<1> QED BY <1>3 DEF UiIInv, Answer

LEMMA WorkerTimely ==
    ASSUME UiIInv, UNCHANGED <<ui, calls, lastCall>>, replica' \in [v : Nat, notes : [UiNotes -> Views \cup {NoView}]],
           replica.v <= replica'.v, toWorker' \in Seq(CallsMade(lastCall)),
           jobs' \in Seq(Queued(lastCall)), answers' \in Seq(Timely)
    PROVE  UiIInv'
<1>1. Timely \subseteq Timely'
  BY TimelyStays DEF UiIInv
<1>2. answers' \in Seq(Timely')
  BY <1>1, LongerSeq
<1>3. ui.report <= replica'.v
  BY DEF UiIInv, Pages
<1> QED BY <1>2, <1>3 DEF UiIInv, RowsAnswerView

LEMMA UiWorkerStep ==
    ASSUME UiIInv,
           \/ WorkerTakes \/ JobStarts \/ JobEnds \/ JobRefused
           \/ \E i \in UiNotes, view \in Views \cup {NoView} : Merged(i, view)
    PROVE  UiIInv'
<1>0. /\ replica \in [v : Nat, notes : [UiNotes -> Views \cup {NoView}]]
      /\ toWorker \in Seq(CallsMade(lastCall)) /\ jobs \in Seq(Queued(lastCall))
      /\ answers \in Seq(Timely) /\ lastCall \in Nat
  BY DEF UiIInv
<1>1. CASE WorkerTakes
  <2>1. /\ toWorker # <<>> /\ toWorker' = Tail(toWorker) /\ UNCHANGED <<ui, calls, lastCall, replica>>
    BY <1>1 DEF WorkerTakes
  <2>2. PICK q \in CallsMade(lastCall) : q = Head(toWorker)
    BY <1>0, <2>1
  <2>3. toWorker' \in Seq(CallsMade(lastCall))
    BY <1>0, <2>1
  <2>4. CASE q.method = "query"
    <3>1. answers' = Answer(q.id, TRUE, replica.v, NotesIn(q.arg)) /\ jobs' = jobs
      BY <1>1, <2>2, <2>4 DEF WorkerTakes
    <3>2. q.id \in Nat \ {0} /\ q.id <= lastCall /\ NotesIn(q.arg) \in SUBSET UiNotes
      BY DEF CallsMade, Queries, Others, NotesIn
    <3>3. answers' \in Seq(Timely)
      BY <3>1, <3>2, Answered
    <3> QED BY <1>0, <2>1, <2>3, <3>1, <3>3, WorkerTimely
  <2>5. CASE q.method # "query"
    <3>1. jobs' = Append(jobs, q) /\ answers' = answers
      BY <1>1, <2>2, <2>5 DEF WorkerTakes
    <3>2. q \in Queued(lastCall)
      BY <2>5 DEF CallsMade, Queued, Queries
    <3> QED BY <1>0, <2>1, <2>3, <3>1, <3>2, WorkerTimely
  <2> QED BY <2>4, <2>5
<1>2. CASE JobStarts
  <2>1. PICK i \in IF Head(jobs).arg = {} THEN {j \in UiNotes : replica.notes[j] = NoView}
                   ELSE Head(jobs).arg,
             view \in Views \cup {NoView} :
            /\ replica' = [v |-> replica.v + 1, notes |-> [replica.notes EXCEPT ![i] = view]]
            /\ jobs' = [jobs EXCEPT ![1] = [@ EXCEPT !.method = "stored", !.arg = {i}]]
    BY <1>2 DEF JobStarts
  <2>2. jobs # <<>> /\ UNCHANGED <<ui, calls, lastCall, toWorker, answers>>
    BY <1>2 DEF JobStarts
  <2>3. /\ jobs[1] \in Queued(lastCall) /\ Head(jobs) = jobs[1] /\ 1 \in DOMAIN jobs
    BY <1>0, <2>2
  <2>4. i \in UiNotes
    BY <2>1, <2>3 DEF Queued, Others
  <2>5. [jobs[1] EXCEPT !.method = "stored", !.arg = {i}] \in Queued(lastCall)
    BY <2>3, <2>4 DEF Queued, Others
  <2>6. jobs' \in Seq(Queued(lastCall))
    BY <1>0, <2>1, <2>3, <2>5
  <2>7. /\ replica' \in [v : Nat, notes : [UiNotes -> Views \cup {NoView}]]
        /\ replica.v <= replica'.v
    BY <1>0, <2>1, <2>4
  <2> QED BY <1>0, <2>2, <2>6, <2>7, WorkerTimely
<1>3. CASE JobEnds \/ JobRefused
  <2>1. /\ jobs # <<>> /\ jobs' = Tail(jobs)
        /\ UNCHANGED <<ui, calls, lastCall, toWorker, replica>>
        /\ \/ answers' = Answer(Head(jobs).id, TRUE, replica.v, Head(jobs).arg)
           \/ answers' = Answer(Head(jobs).id, FALSE, 0, {})
    BY <1>3 DEF JobEnds, JobRefused
  <2>2. PICK q \in Queued(lastCall) : q = Head(jobs)
    BY <1>0, <2>1
  <2>3. q.id \in Nat \ {0} /\ q.id <= lastCall /\ q.arg \in SUBSET UiNotes
    BY DEF Queued, Others
  <2>4. answers' \in Seq(Timely)
    BY <2>1, <2>2, <2>3, Answered
  <2>5. jobs' \in Seq(Queued(lastCall))
    BY <1>0, <2>1
  <2> QED BY <1>0, <2>1, <2>4, <2>5, WorkerTimely
<1>4. ASSUME NEW i \in UiNotes, NEW view \in Views \cup {NoView}, Merged(i, view) PROVE UiIInv'
  <2>1. /\ replica' = [v |-> replica.v + 1, notes |-> [replica.notes EXCEPT ![i] = view]]
        /\ UNCHANGED <<ui, calls, lastCall, toWorker, jobs, answers>>
    BY <1>4 DEF Merged
  <2>2. /\ replica' \in [v : Nat, notes : [UiNotes -> Views \cup {NoView}]]
        /\ replica.v <= replica'.v
    BY <1>0, <2>1
  <2> QED BY <1>0, <2>1, <2>2, WorkerTimely
<1> QED BY <1>1, <1>2, <1>3, <1>4

(* What the answer of a call makes of the page. *)
LEMMA SettledPage ==
    ASSUME UiIInv, NEW c \in calls, NEW a \in AnswerShapes, a.id = c.id, a.ok => a \in Timely,
           NEW page, page = Settled(c, a)
    PROVE  /\ page \in Pages /\ page.view = ui.view /\ page.query = ui.query
           /\ \/ page.report = ui.report
              \/ a.ok /\ page.report = a.report
           /\ \A rows \in page.rows : rows.of = ui.view /\ rows.at >= ui.report
<1>0. /\ ui \in Pages /\ lastCall \in Nat
      /\ c \in CallsMade(lastCall) /\ (c.id = ui.query => c.method = "query" /\ c.arg = ui.view)
      /\ \A rows \in ui.rows : rows.of = ui.view /\ rows.at >= ui.report
  BY DEF UiIInv, RowsAnswerView
<1>1. CASE c.method = "query"
  <2>1. page = QueryAnswered(c, a)
    BY <1>1 DEF Settled
  <2>2. CASE ui.query # c.id
    BY <1>0, <2>1, <2>2 DEF QueryAnswered
  <2>3. CASE ui.query = c.id /\ ~a.ok
    <3>1. page = [ui EXCEPT !.loading = FALSE]
      BY <2>1, <2>3 DEF QueryAnswered
    <3> QED BY <1>0, <3>1 DEF Pages
  <2>4. CASE ui.query = c.id /\ a.ok
    <3>1. PICK sel \in SUBSET UiNotes :
             page = [ui EXCEPT !.rows = {[of |-> c.arg, at |-> a.report, notes |-> a.notes]},
                               !.loading = FALSE, !.selected = sel]
      <4>1. PICK sel : sel = IF ui.selected # {} /\ ui.selected \subseteq a.notes THEN ui.selected
                              ELSE IF a.notes = {} THEN {} ELSE {CHOOSE i \in a.notes : TRUE}
        OBVIOUS
      <4>2. sel \in SUBSET UiNotes
        BY <1>0, <4>1 DEF Pages, AnswerShapes
      <4> QED BY <2>1, <2>4, <4>1, <4>2 DEF QueryAnswered, ShowRows
    <3>2. c.arg = ui.view /\ a.report >= ui.report
      BY <1>0, <2>4 DEF Timely
    <3>3. [of |-> c.arg, at |-> a.report, notes |-> a.notes] \in RowSets
      BY <1>0, <3>2 DEF RowSets, AnswerShapes, Pages
    <3>4. PICK r \in RowSets : /\ r.of = ui.view /\ r.at >= ui.report
                               /\ r = [of |-> c.arg, at |-> a.report, notes |-> a.notes]
      BY <3>2, <3>3
    <3>5. page = [ui EXCEPT !.rows = {r}, !.loading = FALSE, !.selected = sel]
      BY <3>1, <3>4
    <3>6. page \in Pages /\ page.rows = {r}
      <4>1. {r} \in SUBSET RowSets
        OBVIOUS
      <4> QED BY <1>0, <3>5, <4>1 DEF Pages
    <3> QED BY <1>0, <3>4, <3>5, <3>6 DEF Pages
  <2> QED BY <2>2, <2>3, <2>4
<1>2. CASE c.method = "refresh"
  <2>1. page = ui \/ (a.ok /\ page = [ui EXCEPT !.report = a.report])
    BY <1>2 DEF Settled
  <2> QED BY <1>0, <2>1 DEF Pages, AnswerShapes
<1>3. CASE c.method # "query" /\ c.method # "refresh"
  <2>1. page = MutationAnswered(c, a)
    BY <1>3 DEF Settled
  <2>2. PICK saves \in SUBSET Nat : saves = ui.saving \ {c.id}
    BY <1>0 DEF Pages
  <2>3. [ui EXCEPT !.saving = saves] \in Pages
    BY <1>0 DEF Pages
  <2>4. CASE ~a.ok
    <3>1. page = [ui EXCEPT !.saving = saves]
      BY <2>1, <2>2, <2>4 DEF MutationAnswered
    <3> QED BY <1>0, <3>1 DEF Pages
  <2>5. CASE a.ok
    <3>1. PICK sel \in SUBSET UiNotes, pane \in {"items", "detail"} :
             page = [[ui EXCEPT !.saving = saves] EXCEPT !.report = a.report, !.selected = sel,
                                                         !.pane = pane]
      <4>1. PICK p \in Pages : p = [ui EXCEPT !.saving = saves]
        BY <2>3
      <4>2. page = [p EXCEPT !.report = a.report,
                          !.selected = IF c.method = "save" THEN a.notes ELSE @,
                          !.pane = IF c.method = "delete" THEN "items" ELSE @]
        BY <2>1, <2>2, <2>5, <4>1 DEF MutationAnswered
      <4>3. PICK sel \in SUBSET UiNotes, pane \in {"items", "detail"} :
                /\ sel = IF c.method = "save" THEN a.notes ELSE p.selected
                /\ pane = IF c.method = "delete" THEN "items" ELSE p.pane
        BY <4>1 DEF Pages, AnswerShapes
      <4>4. page = [p EXCEPT !.report = a.report, !.selected = sel, !.pane = pane]
        BY <4>2, <4>3
      <4> QED BY <4>1, <4>4
    <3> QED BY <1>0, <2>5, <3>1 DEF Pages, AnswerShapes
  <2> QED BY <2>4, <2>5
<1> QED BY <1>1, <1>2, <1>3
(* An answer is shown, and the page asks anew when it brings another       *)
(* report.                                                                 *)
LEMMA AnswerStep == ASSUME UiIInv, AnswerArrives PROVE UiIInv'
<1>0. answers # <<>> /\ answers' = Tail(answers) /\ UNCHANGED <<jobs, working, replica, uiLeft>>
  BY DEF AnswerArrives
<1>1. PICK a \in Timely : a = Head(answers)
  BY <1>0 DEF UiIInv
<1> DEFINE call == {c \in calls : c.id = a.id}
           c == CHOOSE x \in call : TRUE
           page == Settled(c, a)
<1>2. CASE call = {}
  <2>1. UNCHANGED <<ui, calls, lastCall, toWorker>>
    BY <1>1, <1>2 DEF AnswerArrives
  <2> QED BY <1>0, <2>1, PageChanges DEF UiIInv, RowsAnswerView
<1>3. CASE call # {}
  <2>1. c \in calls /\ c.id = a.id
    BY <1>3
  <2>2. a \in AnswerShapes /\ a.report <= replica.v
    BY DEF Timely
  <2> HIDE DEF c
  <2>3. /\ page \in Pages /\ page.view = ui.view /\ page.query = ui.query
        /\ page.report = ui.report \/ page.report = a.report
        /\ \A rows \in page.rows : rows.of = ui.view /\ rows.at >= ui.report
    BY <2>1, <2>2, SettledPage
  <2>4. IF page.report # ui.report
        THEN LET query == NewCall(lastCall + 1, "query", page.view)
             IN  /\ ui' = Querying(page)
                 /\ calls' = (calls \ call) \cup {query}
                 /\ toWorker' = Append(toWorker, query)
                 /\ lastCall' = lastCall + 1
        ELSE /\ ui' = page
             /\ calls' = calls \ call
             /\ UNCHANGED <<lastCall, toWorker>>
    BY <1>1, <1>3 DEF AnswerArrives, c
  <2> HIDE DEF page
  <2>5. CASE page.report # ui.report
    BY <1>0, <2>2, <2>3, <2>4, <2>5, QueriesAnew
  <2>6. CASE page.report = ui.report
    BY <1>0, <2>3, <2>4, <2>6, PageChanges
  <2> QED BY <2>5, <2>6
<1> QED BY <1>2, <1>3

LEMMA FaultStep ==
    ASSUME UiIInv, WorkerFails \/ \E call \in calls : CallTimesOut(call) PROVE UiIInv'
<1>1. ASSUME NEW call \in calls, CallTimesOut(call) PROVE UiIInv'
  <2>1. PICK a \in AnswerShapes : /\ a.id = call.id /\ ~a.ok
                                  /\ a = [id |-> call.id, ok |-> FALSE, report |-> 0, notes |-> {}]
    BY DEF UiIInv, AnswerShapes, CallsMade, Queries, Others
  <2>2. /\ ui' = Settled(call, a) /\ calls' = calls \ {call}
        /\ UNCHANGED <<lastCall, toWorker, jobs, replica, answers>>
    BY <1>1, <2>1 DEF CallTimesOut, Unanswered
  <2>3. /\ ui' \in Pages /\ ui'.view = ui.view /\ ui'.query = ui.query /\ ui'.report = ui.report
        /\ \A rows \in ui'.rows : rows.of = ui.view /\ rows.at >= ui.report
    <3>1. PICK page : page = Settled(call, a)
      OBVIOUS
    <3>2. a.ok => a \in Timely
      BY <2>1, Zenon
    <3>3. /\ page \in Pages /\ page.view = ui.view /\ page.query = ui.query
          /\ page.report = ui.report \/ (a.ok /\ page.report = a.report)
          /\ \A rows \in page.rows : rows.of = ui.view /\ rows.at >= ui.report
      <4>1. a.id = call.id
        BY <2>1
      <4> QED BY <3>1, <3>2, <4>1, SettledPage, ZenonT(60)
    <3>4. page.report = ui.report
      BY <2>1, <3>3, Zenon
    <3> QED BY <2>2, <3>1, <3>3, <3>4
  <2> QED BY <2>2, <2>3, PageChanges
<1>2. CASE WorkerFails
  <2>1. PICK loading \in BOOLEAN : ui' = [ui EXCEPT !.saving = {}, !.loading = loading]
    <3>1. PICK loading : loading = (ui.loading /\ \A call \in calls : call.id # ui.query)
      OBVIOUS
    <3>2. loading \in BOOLEAN
      BY <3>1, Zenon
    <3> QED BY <1>2, <3>1, <3>2 DEF WorkerFails
  <2>2. calls' = {} /\ UNCHANGED <<lastCall, toWorker, jobs, replica, answers>>
    BY <1>2 DEF WorkerFails
  <2>3. /\ ui' \in Pages /\ ui'.view = ui.view /\ ui'.query = ui.query /\ ui'.report = ui.report
        /\ ui'.rows = ui.rows
    BY <2>1 DEF UiIInv, Pages
  <2>4. \A rows \in ui'.rows : rows.of = ui.view /\ rows.at >= ui.report
    BY <2>3 DEF UiIInv, RowsAnswerView
  <2> QED BY <2>2, <2>3, <2>4, PageChanges
<1> QED BY <1>1, <1>2

LEMMA UiStep == UiIInv /\ [UiNext]_uiVars => UiIInv'
<1> SUFFICES ASSUME UiIInv, [UiNext]_uiVars PROVE UiIInv'
  OBVIOUS
<1>1. CASE UNCHANGED uiVars
  BY <1>1 DEF uiVars, UiIInv, RowsAnswerView, Timely
<1> QED BY <1>1, PersonStep, UiWorkerStep, AnswerStep, FaultStep DEF UiNext

(* Rows are shown only under the view they were asked for, and are never   *)
(* older than the report beside them.                                      *)
THEOREM RowsAlwaysAnswer == UiSpec => []RowsAnswerView
<1>1. UiIInv => RowsAnswerView
  BY DEF UiIInv
<1> QED BY UiInitIInv, UiStep, <1>1, PTL DEF UiSpec

-----------------------------------------------------------------------------
(***************************************************************************)
(* TerminalApp: the list and what is marked in it. Outside a refresh the   *)
(* list is the replica's unless a change is still announced or was missed; *)
(* while the picker is open the selection is what it was opened for, or a  *)
(* refresh left nothing of it.                                             *)
(***************************************************************************)

(* Theorem ListStaysCurrent. *)

AppFields == {"notes", "bin", "views", "view", "subview", "search", "narrow", "reversed", "cursor",
              "marked", "mode", "picked", "snapshot"}

OnIds(f) == f = [i \in NoteIds |-> f[i]]

AppShaped(a) == DOMAIN a = AppFields /\ OnIds(a.notes)

EventsTyped == events \in Seq({"content", "status"}) /\ Len(events) <= EventRoom

Told == missed \/ Contains(events, "content")

ListIInv ==
    /\ AppShaped(app) /\ EventsTyped /\ missed \in BOOLEAN
    /\ run = "refresh" => OnIds(app.snapshot) /\ (Told \/ app.snapshot = Snapshot)
    /\ run \notin {"refresh", "quit", "failed"} => Told \/ app.notes = Snapshot

\* Only the notes and the snapshot of the application are looked at.
Alike(b, a) == AppShaped(b) /\ b.notes = a.notes /\ b.snapshot = a.snapshot

LEMMA SnapshotOnIds == OnIds(Snapshot) /\ OnIds(Snapshot')
BY DEF OnIds, Snapshot

LEMMA ExceptOnIds == ASSUME NEW f, OnIds(f), NEW i, NEW v PROVE OnIds([f EXCEPT ![i] = v])
BY DEF OnIds

LEMMA TailTyped ==
    ASSUME EventsTyped, events # <<>>
    PROVE  /\ Tail(events) \in Seq({"content", "status"}) /\ Len(Tail(events)) = Len(events) - 1
           /\ \A n \in 1 .. Len(events) - 1 : Tail(events)[n] = events[n + 1]
BY DEF EventsTyped

LEMMA Announced ==
    ASSUME EventsTyped, NEW what \in {"content", "status"}
    PROVE  /\ Announce(what, events) \in Seq({"content", "status"})
           /\ Len(Announce(what, events)) <= EventRoom
           /\ Contains(Announce(what, events), what)
<1>1. CASE Len(events) < EventRoom
  <2>1. Announce(what, events) = Append(events, what) BY <1>1 DEF Announce
  <2>2. Append(events, what)[Len(events) + 1] = what /\ Len(Append(events, what)) = Len(events) + 1
    BY DEF EventsTyped
  <2> QED BY <1>1, <2>1, <2>2, TuiAssumption DEF EventsTyped, Contains
<1>2. CASE Len(events) = EventRoom
  <2>1. events # <<>> /\ EventRoom \in Nat /\ EventRoom > 0
    BY <1>2, TuiAssumption DEF EventsTyped
  <2>2. PICK rest \in Seq({"content", "status"}) : rest = Tail(events) /\ Len(rest) = Len(events) - 1
    BY <2>1, TailTyped
  <2>3. Announce(what, events) = Append(rest, what) BY <1>2, <2>1, <2>2 DEF Announce
  <2>4. Append(rest, what)[Len(rest) + 1] = what /\ Len(Append(rest, what)) = Len(rest) + 1
    BY <2>2
  <2> QED BY <1>2, <2>1, <2>2, <2>3, <2>4 DEF Contains
<1> QED BY <1>1, <1>2, TuiAssumption DEF EventsTyped

\* A change that was announced stays announced or is missed.
LEMMA StaysTold ==
    ASSUME EventsTyped, NEW what \in {"content", "status"}, Contains(events, "content")
    PROVE  Contains(Announce(what, events), "content") \/ Overflows(events)
<1>1. CASE Len(events) < EventRoom
  <2>1. Announce(what, events) = Append(events, what) BY <1>1 DEF Announce
  <2>2. PICK k \in 1 .. Len(events) : events[k] = "content" BY DEF Contains
  <2>3. Append(events, what)[k] = "content" /\ k \in 1 .. Len(Append(events, what))
    BY <2>2 DEF EventsTyped
  <2> QED BY <2>1, <2>3 DEF Contains
<1>2. CASE Len(events) = EventRoom
  <2>1. PICK k \in 1 .. Len(events) : events[k] = "content" BY DEF Contains
  <2>2. CASE k = 1 BY <1>2, <2>1, <2>2 DEF Overflows, EventsTyped
  <2>3. CASE k # 1
    <3>1. events # <<>> BY <2>1 DEF EventsTyped
    <3>2. PICK rest \in Seq({"content", "status"}) :
              /\ rest = Tail(events) /\ Len(rest) = Len(events) - 1
              /\ \A n \in 1 .. Len(events) - 1 : rest[n] = events[n + 1]
      BY <3>1, TailTyped
    <3>3. rest[k - 1] = "content" /\ k - 1 \in 1 .. Len(rest) BY <2>1, <2>3, <3>2 DEF EventsTyped
    <3>4. Announce(what, events) = Append(rest, what)
      BY <1>2, <3>2, TuiAssumption DEF Announce, EventsTyped
    <3>5. Append(rest, what)[k - 1] = "content" /\ k - 1 \in 1 .. Len(Append(rest, what))
      BY <3>2, <3>3
    <3> QED BY <3>4, <3>5 DEF Contains
  <2> QED BY <2>2, <2>3
<1> QED BY <1>1, <1>2, TuiAssumption DEF EventsTyped

\* A change of the replica is announced.
LEMMA StoreTells ==
    ASSUME ListIInv, NEW new, Store(new)
    PROVE  EventsTyped' /\ missed' \in BOOLEAN /\ Told'
BY Announced DEF ListIInv, Store, EventsTyped, Told, Overflows

-----------------------------------------------------------------------------
LEMMA SetViewAlike ==
    ASSUME NEW a, AppShaped(a), NEW view, NEW S
    PROVE  /\ Alike(SetView(a, view), a) /\ Alike(SetSubview(a, S), a)
           /\ Alike(SetSubview(SetView(a, view), S), a)
           /\ SetView(a, view).mode = a.mode /\ SetSubview(a, S).mode = a.mode
           /\ SetSubview(SetView(a, view), S).mode = a.mode
<1> DEFINE b == SetView(a, view)
<1>1. \A c : AppShaped(c) => Alike(SetSubview(c, S), c) /\ SetSubview(c, S).mode = c.mode
  BY DEF Alike, AppShaped, AppFields, SetSubview
<1>2. Alike(b, a) /\ b.mode = a.mode BY DEF Alike, AppShaped, AppFields, SetView
<1> HIDE DEF b
<1> QED BY <1>1, <1>2 DEF Alike, b

\* A refresh that takes the behaviour leaves the notes, the marks and the mode.
LEMMA RefreshedAlike ==
    ASSUME NEW a, AppShaped(a)
    PROVE  LET b == Refreshed(a)
           IN  Alike(b, a) /\ b.mode = a.mode /\ b.marked = a.marked
<1> DEFINE b == [a EXCEPT !.views = views]
<1>1. AppShaped(b) /\ Alike(b, a) /\ b.mode = a.mode /\ b.marked = a.marked
  BY DEF Alike, AppShaped, AppFields
<1>2. PICK c \in {b, SetView(b, "all"), SetSubview(b, {})} : c = Refreshed(a) BY DEF Refreshed
<1> HIDE DEF b
<1>3. Alike(c, b) /\ c.mode = b.mode
  <2>1. Alike(b, b) BY <1>1 DEF Alike
  <2> QED BY <1>1, <1>2, <2>1, SetViewAlike
<1>4. c.marked = b.marked BY <1>1, <1>2 DEF SetView, SetSubview, AppShaped, AppFields
<1> QED BY <1>1, <1>2, <1>3, <1>4 DEF Alike

LEMMA AddNoteShaped ==
    ASSUME NEW a, AppShaped(a), NEW i, NEW note
    PROVE  AppShaped(AddNote(a, i, note)) /\ AddNote(a, i, note).snapshot = a.snapshot
<1> DEFINE b == [a EXCEPT !.notes[i] = note]
<1>1. DOMAIN b = AppFields /\ b.notes = [a.notes EXCEPT ![i] = note] /\ b.snapshot = a.snapshot
  BY DEF AppShaped, AppFields
<1>2. OnIds(b.notes) BY <1>1, ExceptOnIds DEF AppShaped
<1> HIDE DEF b
<1>3. \A c : Alike([b EXCEPT !.cursor = c], b) BY <1>1, <1>2 DEF Alike, AppShaped, AppFields
<1>4. PICK c : AddNote(a, i, note) = [b EXCEPT !.cursor = c] BY DEF AddNote, b
<1> QED BY <1>1, <1>3, <1>4 DEF Alike

LEMMA ShowNewShaped ==
    ASSUME NEW a, AppShaped(a), NEW i, NEW note
    PROVE  AppShaped(ShowNew(a, i, note))
<1> DEFINE b == [a EXCEPT !.search = {}, !.narrow = {}]
<1>1. AppShaped(b) BY DEF AppShaped, AppFields
<1> HIDE DEF b
<1>2. AppShaped(SetView(b, "all")) BY <1>1, SetViewAlike DEF Alike
<1> QED BY <1>2, AddNoteShaped DEF ShowNew, b

LEMMA HydrateShows ==
    ASSUME NEW a, AppShaped(a), NEW snapshot, OnIds(snapshot), NEW bin
    PROVE  LET b == Hydrate(a, snapshot, bin) IN AppShaped(b) /\ b.notes = snapshot
<1> DEFINE b == [a EXCEPT !.notes = snapshot, !.bin = bin]
<1>1. AppShaped(b) /\ b.notes = snapshot BY DEF AppShaped, AppFields
<1> HIDE DEF b
<1>2. \A c : Alike([b EXCEPT !.cursor = c], b) BY <1>1 DEF Alike, AppShaped, AppFields
<1>3. PICK c : Hydrate(a, snapshot, bin) = [b EXCEPT !.cursor = c] BY DEF Hydrate, b
<1> QED BY <1>1, <1>2, <1>3 DEF Alike

LEMMA DispatchingAlike == ASSUME ListIInv PROVE Alike(Dispatching, app)
BY DEF ListIInv, Alike, AppShaped, AppFields, Dispatching

-----------------------------------------------------------------------------
\* Keys that move change neither the notes nor the replica.
LEMMA AlikeKeeps ==
    ASSUME ListIInv, Alike(app', app), UNCHANGED <<stored, events, missed>>,
           run' = run \/ (AtKeys /\ run' # "refresh")
                \/ (run \notin {"refresh", "quit", "failed"} /\ run' # "refresh")
    PROVE  ListIInv'
<1>1. Snapshot' = Snapshot BY DEF Snapshot
<1>2. (EventsTyped' <=> EventsTyped) /\ (Told' <=> Told) BY DEF EventsTyped, Told
<1>3. AppShaped(app)' BY DEF Alike, AppShaped, OnIds
<1>4. app'.notes = app.notes /\ app'.snapshot = app.snapshot BY DEF Alike
<1> QED BY <1>1, <1>2, <1>3, <1>4 DEF ListIInv, AtKeys, OnIds

\* A change of the list that was stored is announced.
LEMMA StoreKeeps ==
    ASSUME ListIInv, NEW new, Store(new), AppShaped(app)',
           run' # "refresh" \/ (run' = run /\ app' = app)
    PROVE  ListIInv'
<1>1. EventsTyped' /\ missed' \in BOOLEAN /\ Told' BY StoreTells
<1> QED BY <1>1 DEF ListIInv, OnIds

Moves(a) == CursorMoves(a) \cup NarrowMoves(a) \cup GotoMoves(a) \cup SubviewMoves(a)

LEMMA MovesAlike ==
    ASSUME NEW a, AppShaped(a), NEW x \in Moves(a)
    PROVE  Alike(x, a) /\ x.mode = a.mode
<1>1. CASE x \in CursorMoves(a)
  BY <1>1, Zenon DEF CursorMoves, Alike, AppShaped, AppFields
<1>2. CASE x \in NarrowMoves(a)
  BY <1>2 DEF NarrowMoves, Alike, AppShaped, AppFields
<1>3. CASE x \in GotoMoves(a)
  <2>1. \E view, S : x = SetView(a, view) \/ x = SetSubview(SetView(a, view), S)
    BY <1>3, Zenon DEF GotoMoves
  <2> QED BY <2>1, SetViewAlike
<1>4. CASE x \in SubviewMoves(a)
  <2>1. \E S : x = SetSubview(a, S) BY <1>4, Zenon DEF SubviewMoves
  <2> QED BY <2>1, SetViewAlike
<1> QED BY <1>1, <1>2, <1>3, <1>4 DEF Moves

LEMMA MovesKeep ==
    ASSUME ListIInv, MoveKey \/ OpenKey \/ CancelKey \/ SearchKey \/ GotoKey \/ ClientKey \/ EnterKey
                       \/ OpenTagPicker \/ (\E t \in Tags : ToggleTag(t)) \/ QuitKey \/ EditKey
    PROVE  ListIInv'
<1> DEFINE d == Dispatching
<1>1. AppShaped(app) /\ Alike(d, app) BY DispatchingAlike DEF ListIInv
<1> HIDE DEF d
<1>2. \A a : AppShaped(a) => \A x \in Moves(a) : Alike(x, a) BY MovesAlike
<1>3. \A a : AppShaped(a) => Alike(Mark(a), a) BY DEF Mark, Alike, AppShaped, AppFields
<1>4. \A a, b : Alike(a, d) => Alike(a, app) BY <1>1 DEF Alike
<1>5. CASE MoveKey
  <2>1. Alike(app', d) BY <1>1, <1>2, <1>3, <1>5 DEF MoveKey, Moves, d, Alike
  <2> QED BY <2>1, <1>4, <1>5, AlikeKeeps DEF MoveKey
<1>6. CASE OpenKey
  <2>1. Alike(app', app) BY <1>1, <1>6 DEF OpenKey, Alike, AppShaped, AppFields
  <2> QED BY <2>1, <1>6, AlikeKeeps DEF OpenKey
<1>7. CASE CancelKey
  <2>1. Alike(app', app) BY <1>1, <1>7 DEF CancelKey, Alike, AppShaped, AppFields
  <2> QED BY <2>1, <1>7, AlikeKeeps DEF CancelKey
<1>8. CASE SearchKey
  <2>1. Alike(app', app) BY <1>1, <1>8 DEF SearchKey, Alike, AppShaped, AppFields
  <2> QED BY <2>1, <1>8, AlikeKeeps DEF SearchKey
<1>9. CASE GotoKey
  <2> DEFINE b == [app EXCEPT !.mode = "normal"]
  <2>1. Alike(b, app) BY <1>1 DEF Alike, AppShaped, AppFields
  <2> HIDE DEF b
  <2>2. Alike(app', b) BY <1>2, <1>9, <2>1 DEF GotoKey, Moves, b, Alike
  <2>3. Alike(app', app) BY <2>1, <2>2 DEF Alike
  <2> QED BY <2>3, <1>9, AlikeKeeps DEF GotoKey
<1>10. CASE ClientKey
  <2>1. Alike(app', app) BY <1>1, <1>10 DEF ClientKey, Alike, AppShaped, AppFields
  <2> QED BY <2>1, <1>10, AlikeKeeps DEF ClientKey
<1>11. CASE EnterKey
  <2>1. Alike(app', app) BY <1>1, <1>11 DEF EnterKey, Alike, AppShaped, AppFields
  <2> QED BY <2>1, <1>11, AlikeKeeps DEF EnterKey
<1>12. CASE OpenTagPicker
  <2>1. app' = d \/ \E p : app' = [app EXCEPT !.mode = "tags", !.picked = p]
    BY <1>12 DEF OpenTagPicker, d
  <2>2. Alike(app', app) BY <1>1, <2>1 DEF Alike, AppShaped, AppFields
  <2> QED BY <2>2, <1>12, AlikeKeeps DEF OpenTagPicker
<1>13. CASE \E t \in Tags : ToggleTag(t)
  <2>1. Alike(app', app) BY <1>1, <1>13 DEF ToggleTag, Alike, AppShaped, AppFields
  <2> QED BY <2>1, <1>13, AlikeKeeps DEF ToggleTag
<1>14. CASE QuitKey
  <2>1. Alike(app', app) BY <1>1, <1>14 DEF QuitKey, Ends, Alike, AppShaped
  <2> QED BY <2>1, <1>14, AlikeKeeps DEF QuitKey, Ends, AtCommand
<1>15. CASE EditKey
  <2>1. Alike(app', app) BY <1>1, <1>15 DEF EditKey, d
  <2> QED BY <2>1, <1>15, AlikeKeeps DEF EditKey, AtCommand
<1> QED BY <1>5, <1>6, <1>7, <1>8, <1>9, <1>10, <1>11, <1>12, <1>13, <1>14, <1>15

-----------------------------------------------------------------------------
LEMMA ChangesKeep ==
    ASSUME ListIInv, DeleteKey \/ RestoreKey \/ ItemActionKey \/ EditorCloses \/ ApplyTags
    PROVE  ListIInv'
<1> DEFINE d == Dispatching
<1>1. AppShaped(app) /\ Alike(d, app) BY DispatchingAlike DEF ListIInv
<1>2. DOMAIN d = AppFields /\ OnIds(d.notes) BY <1>1 DEF Alike, AppShaped
<1> HIDE DEF d
<1>3. ASSUME NEW how, Ends(how), how # "refresh",
             run \notin {"refresh", "quit", "failed"}
      PROVE  ListIInv'
  <2>1. Alike(app', app) BY <1>1, <1>3 DEF Ends, Alike, AppShaped
  <2> QED BY <1>3, <2>1, AlikeKeeps DEF Ends
<1>4. ASSUME NEW new, SavesNote(new), AppShaped(app)' PROVE ListIInv'
  <2>1. CASE Store(new) /\ run' = "keys" BY <1>4, <2>1, StoreKeeps
  <2>2. CASE run' = "failed" /\ UNCHANGED <<stored, events, missed>>
    <3>1. EventsTyped' /\ missed' \in BOOLEAN BY <2>2 DEF ListIInv, EventsTyped
    <3> QED BY <1>4, <2>2, <3>1 DEF ListIInv
  <2> QED BY <1>4, <2>1, <2>2 DEF SavesNote
<1>5. CASE DeleteKey
  <2> DEFINE i == SelectedNote(app)
  <2>1. CASE Ends("failed") BY <1>3, <1>5, <2>1 DEF DeleteKey, AtCommand, AtKeys
  <2>2. CASE ~Ends("failed")
    <3>1. PICK new : Store(new) BY <1>5, <2>2 DEF DeleteKey
    <3>2. run' = run /\ run = "keys" BY <1>5, <2>2 DEF DeleteKey, AtCommand, AtKeys
    <3>3. \E n, c, e : app' = [d EXCEPT !.notes[n] = Never, !.bin = c, !.cursor = e]
      BY <1>5, <2>2 DEF DeleteKey, d
    <3>4. DOMAIN app' = AppFields /\ \E n : app'.notes = [d.notes EXCEPT ![n] = Never]
      BY <1>2, <3>3 DEF AppFields
    <3>5. AppShaped(app)' BY <1>2, <3>4, ExceptOnIds DEF AppShaped, OnIds
    <3> QED BY <3>1, <3>2, <3>5, StoreKeeps
  <2> QED BY <2>1, <2>2
<1>6. CASE RestoreKey
  <2>1. PICK n, c, note : /\ app' = [d EXCEPT !.notes[n] = note, !.bin = c]
                          /\ SavesNote([stored EXCEPT ![n] = note])
    BY <1>6 DEF RestoreKey, d
  <2>2. DOMAIN app' = AppFields /\ app'.notes = [d.notes EXCEPT ![n] = note]
    BY <1>2, <2>1 DEF AppFields
  <2>3. AppShaped(app)' BY <1>2, <2>2, ExceptOnIds DEF AppShaped, OnIds
  <2> QED BY <1>4, <2>1, <2>3
<1>7. CASE ItemActionKey
  <2>1. PICK n, note : /\ app' = [d EXCEPT !.notes[n] = note]
                       /\ SavesNote([stored EXCEPT ![n] = note])
    BY <1>7 DEF ItemActionKey, d
  <2>2. DOMAIN app' = AppFields /\ app'.notes = [d.notes EXCEPT ![n] = note]
    BY <1>2, <2>1 DEF AppFields
  <2>3. AppShaped(app)' BY <1>2, <2>2, ExceptOnIds DEF AppShaped, OnIds
  <2> QED BY <1>4, <2>1, <2>3
<1>8. CASE EditorCloses
  <2>1. CASE Ends("failed") BY <1>3, <1>8, <2>1 DEF EditorCloses
  <2>2. CASE ~Ends("failed")
    <3>1. PICK n, note : /\ app' = [app EXCEPT !.notes[n] = note] /\ run' = "keys"
                         /\ Store([stored EXCEPT ![n] = note])
      BY <1>8, <2>2 DEF EditorCloses
    <3>2. DOMAIN app' = AppFields /\ app'.notes = [app.notes EXCEPT ![n] = note]
      BY <1>1, <3>1 DEF AppShaped, AppFields
    <3>3. AppShaped(app)' BY <1>1, <3>2, ExceptOnIds DEF AppShaped, OnIds
    <3> QED BY <3>1, <3>3, StoreKeeps
  <2> QED BY <2>1, <2>2
<1>9. CASE ApplyTags
  <2>1. PICK notes : /\ app' = [app EXCEPT !.notes = notes, !.marked = {}, !.mode = "normal",
                                           !.picked = {}]
                     /\ OnIds(notes)
    <3> DEFINE ids == {i \in SelectedNoteIds(app) : app.notes[i].live}
               notes == [i \in NoteIds |-> IF i \in ids THEN Fresh(app.picked) ELSE app.notes[i]]
    <3>1. OnIds(notes) BY DEF OnIds
    <3>2. app' = [app EXCEPT !.notes = notes, !.marked = {}, !.mode = "normal", !.picked = {}]
      BY <1>9, Zenon DEF ApplyTags
    <3> QED BY <3>1, <3>2
  <2>2. DOMAIN app' = AppFields /\ app'.notes = notes BY <1>1, <2>1 DEF AppShaped, AppFields
  <2>3. AppShaped(app)' BY <2>1, <2>2 DEF AppShaped, OnIds
  <2>4. run' # "refresh" /\ \E new : Store(new) BY <1>9 DEF ApplyTags, AtKeys
  <2> QED BY <2>3, <2>4, StoreKeeps
<1> QED BY <1>5, <1>6, <1>7, <1>8, <1>9

LEMMA ComingsKeep ==
    ASSUME ListIInv,
           \/ CreateEnds \/ CapturePromptEnds \/ AddPluginResult
           \/ \E done \in SUBSET NoteIds, tags \in SUBSET Tags : PluginEnds(done, tags)
    PROVE  ListIInv'
<1>1. AppShaped(app) BY DEF ListIInv
<1>2. ASSUME NEW how, Ends(how), how # "refresh", run \notin {"refresh", "quit", "failed"}
      PROVE  ListIInv'
  <2>1. Alike(app', app) BY <1>1, <1>2 DEF Ends, Alike, AppShaped
  <2> QED BY <1>2, <2>1, AlikeKeeps DEF Ends
<1>3. \A i, note : AppShaped([ShowNew(app, i, note) EXCEPT !.mode = "normal"])
  <2> SUFFICES ASSUME NEW i, NEW note
               PROVE  AppShaped([ShowNew(app, i, note) EXCEPT !.mode = "normal"])
    OBVIOUS
  <2>1. AppShaped(ShowNew(app, i, note)) BY <1>1, ShowNewShaped
  <2> QED BY <2>1 DEF AppShaped, AppFields
<1>4. ASSUME NEW i, NEW note, Comes(i, note) PROVE ListIInv'
  <2>1. AppShaped(app)' BY <1>3, <1>4 DEF Comes, AppShaped, OnIds
  <2> QED BY <1>4, <2>1, StoreKeeps DEF Comes
<1>5. CASE CreateEnds BY <1>2, <1>4, <1>5 DEF CreateEnds
<1>6. CASE CapturePromptEnds BY <1>2, <1>4, <1>6 DEF CapturePromptEnds
<1>7. CASE AddPluginResult
  <2>1. CASE Ends("failed") BY <1>2, <1>7, <2>1 DEF AddPluginResult, AtKeys
  <2>2. CASE ~Ends("failed")
    <3>1. PICK i, note, new : /\ app' = [ShowNew(app, i, note) EXCEPT !.mode = "normal"]
                              /\ Store(new) /\ run' = "keys"
      BY <1>7, <2>2 DEF AddPluginResult
    <3>2. AppShaped(app)' BY <1>3, <3>1 DEF AppShaped, OnIds
    <3> QED BY <3>1, <3>2, StoreKeeps
  <2> QED BY <2>1, <2>2
<1>8. ASSUME NEW done \in SUBSET NoteIds, NEW tags \in SUBSET Tags, PluginEnds(done, tags)
      PROVE  ListIInv'
  <2> DEFINE Put(notes) == [i \in NoteIds |-> IF i \in done THEN Fresh(tags) ELSE notes[i]]
             new == {i \in done : stored[i].v = 0}
             updated == [app EXCEPT !.notes = Put(app.notes)]
             base == IF new = {} THEN updated
                     ELSE AddNote(updated, CHOOSE i \in new : TRUE, Fresh(tags))
  <2>1. AppShaped(updated) /\ updated.notes = Put(app.notes) /\ updated.snapshot = app.snapshot
    <3>1. OnIds(Put(app.notes)) BY DEF OnIds
    <3>2. ASSUME NEW notes, OnIds(notes), NEW u, u = [app EXCEPT !.notes = notes]
          PROVE  AppShaped(u) /\ u.notes = notes /\ u.snapshot = app.snapshot
      BY <1>1, <3>2 DEF AppShaped, AppFields
    <3> HIDE DEF Put
    <3> QED BY <3>1, <3>2
  <2>2. PICK m : app' = [base EXCEPT !.mode = m] BY <1>8, Zenon DEF PluginEnds
  <2>3. run = "plugin" /\ run' # "refresh" BY <1>8 DEF PluginEnds
  <2>4. CASE done = {}
    <3>1. UNCHANGED <<stored, events, missed>> BY <1>8, <2>4 DEF PluginEnds
    <3>2. base = updated /\ updated.notes = app.notes
      BY <1>1, <2>1, <2>4 DEF AppShaped, OnIds
    <3> HIDE DEF base, updated
    <3>3. Alike(app', app) BY <2>1, <2>2, <3>2 DEF Alike, AppShaped, AppFields
    <3> QED BY <2>3, <3>1, <3>3, AlikeKeeps
  <2>5. CASE done # {}
    <3>1. PICK s : Store(s) BY <1>8, <2>5 DEF PluginEnds
    <3> HIDE DEF updated
    <3>2. AppShaped(base) BY <2>1, AddNoteShaped
    <3> HIDE DEF base
    <3>3. AppShaped(app)' BY <2>2, <3>2 DEF AppShaped, AppFields, OnIds
    <3> QED BY <2>3, <3>1, <3>3, StoreKeeps
  <2> QED BY <2>4, <2>5
<1> QED BY <1>5, <1>6, <1>7, <1>8

-----------------------------------------------------------------------------
LEMMA RefreshesKeep ==
    ASSUME ListIInv, TakeEvent \/ RefreshKey \/ EndRefresh \/ RefreshFails
    PROVE  ListIInv'
<1>1. AppShaped(app) /\ Alike(Dispatching, app) BY DispatchingAlike DEF ListIInv
<1>2. Snapshot' = Snapshot
  BY DEF TakeEvent, RefreshKey, EndRefresh, RefreshFails, Snapshot
<1>3. ASSUME NEW a, AppShaped(a), Refreshing(a), EventsTyped', missed' \in BOOLEAN
      PROVE  ListIInv'
  <2> DEFINE b == Refreshed(a)
  <2>1. AppShaped(b) BY <1>3, RefreshedAlike DEF Alike
  <2>2. app' = [b EXCEPT !.snapshot = Snapshot] /\ run' = "refresh"
    BY <1>3 DEF Refreshing
  <2> HIDE DEF b
  <2>3. AppShaped(app)' /\ app'.snapshot = Snapshot
    BY <2>1, <2>2 DEF AppShaped, AppFields, OnIds
  <2> QED BY <1>2, <1>3, <2>2, <2>3, SnapshotOnIds DEF ListIInv, OnIds
<1>4. CASE TakeEvent
  <2>1. EventsTyped' /\ run = "keys" /\ events # <<>>
    <3>1. EventsTyped /\ events # <<>> /\ events' = Tail(events) /\ run = "keys"
      BY <1>4 DEF ListIInv, TakeEvent, AtKeys
    <3>2. Tail(events) \in Seq({"content", "status"}) /\ Len(Tail(events)) = Len(events) - 1
      BY <3>1, TailTyped
    <3>3. Len(events) \in Nat /\ Len(events) <= EventRoom BY <3>1 DEF EventsTyped
    <3> QED BY <3>1, <3>2, <3>3, TuiAssumption DEF EventsTyped
  <2>2. CASE Refreshing(app) /\ UNCHANGED missed BY <1>1, <1>3, <2>1, <2>2 DEF ListIInv
  <2>3. CASE missed' = TRUE /\ UNCHANGED run /\ app' \in {app, Refreshed(app)}
    <3>1. AppShaped(app') BY <1>1, <2>3, RefreshedAlike DEF Alike
    <3>2. AppShaped(app)' BY <3>1 DEF AppShaped, OnIds
    <3> QED BY <2>1, <2>3, <3>2 DEF ListIInv, Told
  <2>4. CASE Head(events) = "status" /\ UNCHANGED <<app, run, missed>>
    <3>1. Contains(events, "content") => Contains(Tail(events), "content")
      <4> SUFFICES ASSUME Contains(events, "content") PROVE Contains(Tail(events), "content")
        OBVIOUS
      <4>1. PICK k \in 1 .. Len(events) : events[k] = "content" BY DEF Contains
      <4>2. k # 1 BY <2>1, <2>4, <4>1 DEF ListIInv, EventsTyped
      <4>3. Tail(events)[k - 1] = "content" /\ k - 1 \in 1 .. Len(Tail(events))
        BY <2>1, <4>1, <4>2 DEF ListIInv, EventsTyped
      <4> QED BY <4>3 DEF Contains
    <3>2. Told => Told' BY <1>4, <2>4, <3>1 DEF Told, TakeEvent
    <3> QED BY <1>1, <1>2, <2>1, <2>4, <3>2 DEF ListIInv, AppShaped, OnIds
  <2> QED BY <1>4, <2>2, <2>3, <2>4 DEF TakeEvent
<1>5. CASE RefreshKey
  <2>1. EventsTyped' /\ missed' \in BOOLEAN BY <1>5 DEF ListIInv, EventsTyped, RefreshKey
  <2> QED BY <1>1, <1>3, <1>5, <2>1 DEF RefreshKey, Alike
<1>6. CASE EndRefresh
  <2> DEFINE b == Hydrate(app, app.snapshot, DeletedNotes)
  <2>1. OnIds(app.snapshot) /\ (Told \/ app.snapshot = Snapshot)
    BY <1>6 DEF EndRefresh, ListIInv
  <2>2. AppShaped(b) /\ b.notes = app.snapshot BY <1>1, <2>1, HydrateShows
  <2>3. app' = [b EXCEPT !.snapshot = <<>>] /\ run' = "keys" BY <1>6 DEF EndRefresh
  <2> HIDE DEF b
  <2>4. AppShaped(app)' /\ app'.notes = app.snapshot
    BY <2>2, <2>3 DEF AppShaped, AppFields, OnIds
  <2>5. (EventsTyped' <=> EventsTyped) /\ (Told' <=> Told) /\ missed' = missed
    BY <1>6 DEF EndRefresh, EventsTyped, Told
  <2> QED BY <1>2, <2>1, <2>3, <2>4, <2>5 DEF ListIInv
<1>7. CASE RefreshFails
  <2>1. OnIds(app.snapshot) BY <1>7 DEF RefreshFails, ListIInv
  <2>2. app' = [app EXCEPT !.notes = app.snapshot, !.snapshot = <<>>] BY <1>7 DEF RefreshFails
  <2>3. AppShaped(app') BY <1>1, <2>1, <2>2 DEF AppShaped, AppFields
  <2>4. AppShaped(app)' BY <2>3 DEF AppShaped, OnIds
  <2>5. EventsTyped' /\ missed' = TRUE /\ run' # "refresh"
    BY <1>7 DEF RefreshFails, EventsTyped, ListIInv
  <2> QED BY <2>4, <2>5 DEF ListIInv, Told
<1> QED BY <1>4, <1>5, <1>6, <1>7

LEMMA ArrivalsKeep ==
    ASSUME ListIInv,
           \/ \E i \in NoteIds, tags \in SUBSET Tags, live \in BOOLEAN : MergeArrives(i, tags, live)
           \/ \E config \in Configurations : ConfigArrives(config)
           \/ PresenceArrives
    PROVE  ListIInv'
<1>1. UNCHANGED <<app, run>> BY DEF MergeArrives, ConfigArrives, PresenceArrives
<1>2. AppShaped(app)' BY <1>1 DEF ListIInv, AppShaped, OnIds
<1>3. CASE \E new : Store(new) BY <1>1, <1>2, <1>3, StoreKeeps
<1>4. CASE PresenceArrives
  <2>1. EventsTyped' /\ missed' \in BOOLEAN
    BY <1>4, Announced DEF ListIInv, PresenceArrives, EventsTyped, Overflows
  <2>2. Told => Told' BY <1>4, StaysTold DEF Told, ListIInv, PresenceArrives
  <2>3. Snapshot' = Snapshot BY <1>4 DEF PresenceArrives, Snapshot
  <2> QED BY <1>1, <1>2, <2>1, <2>2, <2>3 DEF ListIInv, OnIds
<1> QED BY <1>3, <1>4 DEF MergeArrives, ConfigArrives

LEMMA ListInit == TuiInit => ListIInv
<1> SUFFICES ASSUME TuiInit PROVE ListIInv OBVIOUS
<1>1. AppShaped(app) /\ app.notes = Snapshot
  BY SnapshotOnIds DEF TuiInit, AppShaped, AppFields
<1>2. events = <<>> /\ run = "keys" /\ missed \in BOOLEAN BY DEF TuiInit
<1>3. EventsTyped BY <1>2, TuiAssumption DEF EventsTyped
<1> QED BY <1>1, <1>2, <1>3 DEF ListIInv

LEMMA ListNext == ListIInv /\ [TuiNext]_tuiVars => ListIInv'
<1> SUFFICES ASSUME ListIInv, [TuiNext]_tuiVars PROVE ListIInv' OBVIOUS
<1>1. CASE UNCHANGED tuiVars
  <2>1. Alike(app', app) BY <1>1 DEF tuiVars, ListIInv, Alike, AppShaped
  <2> QED BY <1>1, <2>1, AlikeKeeps DEF tuiVars
<1> QED BY <1>1, ArrivalsKeep, RefreshesKeep, MovesKeep, ChangesKeep, ComingsKeep DEF TuiNext

(* When the loop waits for a key and no change is announced, the list is   *)
(* the replica's: changes merged during a refresh, an editor or a plugin   *)
(* are not missed, and a change made in the list was saved (main.rs:343-   *)
(* 376, 420-445).                                                          *)
THEOREM ListStaysCurrent == TuiSpec => []ListIsCurrent
<1>1. ListIInv => ListIsCurrent BY DEF ListIInv, ListIsCurrent, Told, AtKeys
<1> QED BY <1>1, ListInit, ListNext, PTL DEF TuiSpec

-----------------------------------------------------------------------------
(* Theorem PickedTagsReach.  While the tag picker is open, the notes selected *)
(* are the ones it was opened for, or a refresh lost them, which it never    *)
(* does to marked ones.                                                     *)

PickIInv ==
    /\ views \in Configurations
    /\ app.mode = "tags" =>
          /\ run \in {"keys", "refresh", "failed"}
          /\ pickedFor = SelectedNoteIds(app) \/ (pickedFor = {} /\ app.marked = {})

(* What the list and its cursor depend on. *)
SameList(b, a) ==
    /\ b.notes = a.notes /\ b.search = a.search /\ b.narrow = a.narrow /\ b.subview = a.subview
    /\ b.views[b.view] = a.views[a.view] /\ b.reversed = a.reversed

SameSelection(b, a) == SameList(b, a) /\ b.cursor = a.cursor /\ b.marked = a.marked

LEMMA SameListShows ==
    ASSUME NEW a, NEW b, SameList(b, a)
    PROVE  VisibleNotes(b) = VisibleNotes(a)
<1>1. Query(b, b.narrow) = Query(a, a.narrow) /\ b.reversed = a.reversed
      /\ b.views[b.view] = a.views[a.view]
  BY DEF SameList, Query
<1> QED BY <1>1 DEF VisibleNotes

LEMMA SameSelects ==
    ASSUME NEW a, NEW b, SameSelection(b, a)
    PROVE  SelectedNoteIds(b) = SelectedNoteIds(a)
<1>1. VisibleNotes(b) = VisibleNotes(a) BY SameListShows DEF SameSelection
<1> QED BY <1>1 DEF SelectedNoteIds, SelectedNote, SameSelection

(* The list is a listing of the notes it shows. *)
LEMMA ListIsListing ==
    ASSUME NEW a
    PROVE  \E n \in Nat : VisibleNotes(a) \in [1 .. n -> Query(a, a.narrow)]
<1> DEFINE ids == Query(a, a.narrow)
           n == Cardinality(ids)
           falls == a.reversed # a.views[a.view].falls
           Before == {p \in ids \X ids : IF falls THEN p[1] > p[2] ELSE p[1] < p[2]}
           Sorted(list) == \A j, k \in 1 .. n :
                j < k => IF falls THEN list[j] > list[k] ELSE list[j] < list[k]
<1>1. ids \subseteq NoteIds BY DEF Query
<1>2. IsFiniteSet(ids) /\ ids \subseteq Nat BY <1>1, TuiAssumption, FS_Subset
<1>3. PICK m \in Nat : ids \subseteq 1 .. m
  <2>1. PICK m \in Nat : \A i \in ids : i <= m BY <1>2, FiniteBounded
  <2>2. \A i \in ids : i \in Nat /\ i # 0 /\ i <= m BY <1>1, <2>1, TuiAssumption
  <2>3. ids \subseteq 1 .. m
    <3> HIDE DEF ids
    <3> QED BY <2>2
  <2> QED BY <2>3
<1>4. Orders(Before, ids) BY <1>2 DEF Orders
<1> HIDE DEF ids
<1>5. n \in Nat /\ \E list \in [1 .. n -> ids] : Lists(list, Before, ids)
  <2> HIDE DEF Before
  <2> QED BY <1>3, <1>4, ListingExists
<1>6. \E list \in [1 .. n -> ids] : Sorted(list) BY <1>2, <1>5 DEF Lists
<1>7. VisibleNotes(a) = CHOOSE list \in [1 .. n -> ids] : Sorted(list)
  BY DEF VisibleNotes, ids
<1> HIDE DEF Sorted
<1>8. VisibleNotes(a) \in [1 .. n -> ids] BY <1>6, <1>7
<1> QED BY <1>5, <1>8 DEF ids

(* A change of what the list does not depend on leaves the selection.       *)
LEMMA SelectionStays ==
    ASSUME ListIInv, NEW a, NEW b, DOMAIN a = AppFields,
           \/ \E v, w : b = [a EXCEPT !.mode = v, !.picked = w]
           \/ \E v : b = [a EXCEPT !.mode = v]
           \/ \E v : b = [a EXCEPT !.picked = v]
           \/ \E v : b = [a EXCEPT !.snapshot = v]
    PROVE  SelectedNoteIds(b) = SelectedNoteIds(a)
<1>1. SameSelection(b, a) BY DEF SameSelection, SameList, AppFields
<1> QED BY <1>1, SameSelects

(* A refresh whose new behaviour lists the same way, or that finds notes    *)
(* marked, leaves the selection.                                            *)
LEMMA RefreshedSelects ==
    ASSUME ListIInv, PickIInv, ~LosesPick(app, Refreshed(app))
    PROVE  SelectedNoteIds(Refreshed(app)) = SelectedNoteIds(app)
<1> DEFINE b == [app EXCEPT !.views = views]
           r == Refreshed(app)
<1>1. DOMAIN app = AppFields /\ r.marked = app.marked
  BY RefreshedAlike DEF ListIInv, AppShaped
<1>2. CASE app.marked # {} BY <1>1, <1>2 DEF SelectedNoteIds
<1>3. CASE app.marked = {}
  <2>1. Listing(r) = Listing(app) BY <1>3 DEF LosesPick
  <2>2. /\ b.view = app.view /\ b.subview = app.subview /\ b.views = views
        /\ DOMAIN b = AppFields
    BY <1>1 DEF AppFields
  <2>3. "all" \in DOMAIN views BY TuiViews DEF PickIInv
  <2>4. CASE app.view \notin DOMAIN views
    <3>1. r = SetView(b, "all") BY <2>4 DEF Refreshed
    <3> HIDE DEF b
    <3>2. r.view = "all" BY <2>2, <3>1 DEF SetView, AppFields
    <3> QED BY <2>1, <2>3, <2>4, <3>2 DEF Listing
  <2>5. CASE app.view \in DOMAIN views /\ ~(app.subview \subseteq views[app.view].subviews)
    <3>1. r = SetSubview(b, {}) BY <2>5 DEF Refreshed
    <3> HIDE DEF b
    <3>2. r.subview = {} BY <2>2, <3>1 DEF SetSubview, AppFields
    <3> QED BY <2>1, <2>5, <3>2 DEF Listing
  <2>6. CASE app.view \in DOMAIN views /\ app.subview \subseteq views[app.view].subviews
    <3>1. r = b BY <2>6 DEF Refreshed
    <3>2. SameSelection(r, app)
      <4>1. r.views[r.view] = app.views[app.view] BY <2>1 DEF Listing
      <4> HIDE DEF r
      <4> QED BY <1>1, <3>1, <4>1 DEF SameSelection, SameList, AppFields
    <3> QED BY <3>2, SameSelects
  <2> QED BY <2>4, <2>5, <2>6
<1> QED BY <1>2, <1>3

(* A refresh keeps the cursor on the note of an open tag picker, or the     *)
(* picker is left.                                                          *)
LEMMA HydrateSelects ==
    ASSUME ListIInv, NEW notes, NEW bin,
           LET b == Hydrate(app, notes, bin)
           IN  app.marked # {} \/ SelectedNoteIds(app) \cap ToSet(VisibleNotes(b)) # {}
    PROVE  SelectedNoteIds(Hydrate(app, notes, bin)) = SelectedNoteIds(app)
<1> DEFINE b == [app EXCEPT !.notes = notes, !.bin = bin]
           h == Hydrate(app, notes, bin)
           list == VisibleNotes(b)
           i == SelectedNote(app)
<1> SUFFICES SelectedNoteIds(h) = SelectedNoteIds(app) OBVIOUS
<1>1. DOMAIN app = AppFields BY DEF ListIInv, AppShaped
<1>2. b.marked = app.marked /\ DOMAIN b = AppFields BY <1>1 DEF AppFields
<1>3. h = [b EXCEPT !.cursor = IF i # 0 /\ Contains(list, i) THEN IndexOf(i, list)
                               ELSE IF list = <<>> THEN 0 ELSE Least(@, Len(list) - 1)]
  BY DEF Hydrate
<1> HIDE DEF b
<1>4. SameList(h, b) /\ h.marked = b.marked
      /\ h.cursor = IF i # 0 /\ Contains(list, i) THEN IndexOf(i, list)
                    ELSE IF list = <<>> THEN 0 ELSE Least(b.cursor, Len(list) - 1)
  BY <1>2, <1>3 DEF SameList, AppFields
<1>5. VisibleNotes(h) = list BY <1>4, SameListShows
<1> HIDE DEF h
<1>6. CASE app.marked # {} BY <1>2, <1>4, <1>6 DEF SelectedNoteIds
<1>7. CASE app.marked = {}
  <2>1. SelectedNoteIds(app) = {i} \ {0} BY <1>7 DEF SelectedNoteIds
  <2>2. i # 0 /\ i \in ToSet(list) BY <1>5, <1>7, <2>1 DEF h
  <2>3. PICK n \in Nat : list \in [1 .. n -> Query(b, b.narrow)] BY ListIsListing
  <2>4. Len(list) = n /\ DOMAIN list = 1 .. n BY <2>3
  <2> HIDE DEF list
  <2>5. PICK k \in 1 .. n : list[k] = i BY <2>2, <2>4 DEF ToSet
  <2>6. Contains(list, i) BY <2>4, <2>5 DEF Contains
  <2>7. IndexOf(i, list) \in 0 .. n - 1 /\ list[IndexOf(i, list) + 1] = i
    <3> DEFINE at == CHOOSE j \in 1 .. Len(list) : list[j] = i
    <3>1. at \in 1 .. n /\ list[at] = i BY <2>4, <2>5
    <3>2. IndexOf(i, list) = at - 1 BY DEF IndexOf
    <3> HIDE DEF at
    <3> QED BY <2>3, <3>1, <3>2
  <2>8. h.cursor = IndexOf(i, list) BY <1>4, <2>2, <2>6
  <2>9. Least(h.cursor, n - 1) = IndexOf(i, list) BY <2>3, <2>7, <2>8 DEF Least
  <2>10. list # <<>> BY <2>4, <2>5
  <2>11. SelectedNote(h) = i BY <1>5, <2>4, <2>7, <2>9, <2>10 DEF SelectedNote
  <2> QED BY <1>2, <1>4, <1>7, <2>1, <2>11 DEF SelectedNoteIds
<1> QED BY <1>6, <1>7

-----------------------------------------------------------------------------
Picks ==
    app.mode = "tags" =>
          /\ run \in {"keys", "refresh", "failed"}
          /\ pickedFor = SelectedNoteIds(app) \/ (pickedFor = {} /\ app.marked = {})

PickKeeps == Picks' /\ (app.mode = "tags" => app'.mode = "tags" \/ app'.notes = app.notes)

LEMMA Priming == SelectedNoteIds(app)' = SelectedNoteIds(app')
BY DEF SelectedNoteIds, SelectedNote, VisibleNotes, Query

LEMMA SameAppPicks ==
    ASSUME PickIInv, UNCHANGED <<app, pickedFor>>, run' = run \/ app.mode # "tags"
    PROVE  PickKeeps
BY Priming DEF PickIInv, Picks, PickKeeps

(* Where the picker is closed before and after, there is nothing to keep.   *)
LEMMA ClosedPicks ==
    ASSUME app.mode # "tags", app'.mode # "tags"
    PROVE  PickKeeps
BY DEF Picks, PickKeeps

LEMMA CommandPicks ==
    ASSUME ListIInv, PickIInv,
           RefreshKey \/ MoveKey \/ OpenKey \/ SearchKey \/ GotoKey \/ ClientKey
           \/ ItemActionKey \/ DeleteKey \/ RestoreKey \/ EditKey \/ EnterKey \/ QuitKey
           \/ AddPluginResult
    PROVE  PickKeeps
<1> DEFINE d == Dispatching
<1>0. AppShaped(app) /\ DOMAIN app = AppFields BY DEF ListIInv, AppShaped
<1>1. ASSUME AtCommand
      PROVE  app.mode # "tags" /\ d.mode # "tags" /\ AppShaped(d) /\ DOMAIN d = AppFields
  <2>1. AppShaped(d) BY DispatchingAlike DEF Alike
  <2> QED BY <1>0, <1>1, <2>1 DEF AtCommand, Dispatching, AppFields, AppShaped
<1>2. \A a : AppShaped(a) => \A x \in Moves(a) : x.mode = a.mode BY MovesAlike
<1>3. \A a : DOMAIN a = AppFields => Mark(a).mode = a.mode BY DEF Mark, AppFields
<1> HIDE DEF d
<1>4. CASE RefreshKey
  <2> DEFINE r == Refreshed(d)
  <2>1. AtCommand /\ app' = [r EXCEPT !.snapshot = Snapshot]
    BY <1>4 DEF RefreshKey, Refreshing, d
  <2>2. AppShaped(r) /\ r.mode = d.mode BY <1>1, <2>1, RefreshedAlike DEF Alike
  <2> HIDE DEF r
  <2>3. app'.mode = d.mode BY <2>1, <2>2 DEF AppShaped, AppFields
  <2> QED BY <1>1, <2>1, <2>3, ClosedPicks
<1>5. CASE MoveKey
  <2>1. AtCommand /\ app'.mode = d.mode BY <1>1, <1>2, <1>3, <1>5 DEF MoveKey, Moves, d
  <2> QED BY <1>1, <2>1, ClosedPicks
<1>6. CASE OpenKey
  <2>1. AtCommand /\ app'.mode # "tags" BY <1>0, <1>6 DEF OpenKey, AppFields
  <2> QED BY <1>1, <2>1, ClosedPicks
<1>7. CASE SearchKey
  <2>1. app.mode = "search" /\ app'.mode # "tags" BY <1>0, <1>7 DEF SearchKey, AppFields
  <2> QED BY <2>1, ClosedPicks
<1>8. CASE GotoKey
  <2>1. app.mode = "goto" /\ app' \in GotoMoves([app EXCEPT !.mode = "normal"])
    BY <1>8 DEF GotoKey
  <2> DEFINE b == [app EXCEPT !.mode = "normal"]
  <2>2. AppShaped(b) /\ b.mode = "normal" BY <1>0 DEF AppShaped, AppFields
  <2>3. app'.mode = "normal" BY <1>2, <2>1, <2>2 DEF Moves
  <2> QED BY <2>1, <2>3, ClosedPicks
<1>9. CASE ClientKey
  <2>1. app.mode = "clients" /\ app'.mode # "tags" BY <1>0, <1>9 DEF ClientKey, AppFields
  <2> QED BY <2>1, ClosedPicks
<1>10. CASE ItemActionKey
  <2>1. AtCommand /\ app'.mode = d.mode BY <1>1, <1>10 DEF ItemActionKey, d, AppFields
  <2> QED BY <1>1, <2>1, ClosedPicks
<1>11. CASE DeleteKey
  <2>1. AtCommand BY <1>11 DEF DeleteKey
  <2>2. app' = app \/ \E n, c, e : app' = [d EXCEPT !.notes[n] = Never, !.bin = c, !.cursor = e]
    BY <1>11 DEF DeleteKey, Ends, d
  <2>3. app'.mode = app.mode \/ app'.mode = d.mode BY <1>1, <2>1, <2>2 DEF AppFields
  <2> QED BY <1>1, <2>1, <2>3, ClosedPicks
<1>12. CASE RestoreKey
  <2>1. AtCommand BY <1>12 DEF RestoreKey
  <2>2. \E n, c, note : app' = [d EXCEPT !.notes[n] = note, !.bin = c]
    BY <1>12 DEF RestoreKey, d
  <2>3. app'.mode = d.mode BY <1>1, <2>1, <2>2 DEF AppFields
  <2> QED BY <1>1, <2>1, <2>3, ClosedPicks
<1>13. CASE EditKey
  <2>1. AtCommand /\ app' = d BY <1>13 DEF EditKey, d
  <2> QED BY <1>1, <2>1, ClosedPicks
<1>14. CASE EnterKey
  <2>1. app.mode # "tags" /\ app'.mode = "normal" BY <1>0, <1>14 DEF EnterKey, AppFields
  <2> QED BY <2>1, ClosedPicks
<1>15. CASE QuitKey
  <2>1. AtCommand /\ app' = app BY <1>15 DEF QuitKey, Ends
  <2> QED BY <1>1, <2>1, ClosedPicks
<1>16. CASE AddPluginResult
  <2>1. app.mode = "results" BY <1>16 DEF AddPluginResult
  <2>2. app' = app \/ \E i, note : app' = [ShowNew(app, i, note) EXCEPT !.mode = "normal"]
    BY <1>16 DEF AddPluginResult, Ends
  <2>3. \A i, note : DOMAIN ShowNew(app, i, note) = AppFields
    BY <1>0, ShowNewShaped DEF AppShaped
  <2>4. app'.mode # "tags" BY <2>1, <2>2, <2>3 DEF AppFields
  <2> QED BY <2>1, <2>4, ClosedPicks
<1> QED BY <1>4, <1>5, <1>6, <1>7, <1>8, <1>9, <1>10, <1>11, <1>12, <1>13, <1>14, <1>15, <1>16

(* What the loop waits for was not started from the picker. *)
LEMMA EndingPicks ==
    ASSUME ListIInv, PickIInv,
           \/ EditorCloses \/ CreateEnds \/ CapturePromptEnds
           \/ \E done \in SUBSET NoteIds, tags \in SUBSET Tags : PluginEnds(done, tags)
    PROVE  PickKeeps
<1>0. AppShaped(app) /\ DOMAIN app = AppFields BY DEF ListIInv, AppShaped
<1>1. app.mode # "tags"
  BY DEF PickIInv, EditorCloses, CreateEnds, CapturePromptEnds, PluginEnds
<1>2. \A i, note : DOMAIN ShowNew(app, i, note) = AppFields
  BY <1>0, ShowNewShaped DEF AppShaped
<1>3. CASE EditorCloses
  <2>1. app' = app \/ \E n, note : app' = [app EXCEPT !.notes[n] = note]
    BY <1>3 DEF EditorCloses, Ends
  <2>2. app'.mode = app.mode BY <1>0, <2>1 DEF AppFields
  <2> QED BY <1>1, <2>2, ClosedPicks
<1>4. CASE CreateEnds \/ CapturePromptEnds
  <2>1. app' = app \/ \E i, note : app' = [ShowNew(app, i, note) EXCEPT !.mode = "normal"]
    BY <1>4 DEF CreateEnds, CapturePromptEnds, Ends, Comes
  <2>2. app'.mode # "tags" BY <1>1, <1>2, <2>1 DEF AppFields
  <2> QED BY <1>1, <2>2, ClosedPicks
<1>5. ASSUME NEW done \in SUBSET NoteIds, NEW tags \in SUBSET Tags, PluginEnds(done, tags)
      PROVE  PickKeeps
  <2> DEFINE Put(notes) == [i \in NoteIds |-> IF i \in done THEN Fresh(tags) ELSE notes[i]]
             new == {i \in done : stored[i].v = 0}
             updated == [app EXCEPT !.notes = Put(app.notes)]
             base == IF new = {} THEN updated
                     ELSE AddNote(updated, CHOOSE i \in new : TRUE, Fresh(tags))
  <2>1. AppShaped(updated)
    <3>1. OnIds(Put(app.notes)) BY DEF OnIds
    <3>2. ASSUME NEW notes, OnIds(notes), NEW u, u = [app EXCEPT !.notes = notes]
          PROVE  AppShaped(u)
      BY <1>0, <3>2 DEF AppShaped, AppFields
    <3> HIDE DEF Put
    <3> QED BY <3>1, <3>2
  <2>2. PICK m \in {"normal", "results"} : app' = [base EXCEPT !.mode = m]
    BY <1>5, Zenon DEF PluginEnds
  <2> HIDE DEF updated
  <2>3. DOMAIN base = AppFields BY <2>1, AddNoteShaped DEF AppShaped
  <2> HIDE DEF base
  <2>4. app'.mode # "tags" BY <2>2, <2>3 DEF AppFields
  <2> QED BY <1>1, <2>4, ClosedPicks
<1> QED BY <1>3, <1>4, <1>5

(* A refresh that takes the behaviour loses the picked note or keeps it. *)
LEMMA TakingPicks ==
    ASSUME ListIInv, PickIInv, NEW r, r = Refreshed(app), SameSelection(app', r),
           app'.mode = r.mode,
           app.mode = "tags" => run' \in {"keys", "refresh", "failed"},
           pickedFor' = IF LosesPick(app, Refreshed(app)) THEN {} ELSE pickedFor
    PROVE  PickKeeps
<1>1. r.marked = app.marked /\ r.notes = app.notes /\ r.mode = app.mode
  BY RefreshedAlike DEF Alike, ListIInv
<1>2. app'.notes = app.notes /\ app'.marked = app.marked
  BY <1>1 DEF SameSelection, SameList
<1>3. SelectedNoteIds(app)' = SelectedNoteIds(r) BY SameSelects, Priming
<1>4. CASE LosesPick(app, Refreshed(app))
  BY <1>1, <1>2, <1>4 DEF LosesPick, PickIInv, Picks, PickKeeps
<1>5. CASE ~LosesPick(app, Refreshed(app))
  <2>1. SelectedNoteIds(r) = SelectedNoteIds(app) BY <1>5, RefreshedSelects
  <2> QED BY <1>1, <1>2, <1>3, <1>5, <2>1 DEF PickIInv, Picks, PickKeeps
<1> QED BY <1>4, <1>5

LEMMA RefreshPicks ==
    ASSUME ListIInv, PickIInv, TakeEvent \/ EndRefresh \/ RefreshFails
    PROVE  PickKeeps
<1>0. AppShaped(app) /\ DOMAIN app = AppFields BY DEF ListIInv, AppShaped
<1>1. CASE TakeEvent
  <2> DEFINE r == Refreshed(app)
  <2>1. AppShaped(r) BY <1>0, RefreshedAlike DEF Alike
  <2>2. CASE UNCHANGED <<app, run, pickedFor>> BY <2>2, SameAppPicks
  <2>3. CASE /\ app' = [r EXCEPT !.snapshot = Snapshot] \/ app' = r
             /\ run' \in {run, "refresh"}
             /\ pickedFor' = IF LosesPick(app, r) THEN {} ELSE pickedFor
    <3> HIDE DEF r
    <3>1. SameSelection(app', r) /\ app'.mode = r.mode
      BY <2>1, <2>3 DEF SameSelection, SameList, AppShaped, AppFields
    <3>2. app.mode = "tags" => run' \in {"keys", "refresh", "failed"}
      BY <2>3 DEF PickIInv
    <3> QED BY <2>3, <3>1, <3>2, TakingPicks DEF r
  <2> QED BY <1>1, <2>2, <2>3 DEF TakeEvent, Refreshing
<1>2. CASE EndRefresh
  <2> DEFINE h == Hydrate(app, app.snapshot, DeletedNotes)
  <2>1. app' = [h EXCEPT !.snapshot = <<>>] /\ run' = "keys"
        /\ pickedFor' = IF NonePicked(app') THEN {} ELSE pickedFor
    BY <1>2 DEF EndRefresh
  <2>2. DOMAIN h = AppFields /\ h.mode = app.mode /\ h.marked = app.marked
    BY <1>0 DEF Hydrate, AppFields
  <2>3. SameSelection(app', h) /\ app'.mode = app.mode /\ app'.marked = app.marked
    <3> HIDE DEF h
    <3> QED BY <2>1, <2>2 DEF SameSelection, SameList, AppFields
  <2>4. SelectedNoteIds(app') = SelectedNoteIds(h) /\ VisibleNotes(app') = VisibleNotes(h)
    BY <2>3, SameSelects, SameListShows DEF SameSelection
  <2>5. ASSUME app.mode = "tags"
        PROVE  pickedFor' = SelectedNoteIds(app') \/ (pickedFor' = {} /\ app'.marked = {})
    <3>1. CASE NonePicked(app') BY <2>1, <3>1 DEF NonePicked
    <3>2. CASE pickedFor = {} /\ app.marked = {} BY <2>1, <2>3, <3>2
    <3>3. CASE ~NonePicked(app') /\ pickedFor = SelectedNoteIds(app)
      <4>1. app.marked # {} \/ pickedFor \cap ToSet(VisibleNotes(h)) # {}
        BY <2>3, <2>4, <3>3 DEF NonePicked
      <4>2. SelectedNoteIds(h) = SelectedNoteIds(app) BY <3>3, <4>1, HydrateSelects
      <4> QED BY <2>1, <2>4, <3>3, <4>2
    <3> QED BY <2>5, <3>1, <3>2, <3>3 DEF PickIInv
  <2> QED BY <2>1, <2>3, <2>5, Priming DEF Picks, PickKeeps
<1>3. CASE RefreshFails
  <2>1. app'.mode = app.mode /\ app'.marked = app.marked /\ run' \in {"keys", "failed"}
        /\ pickedFor' = IF app.marked = {} THEN {} ELSE pickedFor
    BY <1>0, <1>3 DEF RefreshFails, AppFields
  <2>2. app.marked # {} => SelectedNoteIds(app') = SelectedNoteIds(app)
    BY <2>1 DEF SelectedNoteIds
  <2> QED BY <2>1, <2>2, Priming DEF PickIInv, Picks, PickKeeps
<1> QED BY <1>1, <1>2, <1>3

LEMMA PickerPicks ==
    ASSUME ListIInv, PickIInv, OpenTagPicker \/ (\E t \in Tags : ToggleTag(t)) \/ CancelKey
    PROVE  PickKeeps
<1>0. AppShaped(app) /\ DOMAIN app = AppFields BY DEF ListIInv, AppShaped
<1>1. CASE OpenTagPicker
  <2>1. app.mode # "tags" /\ run = "keys" /\ run' = run
    BY <1>1 DEF OpenTagPicker, AtCommand, AtKeys
  <2>2. CASE app' = Dispatching
    <3>1. app'.mode # "tags" BY <1>0, <1>1, <2>2 DEF OpenTagPicker, AtCommand, Dispatching, AppFields
    <3> QED BY <2>1, <3>1, ClosedPicks
  <2>3. CASE pickedFor' = SelectedNoteIds(app)
             /\ \E p : app' = [app EXCEPT !.mode = "tags", !.picked = p]
    <3>1. SelectedNoteIds(app') = SelectedNoteIds(app) BY <1>0, <2>3, SelectionStays
    <3> QED BY <2>1, <2>3, <3>1, Priming DEF Picks, PickKeeps
  <2> QED BY <1>1, <2>2, <2>3 DEF OpenTagPicker
<1>2. CASE \E t \in Tags : ToggleTag(t)
  <2>1. run = "keys" /\ run' = run /\ UNCHANGED pickedFor
        /\ \E p : app' = [app EXCEPT !.picked = p]
    BY <1>2 DEF ToggleTag, AtKeys
  <2>2. app'.mode = app.mode /\ app'.notes = app.notes /\ app'.marked = app.marked
    BY <1>0, <2>1 DEF AppFields
  <2>3. SelectedNoteIds(app') = SelectedNoteIds(app) BY <1>0, <2>1, SelectionStays
  <2> QED BY <2>1, <2>2, <2>3, Priming DEF PickIInv, Picks, PickKeeps
<1>3. CASE CancelKey
  <2>1. app'.mode = "normal" /\ app'.notes = app.notes BY <1>0, <1>3 DEF CancelKey, AppFields
  <2> QED BY <2>1 DEF Picks, PickKeeps
<1> QED BY <1>1, <1>2, <1>3

(* The configuration is always one of those there may be. *)
LEMMA ViewsStay == ASSUME PickIInv, [TuiNext]_tuiVars PROVE (views \in Configurations)'
<1>1. CASE \E config \in Configurations : ConfigArrives(config)
  BY <1>1 DEF ConfigArrives
<1>2. CASE UNCHANGED views BY <1>2 DEF PickIInv
<1> QED BY <1>1, <1>2 DEF TuiNext, tuiVars, MergeArrives, PresenceArrives, TakeEvent, RefreshKey,
        EndRefresh, RefreshFails, MoveKey, OpenKey, CancelKey, SearchKey, GotoKey, ClientKey,
        ItemActionKey, DeleteKey, RestoreKey, EditKey, EditorCloses, EnterKey, CreateEnds,
        CapturePromptEnds, AddPluginResult, PluginEnds, OpenTagPicker, ToggleTag, ApplyTags, QuitKey

(* Only applying the picker closes it with other notes. *)
LEMMA PickNext ==
    ListIInv /\ PickIInv /\ [TuiNext]_tuiVars => PickIInv' /\ (PickKeeps \/ ApplyTags)
<1> SUFFICES ASSUME ListIInv, PickIInv, [TuiNext]_tuiVars
             PROVE  PickIInv' /\ (PickKeeps \/ ApplyTags)
  OBVIOUS
<1>1. PickKeeps => PickIInv' BY ViewsStay DEF PickKeeps, Picks, PickIInv
<1>2. CASE UNCHANGED tuiVars BY <1>1, <1>2, SameAppPicks DEF tuiVars
<1>3. CASE \/ \E i \in NoteIds, tags \in SUBSET Tags, live \in BOOLEAN : MergeArrives(i, tags, live)
           \/ \E config \in Configurations : ConfigArrives(config)
           \/ PresenceArrives
  BY <1>1, <1>3, SameAppPicks DEF MergeArrives, ConfigArrives, PresenceArrives
<1>4. CASE ApplyTags
  <2>1. DOMAIN app = AppFields BY DEF ListIInv, AppShaped
  <2>2. \E notes : app' = [app EXCEPT !.notes = notes, !.marked = {}, !.mode = "normal",
                                      !.picked = {}]
    BY <1>4, Zenon DEF ApplyTags
  <2>3. app'.mode = "normal" BY <2>1, <2>2 DEF AppFields
  <2> QED BY <1>4, <2>3, ViewsStay DEF PickIInv
<1> QED BY <1>1, <1>2, <1>3, <1>4, CommandPicks, EndingPicks, RefreshPicks, PickerPicks
        DEF TuiNext

LEMMA ApplyReaches ==
    ASSUME ListIInv, PickIInv, ApplyTags, NEW i \in NoteIds, app.notes[i] # app'.notes[i]
    PROVE  i \in pickedFor \/ (pickedFor = {} /\ app.marked = {})
<1> DEFINE ids == {j \in SelectedNoteIds(app) : app.notes[j].live}
           notes == [j \in NoteIds |-> IF j \in ids THEN Fresh(app.picked) ELSE app.notes[j]]
<1>1. app' = [app EXCEPT !.notes = notes, !.marked = {}, !.mode = "normal", !.picked = {}]
  BY Zenon DEF ApplyTags
<1>2. i \notin ids => notes[i] = app.notes[i] OBVIOUS
<1> HIDE DEF notes
<1>3. app'.notes = notes BY <1>1 DEF ListIInv, AppShaped, AppFields
<1>4. i \in ids BY <1>2, <1>3
<1> QED BY <1>4 DEF PickIInv, ApplyTags

(* The picked tags reach the notes the picker was opened for, whatever was  *)
(* merged meanwhile.  Marked notes are always reached.  The note under the  *)
(* cursor is lost only to a refresh that finds the view or the subview gone *)
(* or defined otherwise, that leaves the note out, or that fails half way   *)
(* (main.rs:344-398, app.rs:187-272).                                       *)
THEOREM PickedTagsReach == TuiSpec => TagsReachPicked
<1> DEFINE Reach == \A i \in NoteIds :
                app.mode = "tags" /\ app'.mode = "normal" /\ app.notes[i] # app'.notes[i]
                    => i \in pickedFor \/ (pickedFor = {} /\ app.marked = {})
<1>1. ListIInv /\ PickIInv /\ [TuiNext]_tuiVars => [Reach]_tuiVars
  BY PickNext, ApplyReaches DEF PickKeeps
<1>2. TuiInit => PickIInv BY DEF TuiInit, PickIInv
<1>3. ListIInv /\ PickIInv /\ [TuiNext]_tuiVars => PickIInv' BY PickNext
<1> QED BY <1>1, <1>2, <1>3, ListInit, ListNext, PTL DEF TuiSpec, TagsReachPicked

-----------------------------------------------------------------------------
(***************************************************************************)
(* BrowserUi: the page selects and edits one note at most. What a request  *)
(* names is one note or none, and an answer with more of them is none of a *)
(* save.                                                                   *)
(***************************************************************************)

Few(S) == S = {} \/ \E i \in UiNotes : S = {i}
NotSave(n) == \A c \in calls : c.id = n => c.method # "save"

FewPage(p) == Few(p.selected) /\ Few(p.editingId) /\ p.saving \subseteq 1 .. lastCall
FewRequests ==
    {q \in CallsMade(lastCall) : IF q.method = "query" THEN NotSave(q.id) ELSE Few(q.arg)}
FewJobs == {q \in Queued(lastCall) : Few(q.arg)}
FewAnswers == {a \in AnswerShapes : a.id <= lastCall /\ (Few(a.notes) \/ NotSave(a.id))}

UiFew ==
    /\ FewPage(ui) /\ toWorker \in Seq(FewRequests)
    /\ jobs \in Seq(FewJobs) /\ answers \in Seq(FewAnswers)

(* Later calls have later numbers.                                         *)
LEMMA FewStays ==
    ASSUME UiIInv, UiFew, lastCall' \in Nat, lastCall <= lastCall',
           \A c \in calls' : c \in calls \/ c.id = lastCall + 1
    PROVE  /\ toWorker \in Seq(FewRequests') /\ jobs \in Seq(FewJobs')
           /\ answers \in Seq(FewAnswers') /\ 1 .. lastCall \subseteq 1 .. lastCall'
<1>0. lastCall \in Nat
  BY DEF UiIInv
<1>1. ASSUME NEW n \in Nat, n <= lastCall, NotSave(n) PROVE NotSave(n)'
  BY <1>0, <1>1 DEF NotSave
<1>2. CallsMade(lastCall) \subseteq CallsMade(lastCall') /\ Queued(lastCall) \subseteq Queued(lastCall')
  BY <1>0 DEF CallsMade, Queued, Queries, Others
<1>3. FewRequests \subseteq FewRequests'
  <2> SUFFICES ASSUME NEW q \in FewRequests PROVE q \in FewRequests'
    OBVIOUS
  <2>1. q.id \in Nat /\ q.id <= lastCall /\ q \in CallsMade(lastCall')
    BY <1>2 DEF FewRequests, CallsMade, Queries, Others
  <2> QED BY <1>1, <2>1 DEF FewRequests, Few
<1>4. FewJobs \subseteq FewJobs'
  BY <1>2 DEF FewJobs, Few
<1>5. FewAnswers \subseteq FewAnswers'
  <2> SUFFICES ASSUME NEW a \in FewAnswers PROVE a \in FewAnswers'
    OBVIOUS
  <2>1. a \in AnswerShapes /\ a.id \in Nat /\ a.id <= lastCall /\ a.id <= lastCall'
    BY <1>0 DEF FewAnswers, AnswerShapes
  <2> QED BY <1>1, <2>1 DEF FewAnswers, Few
<1> QED BY <1>0, <1>3, <1>4, <1>5, LongerSeq DEF UiFew

(* One more call. *)
LEMMA FewPosted ==
    ASSUME UiIInv, UiFew, NEW q \in Queries \cup Others, q.id = lastCall + 1,
           q.method = "query" \/ Few(q.arg),
           calls' \subseteq calls \cup {q}, toWorker' = Append(toWorker, q),
           lastCall' = lastCall + 1, jobs' = jobs,
           answers' = answers \/ (answers # <<>> /\ answers' = Tail(answers)), FewPage(ui)'
    PROVE  UiFew'
<1>0. lastCall \in Nat /\ lastCall' \in Nat
  BY DEF UiIInv
<1>1. /\ toWorker \in Seq(FewRequests') /\ jobs \in Seq(FewJobs')
      /\ answers \in Seq(FewAnswers')
  BY <1>0, FewStays
<1>2. q \in CallsMade(lastCall')
  BY <1>0 DEF CallsMade
<1>3. \A c \in calls : c.id # lastCall + 1
  BY <1>0 DEF UiIInv, CallsMade, Queries, Others
<1>4. q \in FewRequests'
  BY <1>2, <1>3 DEF FewRequests, NotSave, Few
<1>5. toWorker' \in Seq(FewRequests') /\ jobs' \in Seq(FewJobs')
  BY <1>1, <1>4
<1>6. answers' \in Seq(FewAnswers')
  <2>1. answers \in Seq(FewAnswers')
    BY <1>1
  <2> QED BY <2>1
<1> QED BY <1>5, <1>6 DEF UiFew

(* A page that asks for nothing. *)
LEMMA FewChanges ==
    ASSUME UiIInv, UiFew, calls' \subseteq calls, UNCHANGED <<lastCall, toWorker, jobs>>,
           answers' = answers \/ (answers # <<>> /\ answers' = Tail(answers)), FewPage(ui)'
    PROVE  UiFew'
<1>1. /\ toWorker \in Seq(FewRequests') /\ jobs \in Seq(FewJobs')
      /\ answers \in Seq(FewAnswers')
  BY FewStays DEF UiIInv
<1>2. toWorker' \in Seq(FewRequests') /\ jobs' \in Seq(FewJobs')
  BY <1>1
<1>3. answers' \in Seq(FewAnswers')
  <2>1. answers \in Seq(FewAnswers')
    BY <1>1
  <2> QED BY <2>1
<1> QED BY <1>2, <1>3 DEF UiFew

LEMMA FewShown ==
    ASSUME UiIInv, UiFew, NEW page \in Pages, page.saving = ui.saving, Few(page.selected),
           Few(page.editingId), Shows(page), UNCHANGED <<jobs, answers>>
    PROVE  UiFew'
<1> DEFINE q == NewCall(lastCall + 1, "query", page.view)
<1>1. CASE ui' = Querying(page) /\ Post(<<q>>)
  <2>1. q \in Queries /\ q.id = lastCall + 1 /\ q.method = "query"
    BY DEF UiIInv, NewCall, Queries, Pages
  <2> HIDE DEF q
  <2>2. calls' = calls \cup {q} /\ toWorker' = Append(toWorker, q) /\ lastCall' = lastCall + 1
    BY <1>1, PostOne
  <2>3. /\ ui'.selected = page.selected /\ ui'.editingId = page.editingId
        /\ ui'.saving = page.saving
    BY <1>1 DEF Querying, Pages
  <2>4. FewPage(ui)'
    BY <2>2, <2>3 DEF FewPage, UiFew, UiIInv, Few
  <2> QED BY <2>1, <2>2, <2>4, FewPosted
<1>2. CASE ui' = page /\ UNCHANGED <<lastCall, toWorker, calls>>
  <2>1. FewPage(ui)'
    BY <1>2 DEF FewPage, UiFew, Few
  <2> QED BY <1>2, <2>1, FewChanges
<1> QED BY <1>1, <1>2 DEF Shows

LEMMA FewAsked ==
    ASSUME UiIInv, UiFew, NEW q \in Others, q.id = lastCall + 1, Few(q.arg),
           Post(<<q>>), UNCHANGED <<jobs, answers>>, ui'.selected = ui.selected,
           ui'.editingId = ui.editingId, ui'.saving \subseteq ui.saving \cup {lastCall + 1}
    PROVE  UiFew'
<1>1. calls' = calls \cup {q} /\ toWorker' = Append(toWorker, q) /\ lastCall' = lastCall + 1
  BY PostOne
<1>2. ui'.saving \subseteq 1 .. lastCall'
  <2>1. lastCall \in Nat /\ lastCall' = lastCall + 1 /\ ui.saving \subseteq 1 .. lastCall
    BY <1>1 DEF FewPage, UiFew, UiIInv
  <2> QED BY <2>1
<1>3. FewPage(ui)'
  BY <1>2 DEF FewPage, UiFew, Few
<1> QED BY <1>1, <1>3, FewPosted

LEMMA FewByPerson ==
    ASSUME UiIInv, UiFew,
           \/ \E view \in Views : ChooseView(view)
           \/ \E i \in UiNotes : SelectNote(i)
           \/ StartEditing \/ CancelEditing \/ SaveDraft \/ RemoveNote \/ RefreshTick
    PROVE  UiFew'
<1>0. ui \in Pages /\ lastCall \in Nat /\ Few(ui.selected) /\ Few(ui.editingId)
  BY DEF UiIInv, UiFew, FewPage
<1>1. ASSUME NEW view \in Views, ChooseView(view) PROVE UiFew'
  <2>1. PICK page : page = [ui EXCEPT !.view = view, !.pane = "items"]
    OBVIOUS
  <2>2. /\ page \in Pages /\ page.saving = ui.saving /\ page.selected = ui.selected
        /\ page.editingId = ui.editingId
    BY <1>0, <2>1 DEF Pages
  <2> QED BY <1>0, <1>1, <2>1, <2>2, FewShown DEF ChooseView, Acts
<1>2. ASSUME NEW i \in UiNotes, SelectNote(i) PROVE UiFew'
  <2>1. PICK page : page = [ui EXCEPT !.selected = {i}, !.pane = "detail"]
    OBVIOUS
  <2>2. /\ page \in Pages /\ page.saving = ui.saving /\ page.selected = {i}
        /\ page.editingId = ui.editingId
    BY <1>0, <2>1 DEF Pages
  <2>3. Few({i})
    BY DEF Few
  <2> QED BY <1>0, <1>2, <2>1, <2>2, <2>3, FewShown DEF SelectNote, Acts
<1>3. CASE StartEditing
  <2>1. PICK ids \in {{}, ui.selected} : Shows([ui EXCEPT !.editing = TRUE, !.editingId = ids])
    BY <1>3 DEF StartEditing
  <2>2. PICK page : page = [ui EXCEPT !.editing = TRUE, !.editingId = ids]
    OBVIOUS
  <2>3. ids \in SUBSET UiNotes /\ Few(ids)
    BY <1>0 DEF Few, Pages
  <2>4. /\ page \in Pages /\ page.saving = ui.saving /\ page.selected = ui.selected
        /\ page.editingId = ids
    BY <1>0, <2>2, <2>3 DEF Pages
  <2> QED BY <1>0, <1>3, <2>1, <2>2, <2>3, <2>4, FewShown DEF StartEditing, Acts
<1>4. CASE CancelEditing
  <2>1. PICK page : page = [ui EXCEPT !.editing = FALSE]
    OBVIOUS
  <2>2. /\ page \in Pages /\ page.saving = ui.saving /\ page.selected = ui.selected
        /\ page.editingId = ui.editingId
    BY <1>0, <2>1 DEF Pages
  <2> QED BY <1>0, <1>4, <2>1, <2>2, FewShown DEF CancelEditing, Acts
<1>5. CASE SaveDraft
  <2>1. /\ ui' = [ui EXCEPT !.editing = FALSE, !.pane = "items", !.saving = @ \cup {lastCall + 1}]
        /\ Post(<<NewCall(lastCall + 1, "save", ui.editingId)>>)
        /\ UNCHANGED <<jobs, answers>>
    BY <1>5 DEF SaveDraft, Acts
  <2>2. /\ ui'.selected = ui.selected /\ ui'.editingId = ui.editingId
        /\ ui'.saving = ui.saving \cup {lastCall + 1}
    BY <1>0, <2>1 DEF Pages
  <2>3. /\ NewCall(lastCall + 1, "save", ui.editingId) \in Others
        /\ NewCall(lastCall + 1, "save", ui.editingId).id = lastCall + 1
        /\ NewCall(lastCall + 1, "save", ui.editingId).arg = ui.editingId
    BY <1>0 DEF NewCall, Others, Pages
  <2> QED BY <1>0, <2>1, <2>2, <2>3, FewAsked
<1>6. CASE RemoveNote
  <2>1. /\ ui' = ui /\ Post(<<NewCall(lastCall + 1, "delete", ui.selected)>>)
        /\ UNCHANGED <<jobs, answers>>
    BY <1>6 DEF RemoveNote, Acts
  <2>2. /\ NewCall(lastCall + 1, "delete", ui.selected) \in Others
        /\ NewCall(lastCall + 1, "delete", ui.selected).id = lastCall + 1
        /\ NewCall(lastCall + 1, "delete", ui.selected).arg = ui.selected
    BY <1>0 DEF NewCall, Others, Pages
  <2> QED BY <1>0, <2>1, <2>2, FewAsked
<1>7. CASE RefreshTick
  <2>1. /\ ui' = ui /\ Post(<<NewCall(lastCall + 1, "refresh", {})>>)
        /\ UNCHANGED <<jobs, answers>>
    BY <1>7 DEF RefreshTick
  <2>2. /\ NewCall(lastCall + 1, "refresh", {}) \in Others
        /\ NewCall(lastCall + 1, "refresh", {}).id = lastCall + 1
        /\ Few(NewCall(lastCall + 1, "refresh", {}).arg)
    BY <1>0 DEF NewCall, Others, Few
  <2> QED BY <2>1, <2>2, FewAsked
<1> QED BY <1>1, <1>2, <1>3, <1>4, <1>5, <1>6, <1>7

LEMMA FewByWorker ==
    ASSUME UiIInv, UiFew,
           \/ WorkerTakes \/ JobStarts \/ JobEnds \/ JobRefused
           \/ \E i \in UiNotes, view \in Views \cup {NoView} : Merged(i, view)
    PROVE  UiFew'
<1>0. /\ toWorker \in Seq(FewRequests) /\ jobs \in Seq(FewJobs) /\ answers \in Seq(FewAnswers)
      /\ lastCall \in Nat /\ replica.v \in Nat
  BY DEF UiFew, UiIInv
<1>1. /\ FewRequests' = FewRequests /\ FewJobs' = FewJobs /\ FewAnswers' = FewAnswers
      /\ (FewPage(ui)' <=> FewPage(ui)) /\ UNCHANGED <<ui, calls, lastCall>>
  BY DEF FewRequests, FewJobs, FewAnswers, FewPage, NotSave, WorkerTakes, JobStarts,
         JobEnds, JobRefused, Merged
<1>2. ASSUME toWorker' \in Seq(FewRequests), jobs' \in Seq(FewJobs), answers' \in Seq(FewAnswers)
      PROVE  UiFew'
  BY <1>1, <1>2 DEF UiFew
<1>3. ASSUME NEW id \in Nat \ {0}, id <= lastCall, NEW ok \in BOOLEAN, NEW report \in Nat,
             NEW noted \in SUBSET UiNotes, Few(noted) \/ NotSave(id)
      PROVE  Answer(id, ok, report, noted) \in Seq(FewAnswers)
  <2> DEFINE a == [id |-> id, ok |-> ok, report |-> report, notes |-> noted]
  <2>1. a \in FewAnswers
    BY <1>3 DEF FewAnswers, AnswerShapes
  <2> QED BY <1>0, <2>1 DEF Answer
<1>4. CASE WorkerTakes
  <2>1. toWorker # <<>> /\ toWorker' = Tail(toWorker)
    BY <1>4 DEF WorkerTakes
  <2>2. PICK q \in FewRequests : q = Head(toWorker)
    BY <1>0, <2>1
  <2>3. toWorker' \in Seq(FewRequests)
    BY <1>0, <2>1
  <2>4. CASE q.method = "query"
    <3>1. answers' = Answer(q.id, TRUE, replica.v, NotesIn(q.arg)) /\ jobs' = jobs
      BY <1>4, <2>2, <2>4 DEF WorkerTakes
    <3>2. /\ q.id \in Nat \ {0} /\ q.id <= lastCall /\ NotesIn(q.arg) \in SUBSET UiNotes
          /\ NotSave(q.id)
      BY <2>4 DEF FewRequests, CallsMade, Queries, Others, NotesIn
    <3>3. answers' \in Seq(FewAnswers)
      BY <1>0, <1>3, <3>1, <3>2
    <3> QED BY <1>0, <1>2, <2>3, <3>1, <3>3
  <2>5. CASE q.method # "query"
    <3>1. jobs' = Append(jobs, q) /\ answers' = answers
      BY <1>4, <2>2, <2>5 DEF WorkerTakes
    <3>2. q \in FewJobs
      BY <2>5 DEF FewRequests, FewJobs, CallsMade, Queued, Queries
    <3>3. jobs' \in Seq(FewJobs)
      BY <1>0, <3>1, <3>2
    <3> QED BY <1>0, <1>2, <2>3, <3>1, <3>3
  <2> QED BY <2>4, <2>5
<1>5. CASE JobStarts
  <2>1. PICK i \in IF Head(jobs).arg = {} THEN {j \in UiNotes : replica.notes[j] = NoView}
                   ELSE Head(jobs).arg :
            jobs' = [jobs EXCEPT ![1] = [@ EXCEPT !.method = "stored", !.arg = {i}]]
    BY <1>5 DEF JobStarts
  <2>2. jobs # <<>> /\ UNCHANGED <<toWorker, answers>>
    BY <1>5 DEF JobStarts
  <2>3. jobs[1] \in FewJobs /\ Head(jobs) = jobs[1] /\ 1 \in DOMAIN jobs
    BY <1>0, <2>2
  <2>4. i \in UiNotes
    BY <2>1, <2>3 DEF FewJobs, Queued, Others
  <2>5. [jobs[1] EXCEPT !.method = "stored", !.arg = {i}] \in FewJobs
    BY <2>3, <2>4 DEF FewJobs, Queued, Others, Few
  <2>6. jobs' \in Seq(FewJobs)
    BY <1>0, <2>1, <2>3, <2>5
  <2> QED BY <1>0, <1>2, <2>2, <2>6
<1>6. CASE JobEnds \/ JobRefused
  <2>1. /\ jobs # <<>> /\ jobs' = Tail(jobs) /\ toWorker' = toWorker
        /\ \/ answers' = Answer(Head(jobs).id, TRUE, replica.v, Head(jobs).arg)
           \/ answers' = Answer(Head(jobs).id, FALSE, 0, {})
    BY <1>6 DEF JobEnds, JobRefused
  <2>2. PICK q \in FewJobs : q = Head(jobs)
    BY <1>0, <2>1
  <2>3. /\ q.id \in Nat \ {0} /\ q.id <= lastCall /\ q.arg \in SUBSET UiNotes /\ Few(q.arg)
        /\ {} \in SUBSET UiNotes /\ Few({})
    BY DEF FewJobs, Queued, Others, Few
  <2>4. answers' \in Seq(FewAnswers)
    BY <1>0, <1>3, <2>1, <2>2, <2>3
  <2>5. jobs' \in Seq(FewJobs)
    BY <1>0, <2>1
  <2> QED BY <1>0, <1>2, <2>1, <2>4, <2>5
<1>7. ASSUME NEW i \in UiNotes, NEW view \in Views \cup {NoView}, Merged(i, view) PROVE UiFew'
  BY <1>0, <1>2, <1>7 DEF Merged
<1> QED BY <1>4, <1>5, <1>6, <1>7

(* What an answer selects is one note at most.                             *)
LEMMA FewSettled ==
    ASSUME UiIInv, UiFew, NEW c \in calls, NEW a \in FewAnswers, a.id = c.id
    PROVE  FewPage(Settled(c, a))
<1>0. /\ ui \in Pages /\ Few(ui.selected) /\ Few(ui.editingId) /\ ui.saving \subseteq 1 .. lastCall
      /\ a \in AnswerShapes
  BY DEF UiIInv, UiFew, FewPage, FewAnswers
<1> DEFINE page == Settled(c, a)
<1>1. CASE c.method = "query"
  <2>1. PICK sel : sel = IF ui.selected # {} /\ ui.selected \subseteq a.notes THEN ui.selected
                         ELSE IF a.notes = {} THEN {} ELSE {CHOOSE i \in a.notes : TRUE}
    OBVIOUS
  <2>2. Few(sel)
    BY <1>0, <2>1 DEF Few, AnswerShapes
  <2>3. \/ page = ui
        \/ page = [ui EXCEPT !.loading = FALSE]
        \/ page = [ui EXCEPT !.rows = {[of |-> c.arg, at |-> a.report, notes |-> a.notes]},
                             !.loading = FALSE, !.selected = sel]
    BY <1>1, <2>1 DEF Settled, QueryAnswered, ShowRows
  <2>4. /\ page.selected = ui.selected \/ page.selected = sel
        /\ page.editingId = ui.editingId /\ page.saving = ui.saving
    BY <1>0, <2>3 DEF Pages
  <2> QED BY <1>0, <2>2, <2>4 DEF FewPage
<1>2. CASE c.method = "refresh"
  <2>1. page = ui \/ page = [ui EXCEPT !.report = a.report]
    BY <1>2 DEF Settled
  <2>2. /\ page.selected = ui.selected
        /\ page.editingId = ui.editingId /\ page.saving = ui.saving
    BY <1>0, <2>1 DEF Pages
  <2> QED BY <1>0, <2>2 DEF FewPage
<1>3. CASE c.method # "query" /\ c.method # "refresh"
  <2>1. page = MutationAnswered(c, a)
    BY <1>3 DEF Settled
  <2>2. PICK p \in Pages : /\ p = [ui EXCEPT !.saving = @ \ {c.id}] /\ p.selected = ui.selected
                           /\ p.editingId = ui.editingId /\ p.saving = ui.saving \ {c.id}
    <3>1. PICK saves \in SUBSET Nat : saves = ui.saving \ {c.id}
      BY <1>0 DEF Pages
    <3>2. PICK p : p = [ui EXCEPT !.saving = saves]
      OBVIOUS
    <3>3. /\ p \in Pages /\ p.selected = ui.selected
          /\ p.editingId = ui.editingId /\ p.saving = saves
      BY <1>0, <3>2 DEF Pages
    <3> QED BY <3>1, <3>2, <3>3
  <2>3. CASE ~a.ok
    <3>1. page = p
      BY <2>1, <2>2, <2>3 DEF MutationAnswered
    <3> QED BY <1>0, <2>2, <3>1 DEF FewPage
  <2>4. CASE a.ok
    <3>1. PICK sel, pane : /\ page = [p EXCEPT !.report = a.report, !.selected = sel, !.pane = pane]
                           /\ sel = IF c.method = "save" THEN a.notes ELSE p.selected
      <4>1. page = [p EXCEPT !.report = a.report,
                          !.selected = IF c.method = "save" THEN a.notes ELSE @,
                          !.pane = IF c.method = "delete" THEN "items" ELSE @]
        BY <2>1, <2>2, <2>4 DEF MutationAnswered
      <4>2. PICK sel, pane : /\ sel = IF c.method = "save" THEN a.notes ELSE p.selected
                             /\ pane = IF c.method = "delete" THEN "items" ELSE p.pane
        OBVIOUS
      <4>3. page = [p EXCEPT !.report = a.report, !.selected = sel, !.pane = pane]
        BY <4>1, <4>2
      <4> QED BY <4>2, <4>3
    <3>2. Few(sel)
      BY <1>0, <2>2, <3>1 DEF FewAnswers, NotSave
    <3>3. page.selected = sel /\ page.editingId = p.editingId /\ page.saving = p.saving
      BY <3>1 DEF Pages
    <3> QED BY <1>0, <2>2, <3>2, <3>3 DEF FewPage
  <2> QED BY <2>3, <2>4
<1> QED BY <1>1, <1>2, <1>3

LEMMA FewByAnswer == ASSUME UiIInv, UiFew, AnswerArrives PROVE UiFew'
<1>0. answers # <<>> /\ answers' = Tail(answers) /\ UNCHANGED <<jobs, replica>>
  BY DEF AnswerArrives
<1>1. PICK a \in FewAnswers : a = Head(answers)
  BY <1>0 DEF UiFew
<1> DEFINE call == {c \in calls : c.id = a.id}
           c == CHOOSE x \in call : TRUE
           page == Settled(c, a)
<1>2. CASE call = {}
  <2>1. UNCHANGED <<ui, calls, lastCall, toWorker>>
    BY <1>1, <1>2 DEF AnswerArrives
  <2>2. FewPage(ui)'
    BY <2>1 DEF FewPage, UiFew
  <2> QED BY <1>0, <2>1, <2>2, FewChanges
<1>3. CASE call # {}
  <2>1. c \in calls /\ c.id = a.id
    BY <1>3
  <2>2. a \in AnswerShapes
    BY DEF FewAnswers
  <2>3. a \in Timely
    BY <1>0, <1>1 DEF UiIInv
  <2> HIDE DEF c
  <2>4. page \in Pages /\ FewPage(page)
    BY <2>1, <2>2, <2>3, SettledPage, FewSettled
  <2>5. IF page.report # ui.report
        THEN LET query == NewCall(lastCall + 1, "query", page.view)
             IN  /\ ui' = Querying(page)
                 /\ calls' = (calls \ call) \cup {query}
                 /\ toWorker' = Append(toWorker, query)
                 /\ lastCall' = lastCall + 1
        ELSE /\ ui' = page
             /\ calls' = calls \ call
             /\ UNCHANGED <<lastCall, toWorker>>
    BY <1>1, <1>3 DEF AnswerArrives, c
  <2> HIDE DEF page
  <2>6. CASE page.report # ui.report
    <3> DEFINE q == NewCall(lastCall + 1, "query", page.view)
    <3>1. q \in Queries /\ q.id = lastCall + 1 /\ q.method = "query"
      BY <2>4 DEF UiIInv, NewCall, Queries, Pages
    <3>2. /\ ui' = Querying(page) /\ calls' \subseteq calls \cup {q}
          /\ toWorker' = Append(toWorker, q) /\ lastCall' = lastCall + 1
      BY <2>5, <2>6
    <3> HIDE DEF q
    <3>3. /\ ui'.selected = page.selected /\ ui'.editingId = page.editingId
          /\ ui'.saving = page.saving
      BY <2>4, <3>2 DEF Querying, Pages
    <3>4. lastCall \in Nat
      BY DEF UiIInv
    <3>5. ui'.saving \subseteq 1 .. lastCall'
      BY <2>4, <3>2, <3>3, <3>4 DEF FewPage
    <3>6. FewPage(ui)'
      BY <2>4, <3>3, <3>5 DEF FewPage, Few
    <3> QED BY <1>0, <3>1, <3>2, <3>6, FewPosted
  <2>7. CASE page.report = ui.report
    <3>1. ui' = page /\ calls' \subseteq calls /\ UNCHANGED <<lastCall, toWorker>>
      BY <2>5, <2>7
    <3>2. FewPage(ui)'
      BY <2>4, <3>1 DEF FewPage, Few
    <3> QED BY <1>0, <3>1, <3>2, FewChanges
  <2> QED BY <2>6, <2>7
<1> QED BY <1>2, <1>3

LEMMA FewByFault ==
    ASSUME UiIInv, UiFew, WorkerFails \/ \E call \in calls : CallTimesOut(call) PROVE UiFew'
<1>1. ASSUME NEW call \in calls, CallTimesOut(call) PROVE UiFew'
  <2>1. PICK a \in FewAnswers : /\ a.id = call.id
                                /\ a = [id |-> call.id, ok |-> FALSE, report |-> 0, notes |-> {}]
    BY DEF UiIInv, FewAnswers, AnswerShapes, CallsMade, Queries, Others, Few
  <2>2. /\ ui' = Settled(call, a) /\ calls' = calls \ {call}
        /\ UNCHANGED <<lastCall, toWorker, jobs, answers>>
    BY <1>1, <2>1 DEF CallTimesOut, Unanswered
  <2>3. FewPage(Settled(call, a))
    BY <2>1, FewSettled
  <2>4. FewPage(ui)'
    BY <2>2, <2>3 DEF FewPage, Few
  <2> QED BY <2>2, <2>4, FewChanges
<1>2. CASE WorkerFails
  <2>1. /\ ui' = [ui EXCEPT !.saving = {}, !.loading = @ /\ \A call \in calls : call.id # ui.query]
        /\ calls' = {} /\ UNCHANGED <<lastCall, toWorker, jobs, answers>>
    BY <1>2 DEF WorkerFails
  <2>2. ui'.selected = ui.selected /\ ui'.editingId = ui.editingId /\ ui'.saving = {}
    BY <2>1 DEF UiIInv, Pages
  <2>3. FewPage(ui)'
    BY <2>2 DEF FewPage, UiFew, Few
  <2> QED BY <2>1, <2>3, FewChanges
<1> QED BY <1>1, <1>2

LEMMA UiFewStep == UiIInv /\ UiFew /\ [UiNext]_uiVars => UiFew'
<1> SUFFICES ASSUME UiIInv, UiFew, [UiNext]_uiVars PROVE UiFew'
  OBVIOUS
<1>1. CASE UNCHANGED uiVars
  <2>1. FewPage(ui)'
    BY <1>1 DEF uiVars, UiFew, FewPage, Few
  <2> QED BY <1>1, <2>1, FewChanges DEF uiVars
<1> QED BY <1>1, FewByPerson, FewByWorker, FewByAnswer, FewByFault DEF UiNext

LEMMA UiFewInit == UiInit => UiFew
<1> SUFFICES ASSUME UiInit PROVE UiFew
  OBVIOUS
<1>1. Few(ui.selected) /\ ui.editingId = {} /\ ui.saving = {}
  BY DEF UiInit, Few
<1> QED BY <1>1 DEF UiInit, UiFew, FewPage, Few

LEMMA UiTyped == UiSpec => []UiTypeOK
<1>1. ASSUME UiIInv, UiFew PROVE UiTypeOK
  <2>1. Cardinality(ui.selected) <= 1
    <3>1. CASE ui.selected = {}
      BY <3>1, FS_EmptySet
    <3>2. CASE \E i \in UiNotes : ui.selected = {i}
      BY <3>2, FS_Singleton
    <3> QED BY <1>1, <3>1, <3>2 DEF UiFew, FewPage, Few
  <2>2. \A call \in calls : call.id \in 1 .. lastCall
    BY <1>1 DEF UiIInv, CallsMade, Queries, Others
  <2> QED BY <1>1, <2>1, <2>2 DEF UiTypeOK, UiIInv, UiFew, FewPage, Pages
<1> QED BY <1>1, UiInitIInv, UiStep, UiFewInit, UiFewStep, PTL DEF UiSpec

-----------------------------------------------------------------------------
(***************************************************************************)
(* TerminalApp: what the application shows and marks are notes, and the    *)
(* active view is one of those it was given, of which "all" is always one. *)
(***************************************************************************)

ContentsBy(n) == [v : 0 .. n, tags : SUBSET Tags, live : BOOLEAN]

Modes == {"normal", "panel", "clients", "search", "goto", "actions", "tags", "create",
          "capture", "plugin", "results"}

ViewNames == UNION {DOMAIN config : config \in Configurations}

Apps(n) ==
    [notes : [NoteIds -> ContentsBy(n)], bin : SUBSET NoteIds, views : Configurations,
     view : ViewNames, subview : SUBSET Tags, search : SUBSET Tags, narrow : SUBSET Tags,
     reversed : BOOLEAN, cursor : Nat, marked : SUBSET NoteIds, mode : Modes, picked : SUBSET Tags,
     snapshot : {<<>>} \cup [NoteIds -> ContentsBy(n)]]

\* An active view and subview that the configuration has.
Shown(config, view, subview) ==
    config \in Configurations /\ view \in DOMAIN config /\ subview \subseteq config[view].subviews

AppOK(a, n) == a \in Apps(n) /\ Shown(a.views, a.view, a.subview)

Spent == [keys : Int, merges : Int, configs : Int, noise : Int, faults : Int, made : Nat]
LoopStates == {"keys", "refresh", "editor", "create", "capture", "plugin", "quit", "failed"}

TuiIInv ==
    /\ tui \in Spent
    /\ stored \in [NoteIds -> ContentsBy(tui.made + 1)]
    /\ views \in Configurations
    /\ AppOK(app, tui.made + 1)
    /\ run \in LoopStates
    /\ run = "refresh" => app.snapshot \in [NoteIds -> ContentsBy(tui.made + 1)]

LEMMA ContentsGrow ==
    ASSUME NEW m \in Nat, NEW n \in Nat, m <= n
    PROVE  ContentsBy(m) \subseteq ContentsBy(n) /\ \A a : AppOK(a, m) => AppOK(a, n)
<1>1. ContentsBy(m) \subseteq ContentsBy(n)
  BY DEF ContentsBy
<1> HIDE DEF ContentsBy
<1>2. Apps(m) \subseteq Apps(n)
  BY <1>1 DEF Apps
<1> QED BY <1>1, <1>2 DEF AppOK

LEMMA FreshContent ==
    ASSUME tui.made \in Nat, NEW tags \in SUBSET Tags
    PROVE  Fresh(tags) \in ContentsBy(tui.made + 1) /\ Fresh(tags).tags = tags
BY DEF Fresh, ContentsBy

LEMMA SnapshotTyped ==
    ASSUME TuiIInv PROVE Snapshot \in [NoteIds -> ContentsBy(tui.made + 1)]
<1>1. tui.made + 1 \in Nat
  BY DEF TuiIInv, Spent
<1>2. Never \in ContentsBy(tui.made + 1)
  BY <1>1 DEF Never, ContentsBy
<1> QED BY <1>2 DEF TuiIInv, Snapshot

(* The cursor of a list.                                                   *)
LEMMA ListLength ==
    ASSUME NEW a
    PROVE  LET list == VisibleNotes(a)
           IN  /\ Len(list) \in Nat /\ (list # <<>> => Len(list) > 0)
               /\ \A k \in 1 .. Len(list) : list[k] \in NoteIds
<1>1. PICK n \in Nat : VisibleNotes(a) \in [1 .. n -> Query(a, a.narrow)]
  BY ListIsListing
<1>2. PICK list : list = VisibleNotes(a)
  OBVIOUS
<1>3. Query(a, a.narrow) \subseteq NoteIds
  BY DEF Query
<1>4. list \in Seq(NoteIds) /\ Len(list) = n
  BY <1>1, <1>2, <1>3
<1> QED BY <1>2, <1>4

LEMMA SelectedTyped ==
    ASSUME NEW a, a.cursor \in Nat, SelectedNote(a) # 0
    PROVE  SelectedNote(a) \in NoteIds /\ Len(VisibleNotes(a)) > 0
<1>1. PICK list : list = VisibleNotes(a)
  OBVIOUS
<1>2. list # <<>> /\ SelectedNote(a) = list[Least(a.cursor, Len(list) - 1) + 1]
  BY <1>1 DEF SelectedNote
<1>3. Len(list) \in Nat /\ Len(list) > 0 /\ \A k \in 1 .. Len(list) : list[k] \in NoteIds
  BY <1>1, <1>2, ListLength
<1>4. Least(a.cursor, Len(list) - 1) + 1 \in 1 .. Len(list)
  BY <1>3 DEF Least
<1> QED BY <1>1, <1>2, <1>3, <1>4

LEMMA SelectedIdsTyped ==
    ASSUME NEW a, a.cursor \in Nat, a.marked \subseteq NoteIds
    PROVE  SelectedNoteIds(a) \subseteq NoteIds
BY SelectedTyped DEF SelectedNoteIds

LEMMA IndexTyped ==
    ASSUME NEW a, NEW i, Contains(VisibleNotes(a), i)
    PROVE  IndexOf(i, VisibleNotes(a)) \in Nat
<1>1. PICK list : list = VisibleNotes(a)
  OBVIOUS
<1>2. Len(list) \in Nat
  BY <1>1, ListLength
<1>3. PICK k \in 1 .. Len(list) : list[k] = i
  BY <1>1 DEF Contains
<1>4. PICK at : at = CHOOSE j \in 1 .. Len(list) : list[j] = i
  OBVIOUS
<1>5. at \in 1 .. Len(list)
  BY <1>3, <1>4
<1>6. at - 1 \in Nat
  BY <1>2, <1>5
<1> QED BY <1>1, <1>4, <1>6 DEF IndexOf

LEMMA AddNoteTyped ==
    ASSUME NEW n \in Nat, NEW a, AppOK(a, n), NEW i, NEW note \in ContentsBy(n)
    PROVE  AppOK(AddNote(a, i, note), n)
<1>1. PICK b : b = [a EXCEPT !.notes[i] = note]
  OBVIOUS
<1>2. [a.notes EXCEPT ![i] = note] \in [NoteIds -> ContentsBy(n)]
  BY DEF AppOK, Apps
<1>3. AppOK(b, n)
  BY <1>1, <1>2 DEF AppOK, Apps
<1>4. PICK c : c = IF Contains(VisibleNotes(b), i) THEN IndexOf(i, VisibleNotes(b)) ELSE 0
  OBVIOUS
<1>5. c \in Nat
  BY <1>4, IndexTyped
<1>6. AddNote(a, i, note) = [b EXCEPT !.cursor = c]
  BY <1>1, <1>4 DEF AddNote
<1> QED BY <1>3, <1>5, <1>6 DEF AppOK, Apps

LEMMA SetSubviewTyped ==
    ASSUME NEW n \in Nat, NEW a \in Apps(n), NEW S, Shown(a.views, a.view, S)
    PROVE  AppOK(SetSubview(a, S), n)
<1>1. S \in SUBSET Tags BY TuiViews DEF Shown, View
<1> QED BY <1>1 DEF AppOK, Apps, SetSubview

LEMMA SetViewTyped ==
    ASSUME NEW n \in Nat, NEW a \in Apps(n), NEW view \in DOMAIN a.views
    PROVE  AppOK(SetView(a, view), n)
<1>1. PICK S : S = FirstSubview(a.views[view].subviews) OBVIOUS
<1>2. S \subseteq a.views[view].subviews BY <1>1 DEF FirstSubview
<1>3. a.views \in Configurations /\ view \in ViewNames BY DEF Apps, ViewNames
<1>4. Shown(a.views, view, S) BY <1>2, <1>3 DEF Shown
<1>5. S \in SUBSET Tags BY <1>4, TuiViews DEF Shown, View
<1>6. PICK b : b = [a EXCEPT !.view = view, !.subview = S, !.cursor = 0] OBVIOUS
<1>7. b \in Apps(n) BY <1>3, <1>5, <1>6 DEF Apps
<1>8. b.views = a.views /\ b.view = view /\ b.subview = S BY <1>6 DEF Apps
<1>9. SetView(a, view) = b BY <1>1, <1>6 DEF SetView
<1> QED BY <1>4, <1>7, <1>8, <1>9 DEF AppOK

LEMMA GotoTyped ==
    ASSUME NEW n \in Nat, NEW a, AppOK(a, n), NEW b \in GotoMoves(a) \cup SubviewMoves(a)
    PROVE  AppOK(b, n)
<1>1. CASE b \in SubviewMoves(a)
  <2>1. PICK t \in a.views[a.view].subviews : b = SetSubview(a, {t}) BY <1>1 DEF SubviewMoves
  <2>2. a \in Apps(n) /\ Shown(a.views, a.view, {t}) BY <2>1 DEF AppOK, Shown
  <2> QED BY <2>1, <2>2, SetSubviewTyped
<1>2. CASE b \in GotoMoves(a)
  <2>1. PICK view \in DOMAIN a.views :
           \/ b = SetView(a, view)
           \/ \E S \in {{}} \cup {{t} : t \in a.views[view].subviews} :
                 b = SetSubview(SetView(a, view), S)
    BY <1>2 DEF GotoMoves
  <2>2. AppOK(SetView(a, view), n) BY SetViewTyped DEF AppOK
  <2>3. PICK d : d = SetView(a, view) OBVIOUS
  <2>4. d.view = view /\ d.views = a.views BY <2>3 DEF SetView, AppOK, Apps
  <2>5. ASSUME NEW S \in {{}} \cup {{t} : t \in a.views[view].subviews}, b = SetSubview(d, S)
        PROVE  AppOK(b, n)
    <3>1. Shown(d.views, d.view, S) BY <2>4, <2>5 DEF Shown, AppOK
    <3> QED BY <2>2, <2>3, <2>5, <3>1, SetSubviewTyped DEF AppOK
  <2> QED BY <2>1, <2>2, <2>3, <2>5
<1> QED BY <1>1, <1>2

LEMMA RefreshedTyped ==
    ASSUME NEW n \in Nat, NEW a, AppOK(a, n), views \in Configurations
    PROVE  AppOK(Refreshed(a), n) /\ Refreshed(a).snapshot = a.snapshot
<1>1. PICK b : b = [a EXCEPT !.views = views] OBVIOUS
<1>2. /\ b \in Apps(n) /\ b.views = views /\ b.view = a.view /\ b.subview = a.subview
      /\ b.snapshot = a.snapshot
  BY <1>1 DEF AppOK, Apps
<1>3. CASE a.view \notin DOMAIN views
  <2>1. Refreshed(a) = SetView(b, "all") BY <1>1, <1>3 DEF Refreshed
  <2>2. "all" \in DOMAIN b.views BY <1>2, TuiViews
  <2>3. SetView(b, "all").snapshot = b.snapshot BY <1>2 DEF SetView, Apps
  <2> QED BY <1>2, <2>1, <2>2, <2>3, SetViewTyped
<1>4. CASE a.view \in DOMAIN views /\ a.subview \subseteq views[a.view].subviews
  <2>1. Refreshed(a) = b BY <1>1, <1>4 DEF Refreshed
  <2> QED BY <1>2, <1>4, <2>1 DEF AppOK, Shown
<1>5. CASE a.view \in DOMAIN views /\ ~(a.subview \subseteq views[a.view].subviews)
  <2>1. Refreshed(a) = SetSubview(b, {}) BY <1>1, <1>5 DEF Refreshed
  <2>2. Shown(b.views, b.view, {}) BY <1>2, <1>5 DEF Shown
  <2>3. SetSubview(b, {}).snapshot = b.snapshot BY <1>2 DEF SetSubview, Apps
  <2> QED BY <1>2, <2>1, <2>2, <2>3, SetSubviewTyped
<1> QED BY <1>3, <1>4, <1>5

LEMMA ShowNewTyped ==
    ASSUME NEW n \in Nat, NEW a, AppOK(a, n), NEW i, NEW note \in ContentsBy(n)
    PROVE  AppOK([ShowNew(a, i, note) EXCEPT !.mode = "normal"], n)
<1>1. PICK b : b = [a EXCEPT !.search = {}, !.narrow = {}]
  OBVIOUS
<1>2. AppOK(b, n)
  BY <1>1 DEF AppOK, Apps
<1>3. AppOK(SetView(b, "all"), n)
  <2>1. "all" \in DOMAIN b.views
    BY <1>2, TuiViews DEF AppOK, Shown
  <2> QED BY <1>2, <2>1, SetViewTyped DEF AppOK
<1>4. PICK d : d = ShowNew(a, i, note)
  OBVIOUS
<1>5. AppOK(d, n)
  BY <1>1, <1>3, <1>4, AddNoteTyped DEF ShowNew
<1> QED BY <1>4, <1>5 DEF AppOK, Apps, Modes

LEMMA HydrateTyped ==
    ASSUME NEW n \in Nat, NEW a, AppOK(a, n), NEW snapshot \in [NoteIds -> ContentsBy(n)],
           NEW bin \in SUBSET NoteIds
    PROVE  AppOK([Hydrate(a, snapshot, bin) EXCEPT !.snapshot = <<>>], n)
<1>1. PICK b : b = [a EXCEPT !.notes = snapshot, !.bin = bin]
  OBVIOUS
<1>2. AppOK(b, n)
  BY <1>1 DEF AppOK, Apps
<1>3. PICK list : list = VisibleNotes(b)
  OBVIOUS
<1>4. PICK c : c = IF SelectedNote(a) # 0 /\ Contains(list, SelectedNote(a))
                   THEN IndexOf(SelectedNote(a), list)
                   ELSE IF list = <<>> THEN 0 ELSE Least(b.cursor, Len(list) - 1)
  OBVIOUS
<1>5. c \in Nat
  <2>1. b.cursor \in Nat
    BY <1>2 DEF AppOK, Apps
  <2>2. list # <<>> => Len(list) - 1 \in Nat
    BY <1>3, ListLength
  <2>3. Contains(list, SelectedNote(a)) => IndexOf(SelectedNote(a), list) \in Nat
    BY <1>3, IndexTyped
  <2> QED BY <1>4, <2>1, <2>2, <2>3 DEF Least
<1>6. Hydrate(a, snapshot, bin) = [b EXCEPT !.cursor = c]
  BY <1>1, <1>3, <1>4 DEF Hydrate
<1>7. PICK d : d = [b EXCEPT !.cursor = c]
  OBVIOUS
<1>8. AppOK(d, n)
  BY <1>2, <1>5, <1>7 DEF AppOK, Apps
<1>9. [d EXCEPT !.snapshot = <<>>] \in Apps(n)
  BY <1>8 DEF AppOK, Apps
<1> QED BY <1>6, <1>7, <1>8, <1>9 DEF AppOK, Apps

-----------------------------------------------------------------------------
(* The steps *)

(* Versions grow. *)
LEMMA Grown ==
    ASSUME TuiIInv, tui' \in Spent, tui.made <= tui'.made
    PROVE  /\ tui'.made + 1 \in Nat
           /\ stored \in [NoteIds -> ContentsBy(tui'.made + 1)]
           /\ AppOK(app, tui'.made + 1) /\ AppOK(Dispatching, tui'.made + 1)
           /\ \A tags \in SUBSET Tags : Fresh(tags) \in ContentsBy(tui'.made + 1)
           /\ Never \in ContentsBy(tui'.made + 1)
<1>1. tui.made + 1 \in Nat /\ tui'.made + 1 \in Nat /\ tui.made + 1 <= tui'.made + 1
  BY DEF TuiIInv, Spent
<1>2. /\ ContentsBy(tui.made + 1) \subseteq ContentsBy(tui'.made + 1)
      /\ AppOK(app, tui'.made + 1)
  BY <1>1, ContentsGrow DEF TuiIInv
<1>3. stored \in [NoteIds -> ContentsBy(tui'.made + 1)]
  BY <1>2 DEF TuiIInv
<1>4. AppOK(Dispatching, tui'.made + 1)
  BY <1>2 DEF Dispatching, AppOK, Apps, Modes
<1>5. \A tags \in SUBSET Tags : Fresh(tags) \in ContentsBy(tui'.made + 1)
  BY <1>2, FreshContent DEF TuiIInv, Spent
<1>6. Never \in ContentsBy(tui'.made + 1)
  BY <1>1 DEF Never, ContentsBy
<1> QED BY <1>1, <1>2, <1>3, <1>4, <1>5, <1>6

LEMMA Pressed == ASSUME TuiIInv, Press PROVE tui' \in Spent /\ tui'.made = tui.made
BY DEF TuiIInv, Press, Spent

LEMMA PressedMaking ==
    ASSUME TuiIInv, PressMaking PROVE tui' \in Spent /\ tui'.made = tui.made + 1
<1>1. PICK k \in Int, m \in Nat : k = tui.keys - 1 /\ m = tui.made + 1
  BY DEF TuiIInv, Spent
<1>2. tui' = [tui EXCEPT !.keys = k, !.made = m]
  BY <1>1 DEF PressMaking
<1> QED BY <1>1, <1>2 DEF TuiIInv, Spent

(* A step that leaves the replica and the configuration alone.             *)
LEMMA AppChanges ==
    ASSUME TuiIInv, tui' \in Spent, tui.made <= tui'.made, AppOK(app', tui'.made + 1),
           UNCHANGED <<stored, views>>, run' \in LoopStates \ {"refresh"}
    PROVE  TuiIInv'
BY Grown DEF TuiIInv, AppOK

(* A change of the replica. *)
LEMMA Changed ==
    ASSUME TuiIInv, tui' \in Spent, tui.made <= tui'.made, AppOK(app', tui'.made + 1),
           UNCHANGED views, run' \in LoopStates \ {"refresh"},
           stored' \in [NoteIds -> ContentsBy(tui'.made + 1)]
    PROVE  TuiIInv'
BY DEF TuiIInv, AppOK

LEMMA RefreshTyped ==
    ASSUME TuiIInv, NEW a, AppOK(a, tui.made + 1), Refreshing(a), tui' \in Spent,
           tui.made = tui'.made, UNCHANGED <<stored, views>>
    PROVE  TuiIInv'
<1>1. PICK b : b = Refreshed(a)
  OBVIOUS
<1>2. tui.made + 1 \in Nat
  BY DEF TuiIInv, Spent
<1>3. AppOK(b, tui.made + 1)
  BY <1>1, <1>2, RefreshedTyped DEF TuiIInv
<1>4. PICK snap \in [NoteIds -> ContentsBy(tui.made + 1)] : snap = Snapshot
  BY SnapshotTyped
<1>5. app' = [b EXCEPT !.snapshot = snap] /\ run' = "refresh"
  BY <1>1, <1>4 DEF Refreshing
<1>6. app'.snapshot = snap /\ AppOK(app', tui'.made + 1)
  BY <1>3, <1>5 DEF AppOK, Apps
<1> QED BY <1>5, <1>6 DEF TuiIInv, LoopStates, AppOK

LEMMA ComingsTyped ==
    ASSUME TuiIInv,
           \/ \E i \in NoteIds, tags \in SUBSET Tags, live \in BOOLEAN : MergeArrives(i, tags, live)
           \/ \E config \in Configurations : ConfigArrives(config)
           \/ PresenceArrives
    PROVE  TuiIInv'
<1>1. ASSUME NEW i \in NoteIds, NEW tags \in SUBSET Tags, NEW live \in BOOLEAN,
             MergeArrives(i, tags, live)
      PROVE  TuiIInv'
  <2>1. /\ stored' = [stored EXCEPT ![i] = IF live THEN Fresh(tags) ELSE [@ EXCEPT !.live = FALSE]]
        /\ tui' = [tui EXCEPT !.merges = @ - 1, !.made = @ + 1]
        /\ UNCHANGED <<views, app, run>>
    BY <1>1 DEF MergeArrives, Store
  <2>2. tui' \in Spent /\ tui'.made = tui.made + 1
    <3>1. PICK k \in Int, m \in Nat : k = tui.merges - 1 /\ m = tui.made + 1
      BY DEF TuiIInv, Spent
    <3>2. tui' = [tui EXCEPT !.merges = k, !.made = m]
      BY <2>1, <3>1
    <3> QED BY <3>1, <3>2 DEF TuiIInv, Spent
  <2>3. tui.made <= tui'.made
    BY <2>2 DEF TuiIInv, Spent
  <2>4. /\ stored \in [NoteIds -> ContentsBy(tui'.made + 1)] /\ Fresh(tags) \in ContentsBy(tui'.made + 1)
        /\ AppOK(app, tui'.made + 1)
    BY <2>2, <2>3, Grown
  <2>5. [stored[i] EXCEPT !.live = FALSE] \in ContentsBy(tui'.made + 1)
    BY <2>4 DEF ContentsBy
  <2>6. stored' \in [NoteIds -> ContentsBy(tui'.made + 1)]
    BY <2>1, <2>4, <2>5
  <2>7. run = "refresh" => app.snapshot \in [NoteIds -> ContentsBy(tui'.made + 1)]
    <3>1. ContentsBy(tui.made + 1) \subseteq ContentsBy(tui'.made + 1)
      BY <2>2, ContentsGrow DEF TuiIInv, Spent
    <3> QED BY <3>1 DEF TuiIInv
  <2> QED BY <2>1, <2>2, <2>4, <2>6, <2>7 DEF TuiIInv, AppOK
<1>2. ASSUME NEW config \in Configurations, ConfigArrives(config) PROVE TuiIInv'
  <2>1. /\ views' = config /\ stored' = stored /\ tui' = [tui EXCEPT !.configs = @ - 1]
        /\ UNCHANGED <<app, run>>
    BY <1>2 DEF ConfigArrives, Store
  <2>2. tui' \in Spent /\ tui'.made = tui.made
    BY <2>1 DEF TuiIInv, Spent
  <2> QED BY <2>1, <2>2 DEF TuiIInv, AppOK
<1>3. CASE PresenceArrives
  <2>1. tui' = [tui EXCEPT !.noise = @ - 1] /\ UNCHANGED <<stored, views, app, run>>
    BY <1>3 DEF PresenceArrives
  <2>2. tui' \in Spent /\ tui'.made = tui.made
    BY <2>1 DEF TuiIInv, Spent
  <2> QED BY <2>1, <2>2 DEF TuiIInv, AppOK
<1> QED BY <1>1, <1>2, <1>3

LEMMA RefreshesTyped ==
    ASSUME TuiIInv, TakeEvent \/ RefreshKey \/ EndRefresh \/ RefreshFails PROVE TuiIInv'
<1>0. tui \in Spent /\ tui.made + 1 \in Nat /\ AppOK(app, tui.made + 1) /\ tui.made <= tui.made
  BY DEF TuiIInv, Spent
<1>1. CASE TakeEvent
  <2>1. UNCHANGED <<stored, views>>
    BY <1>1 DEF TakeEvent
  <2>2. CASE UNCHANGED <<app, run, tui>>
    BY <2>1, <2>2 DEF TuiIInv, AppOK
  <2>3. CASE Refreshing(app) /\ UNCHANGED tui
    BY <1>0, <2>1, <2>3, RefreshTyped
  <2>4. CASE tui' = [tui EXCEPT !.faults = @ - 1] /\ run = "keys" /\ UNCHANGED run
             /\ app' \in {app, Refreshed(app)}
    <3>1. tui' \in Spent /\ tui'.made = tui.made
      BY <2>4 DEF TuiIInv, Spent
    <3>2. AppOK(app', tui.made + 1)
      BY <1>0, <2>4, RefreshedTyped DEF TuiIInv
    <3> QED BY <1>0, <2>1, <2>4, <3>1, <3>2, AppChanges DEF LoopStates
  <2> QED BY <1>1, <2>2, <2>3, <2>4 DEF TakeEvent, AtKeys
<1>2. CASE RefreshKey
  <2>1. Refreshing(Dispatching) /\ Press /\ UNCHANGED <<stored, views>>
    BY <1>2 DEF RefreshKey
  <2>2. tui' \in Spent /\ tui'.made = tui.made
    BY <2>1, Pressed
  <2>3. AppOK(Dispatching, tui.made + 1)
    BY <1>0 DEF Dispatching, AppOK, Apps, Modes
  <2> QED BY <2>1, <2>2, <2>3, RefreshTyped
<1>3. CASE EndRefresh
  <2>1. /\ run = "refresh" /\ run' = "keys" /\ UNCHANGED <<stored, views, tui>>
        /\ app' = [Hydrate(app, app.snapshot, DeletedNotes) EXCEPT !.snapshot = <<>>]
    BY <1>3 DEF EndRefresh
  <2>2. app.snapshot \in [NoteIds -> ContentsBy(tui.made + 1)] /\ DeletedNotes \in SUBSET NoteIds
    BY <2>1 DEF TuiIInv, DeletedNotes
  <2>3. AppOK(app', tui.made + 1)
    BY <1>0, <2>1, <2>2, HydrateTyped
  <2> QED BY <1>0, <2>1, <2>3, AppChanges DEF LoopStates
<1>4. CASE RefreshFails
  <2>1. /\ run = "refresh" /\ run' \in {"keys", "failed"} /\ UNCHANGED <<stored, views>>
        /\ app' = [app EXCEPT !.notes = app.snapshot, !.snapshot = <<>>]
        /\ tui' = [tui EXCEPT !.faults = @ - 1]
    BY <1>4 DEF RefreshFails
  <2>2. tui' \in Spent /\ tui'.made = tui.made
    BY <2>1 DEF TuiIInv, Spent
  <2>3. PICK notes \in [NoteIds -> ContentsBy(tui.made + 1)] : notes = app.snapshot
    BY <2>1 DEF TuiIInv
  <2>4. app' = [app EXCEPT !.notes = notes, !.snapshot = <<>>]
    BY <2>1, <2>3
  <2>5. AppOK(app', tui.made + 1)
    BY <1>0, <2>4 DEF AppOK, Apps
  <2> QED BY <1>0, <2>1, <2>2, <2>5, AppChanges DEF LoopStates
<1> QED BY <1>1, <1>2, <1>3, <1>4

(* Keys that move *)
LEMMA CursorTyped ==
    ASSUME NEW n \in Nat, NEW a, AppOK(a, n), NEW b \in CursorMoves(a)
    PROVE  AppOK(b, n)
<1>1. PICK last : last = Len(VisibleNotes(a))
  OBVIOUS
<1>2. last \in Nat
  BY <1>1, ListLength
<1>3. a \in Apps(n) /\ a.cursor \in Nat
  BY DEF AppOK, Apps
<1>4. \/ \E c \in Nat : b = [a EXCEPT !.cursor = c]
      \/ b = [a EXCEPT !.reversed = ~@]
  <2>1. CASE b = [a EXCEPT !.cursor = IF @ = 0 THEN 0 ELSE @ - 1]
    <3>1. (IF a.cursor = 0 THEN 0 ELSE a.cursor - 1) \in Nat
      BY <1>3
    <3> QED BY <2>1, <3>1
  <2>2. CASE last > 0 /\ b = [a EXCEPT !.cursor = Least(@ + 1, last - 1)]
    <3>1. Least(a.cursor + 1, last - 1) \in Nat
      BY <1>2, <1>3, <2>2 DEF Least
    <3> QED BY <2>2, <3>1
  <2> QED BY <1>1, <2>1, <2>2 DEF CursorMoves
<1>5. CASE \E c \in Nat : b = [a EXCEPT !.cursor = c]
  BY <1>5 DEF AppOK, Apps
<1>6. CASE b = [a EXCEPT !.reversed = ~@]
  BY <1>6 DEF AppOK, Apps
<1> QED BY <1>4, <1>5, <1>6

LEMMA NarrowTyped ==
    ASSUME NEW n \in Nat, NEW a, AppOK(a, n), NEW b \in NarrowMoves(a)
    PROVE  AppOK(b, n)
<1>1. AvailableTags(a) \subseteq Tags
  <2>1. \A i \in Query(a, {}) : a.notes[i].tags \subseteq Tags
    BY DEF AppOK, Apps, ContentsBy, Query
  <2> QED BY <2>1 DEF AvailableTags, AppOK, Apps
<1>2. PICK t \in AvailableTags(a) : b = [a EXCEPT !.narrow = (@ \ {t}) \cup ({t} \ @), !.cursor = 0]
  BY DEF NarrowMoves
<1>3. PICK tags : tags = (a.narrow \ {t}) \cup ({t} \ a.narrow)
  OBVIOUS
<1>4. tags \in SUBSET Tags
  BY <1>1, <1>3 DEF AppOK, Apps
<1>5. b = [a EXCEPT !.narrow = tags, !.cursor = 0]
  BY <1>2, <1>3
<1> QED BY <1>4, <1>5 DEF AppOK, Apps

LEMMA MarkTyped ==
    ASSUME NEW n \in Nat, NEW a, AppOK(a, n), SelectedNote(a) # 0
    PROVE  AppOK(Mark(a), n)
<1>1. PICK i \in NoteIds : i = SelectedNote(a)
  BY SelectedTyped DEF AppOK, Apps
<1>2. PICK last \in Nat : last = Len(VisibleNotes(a)) /\ last > 0
  BY SelectedTyped, ListLength DEF AppOK, Apps
<1>3. PICK marked : marked = (a.marked \ {i}) \cup ({i} \ a.marked)
  OBVIOUS
<1>4. PICK c : c = Least(a.cursor + 1, last - 1)
  OBVIOUS
<1>5. marked \in SUBSET NoteIds /\ c \in Nat
  BY <1>2, <1>3, <1>4 DEF AppOK, Apps, Least
<1>6. Mark(a) = [a EXCEPT !.marked = marked, !.cursor = c]
  BY <1>1, <1>2, <1>3, <1>4 DEF Mark
<1> QED BY <1>5, <1>6 DEF AppOK, Apps

LEMMA MovesTyped ==
    ASSUME TuiIInv, MoveKey \/ ClientKey \/ OpenKey \/ CancelKey \/ SearchKey \/ GotoKey
    PROVE  TuiIInv'
<1>1. /\ Press /\ UNCHANGED <<stored, views, run>> /\ AtKeys
  BY DEF MoveKey, ClientKey, OpenKey, CancelKey, SearchKey, GotoKey, AtCommand
<1>2. tui' \in Spent /\ tui'.made = tui.made /\ tui.made <= tui'.made
  BY <1>1, Pressed DEF TuiIInv, Spent
<1>3. run' \in LoopStates \ {"refresh"}
  BY <1>1 DEF AtKeys, LoopStates
<1> SUFFICES AppOK(app', tui'.made + 1)
  BY <1>1, <1>2, <1>3, AppChanges
<1>4. PICK n \in Nat : n = tui'.made + 1 /\ AppOK(app, n) /\ AppOK(Dispatching, n)
  BY <1>2, Grown
<1> SUFFICES AppOK(app', n)
  BY <1>4
<1>5. CASE MoveKey
  <2>1. CASE app' \in CursorMoves(Dispatching)
    BY <1>4, <2>1, CursorTyped
  <2>2. CASE app' \in NarrowMoves(Dispatching)
    BY <1>4, <2>2, NarrowTyped
  <2>3. CASE app' \in GotoMoves(Dispatching) \cup SubviewMoves(Dispatching)
    BY <1>4, <2>3, GotoTyped
  <2>4. CASE SelectedNote(app) # 0 /\ app' = Mark(Dispatching)
    <3>1. SameSelection(Dispatching, app)
      BY <1>4 DEF SameSelection, SameList, Dispatching, AppOK, Apps
    <3>2. SelectedNote(Dispatching) = SelectedNote(app)
      <4>1. VisibleNotes(Dispatching) = VisibleNotes(app) /\ Dispatching.cursor = app.cursor
        BY <3>1, SameListShows DEF SameSelection
      <4> QED BY <4>1 DEF SelectedNote
    <3> QED BY <1>4, <2>4, <3>2, MarkTyped
  <2> QED BY <1>5, <2>1, <2>2, <2>3, <2>4 DEF MoveKey
<1>6. CASE ClientKey
  <2>1. app.cursor \in Nat
    BY <1>4 DEF AppOK, Apps
  <2>2. PICK c \in Nat : app' = [app EXCEPT !.cursor = c]
    <3>1. (IF app.cursor = 0 THEN 0 ELSE app.cursor - 1) \in Nat /\ Least(app.cursor + 1, 1) \in Nat
      BY <2>1 DEF Least
    <3> QED BY <1>6, <3>1 DEF ClientKey
  <2> QED BY <1>4, <2>2 DEF AppOK, Apps
<1>7. CASE OpenKey
  <2>1. CASE \E m \in {"panel", "search", "goto", "actions", "create", "capture", "plugin"} :
                app' = [app EXCEPT !.mode = m]
    BY <1>4, <2>1 DEF AppOK, Apps, Modes
  <2>2. CASE app' = [app EXCEPT !.mode = "clients", !.cursor = 0]
    BY <1>4, <2>2 DEF AppOK, Apps, Modes
  <2> QED BY <1>7, <2>1, <2>2 DEF OpenKey
<1>8. CASE CancelKey
  <2>1. CASE app' = [app EXCEPT !.mode = "normal", !.search = {}, !.cursor = 0]
    <3>1. {} \in SUBSET Tags /\ 0 \in Nat /\ "normal" \in Modes
      BY DEF Modes
    <3> QED BY <1>4, <2>1, <3>1 DEF AppOK, Apps
  <2>2. CASE app' = [app EXCEPT !.mode = "normal"]
    BY <1>4, <2>2 DEF AppOK, Apps, Modes
  <2> QED BY <1>8, <2>1, <2>2 DEF CancelKey
<1>9. CASE SearchKey
  <2>1. CASE \E word \in {{}} \cup {{t} : t \in Tags} :
                app' = [app EXCEPT !.search = word, !.cursor = 0]
    <3>1. PICK word \in SUBSET Tags : app' = [app EXCEPT !.search = word, !.cursor = 0]
      BY <2>1
    <3> QED BY <1>4, <3>1 DEF AppOK, Apps
  <2>2. CASE app' = [app EXCEPT !.mode = "normal"]
    BY <1>4, <2>2 DEF AppOK, Apps, Modes
  <2> QED BY <1>9, <2>1, <2>2 DEF SearchKey
<1>10. CASE GotoKey
  <2>1. PICK b : b = [app EXCEPT !.mode = "normal"]
    OBVIOUS
  <2>2. AppOK(b, n)
    BY <1>4, <2>1 DEF AppOK, Apps, Modes
  <2> QED BY <1>10, <2>1, <2>2, GotoTyped DEF GotoKey
<1> QED BY <1>5, <1>6, <1>7, <1>8, <1>9, <1>10

(* Keys that change notes *)
LEMMA PutTyped ==
    ASSUME NEW n \in Nat, NEW a, AppOK(a, n), NEW i, NEW note, i \in NoteIds => note \in ContentsBy(n)
    PROVE  AppOK([a EXCEPT !.notes[i] = note], n)
<1>1. PICK notes : notes = [a.notes EXCEPT ![i] = note]
  OBVIOUS
<1>2. notes \in [NoteIds -> ContentsBy(n)]
  BY <1>1 DEF AppOK, Apps
<1>3. [a EXCEPT !.notes[i] = note] = [a EXCEPT !.notes = notes]
  BY <1>1
<1> QED BY <1>2, <1>3 DEF AppOK, Apps

(* A save of the list's note, or its failure. *)
LEMMA SavesTyped ==
    ASSUME TuiIInv, tui' \in Spent, tui'.made = tui.made + 1, AppOK(app', tui'.made + 1),
           UNCHANGED views, NEW new \in [NoteIds -> ContentsBy(tui'.made + 1)], SavesNote(new)
    PROVE  TuiIInv'
<1>1. tui.made <= tui'.made
  BY DEF TuiIInv, Spent
<1>2. CASE Store(new) /\ run' = "keys"
  BY <1>1, <1>2, Changed DEF Store, LoopStates
<1>3. CASE run' = "failed" /\ UNCHANGED <<stored, events, missed>>
  BY <1>1, <1>3, AppChanges DEF LoopStates
<1> QED BY <1>2, <1>3 DEF SavesNote

LEMMA ChangesTyped ==
    ASSUME TuiIInv, DeleteKey \/ RestoreKey \/ ItemActionKey PROVE TuiIInv'
<1>1. PressMaking /\ UNCHANGED views /\ AtKeys
  BY DEF DeleteKey, RestoreKey, ItemActionKey, AtCommand
<1>2. tui' \in Spent /\ tui'.made = tui.made + 1 /\ tui.made <= tui'.made
  BY <1>1, PressedMaking DEF TuiIInv, Spent
<1>3. PICK n \in Nat :
         /\ n = tui'.made + 1 /\ stored \in [NoteIds -> ContentsBy(n)] /\ AppOK(app, n)
         /\ AppOK(Dispatching, n) /\ Never \in ContentsBy(n)
         /\ \A tags \in SUBSET Tags : Fresh(tags) \in ContentsBy(n)
  BY <1>2, Grown
<1>4. run' = run => run' \in LoopStates \ {"refresh"}
  BY <1>1 DEF AtKeys, LoopStates
<1>5. \A i \in NoteIds : app.notes[i].tags \in SUBSET Tags /\ stored[i].tags \in SUBSET Tags
  BY <1>3 DEF AppOK, Apps, ContentsBy
<1>6. CASE DeleteKey
  <2>1. PICK i : i = SelectedNote(app)
    OBVIOUS
  <2>2. i \in NoteIds
    BY <1>3, <1>6, <2>1, SelectedTyped DEF DeleteKey, AppOK, Apps
  <2>3. PICK note \in ContentsBy(n) : note = [Fresh(app.notes[i].tags) EXCEPT !.live = FALSE]
    <3>1. Fresh(app.notes[i].tags) \in ContentsBy(n)
      BY <1>3, <1>5, <2>2
    <3> QED BY <3>1 DEF ContentsBy
  <2>4. CASE Ends("failed")
    BY <1>1, <1>2, <1>3, <2>4, AppChanges DEF Ends, LoopStates, DeleteKey
  <2>5. CASE /\ Store([stored EXCEPT ![i] = note]) /\ run' = run
             /\ app' = [Dispatching EXCEPT !.notes[i] = Never, !.bin = @ \cup {i},
                                           !.cursor = IF @ = 0 THEN 0 ELSE @ - 1]
    <3>1. PICK d : d = [Dispatching EXCEPT !.notes[i] = Never]
      OBVIOUS
    <3>2. AppOK(d, n)
      BY <1>3, <3>1, PutTyped
    <3>3. PICK b \in SUBSET NoteIds, c \in Nat :
             /\ b = Dispatching.bin \cup {i}
             /\ c = IF Dispatching.cursor = 0 THEN 0 ELSE Dispatching.cursor - 1
      <4>1. Dispatching.bin \in SUBSET NoteIds /\ Dispatching.cursor \in Nat
        BY <1>3 DEF AppOK, Apps
      <4>2. Dispatching.bin \cup {i} \in SUBSET NoteIds
        BY <2>2, <4>1
      <4>3. (IF Dispatching.cursor = 0 THEN 0 ELSE Dispatching.cursor - 1) \in Nat
        BY <4>1
      <4> QED BY <4>2, <4>3
    <3>4. d.bin = Dispatching.bin /\ d.cursor = Dispatching.cursor
      BY <1>3, <3>1 DEF AppOK, Apps
    <3>5. app' = [d EXCEPT !.bin = b, !.cursor = c]
      BY <2>5, <3>1, <3>3, <3>4
    <3>6. AppOK(app', n)
      BY <3>2, <3>5 DEF AppOK, Apps
    <3>7. stored' = [stored EXCEPT ![i] = note]
      BY <2>5 DEF Store
    <3>8. stored' \in [NoteIds -> ContentsBy(n)]
      BY <1>3, <3>7
    <3> QED BY <1>1, <1>2, <1>3, <1>4, <2>5, <3>6, <3>8, Changed
  <2> QED BY <1>6, <2>1, <2>3, <2>4, <2>5 DEF DeleteKey
<1>7. CASE RestoreKey
  <2>1. PICK i, note :
           /\ note = Fresh(stored[i].tags)
           /\ app' = [Dispatching EXCEPT !.notes[i] = note, !.bin = @ \ {i}]
           /\ SavesNote([stored EXCEPT ![i] = note])
    BY <1>7 DEF RestoreKey
  <2>2. i \in NoteIds => note \in ContentsBy(n)
    BY <1>3, <1>5, <2>1
  <2>3. [stored EXCEPT ![i] = note] \in [NoteIds -> ContentsBy(n)]
    BY <1>3, <2>2
  <2>4. PICK d : d = [Dispatching EXCEPT !.notes[i] = note]
    OBVIOUS
  <2>5. AppOK(d, n)
    BY <1>3, <2>2, <2>4, PutTyped
  <2>6. app' = [d EXCEPT !.bin = @ \ {i}]
    BY <1>3, <2>1, <2>4 DEF AppOK, Apps
  <2>7. PICK b \in SUBSET NoteIds : b = d.bin \ {i}
    BY <2>5 DEF AppOK, Apps
  <2>8. AppOK(app', n)
    BY <2>5, <2>6, <2>7 DEF AppOK, Apps
  <2> QED BY <1>1, <1>2, <1>3, <2>1, <2>3, <2>8, SavesTyped
<1>8. CASE ItemActionKey
  <2>1. PICK i : i = SelectedNote(app)
    OBVIOUS
  <2>2. i \in NoteIds
    BY <1>3, <1>8, <2>1, SelectedTyped DEF ItemActionKey, AppOK, Apps
  <2>3. PICK tags \in Effects(app.notes[i].tags) :
           /\ app' = [Dispatching EXCEPT !.notes[i] = Fresh(tags)]
           /\ SavesNote([stored EXCEPT ![i] = Fresh(tags)])
    BY <1>8, <2>1 DEF ItemActionKey
  <2>4. tags \in SUBSET Tags
    BY <1>5, <2>2 DEF Effects
  <2>5. Fresh(tags) \in ContentsBy(n)
    BY <1>3, <2>4
  <2>6. [stored EXCEPT ![i] = Fresh(tags)] \in [NoteIds -> ContentsBy(n)]
    BY <1>3, <2>5
  <2>7. AppOK(app', n)
    BY <1>3, <2>3, <2>5, PutTyped
  <2> QED BY <1>1, <1>2, <1>3, <2>3, <2>6, <2>7, SavesTyped
<1> QED BY <1>6, <1>7, <1>8

LEMMA EditsTyped ==
    ASSUME TuiIInv, EditKey \/ EditorCloses \/ EnterKey \/ QuitKey PROVE TuiIInv'
<1>1. CASE EditKey \/ EnterKey \/ QuitKey
  <2>1. /\ Press /\ UNCHANGED <<stored, views>>
        /\ run' \in {"failed", "editor", "create", "capture", "plugin", "quit"}
    BY <1>1 DEF EditKey, EnterKey, QuitKey, Ends
  <2>2. tui' \in Spent /\ tui'.made = tui.made /\ tui.made <= tui'.made
    BY <2>1, Pressed DEF TuiIInv, Spent
  <2>3. AppOK(app, tui'.made + 1) /\ AppOK(Dispatching, tui'.made + 1)
    BY <2>2, Grown
  <2>4. app' = app \/ app' = Dispatching \/ app' = [app EXCEPT !.mode = "normal"]
    BY <1>1 DEF EditKey, EnterKey, QuitKey, Ends
  <2>5. AppOK([app EXCEPT !.mode = "normal"], tui'.made + 1)
    BY <2>3 DEF AppOK, Apps, Modes
  <2>6. AppOK(app', tui'.made + 1)
    BY <2>3, <2>4, <2>5
  <2> QED BY <2>1, <2>2, <2>6, AppChanges DEF LoopStates
<1>2. CASE EditorCloses
  <2>1. CASE Ends("failed") /\ UNCHANGED tui
    <3>1. tui' \in Spent /\ tui.made <= tui'.made /\ AppOK(app, tui'.made + 1)
      BY <2>1 DEF TuiIInv, Spent
    <3> QED BY <1>2, <2>1, <3>1, AppChanges DEF Ends, LoopStates, EditorCloses
  <2>2. CASE \E tags \in SUBSET Tags :
               LET i == SelectedNote(app)
                   note == Fresh(tags)
               IN  /\ Store([stored EXCEPT ![i] = note])
                   /\ app' = [app EXCEPT !.notes[i] = note]
                   /\ run' = "keys"
                   /\ tui' = [tui EXCEPT !.made = @ + 1]
    <3>0. PICK i : i = SelectedNote(app)
      OBVIOUS
    <3>1. PICK tags \in SUBSET Tags :
                   /\ stored' = [stored EXCEPT ![i] = Fresh(tags)]
                   /\ app' = [app EXCEPT !.notes[i] = Fresh(tags)]
                   /\ run' = "keys"
                   /\ tui' = [tui EXCEPT !.made = @ + 1]
      BY <2>2, <3>0 DEF Store
    <3>2. tui' \in Spent /\ tui.made <= tui'.made
      BY <3>1 DEF TuiIInv, Spent
    <3>3. PICK n \in Nat : /\ n = tui'.made + 1 /\ stored \in [NoteIds -> ContentsBy(n)]
                           /\ AppOK(app, n) /\ Fresh(tags) \in ContentsBy(n)
      BY <3>2, Grown
    <3>4. stored' \in [NoteIds -> ContentsBy(n)]
      BY <3>1, <3>3
    <3>5. AppOK(app', n)
      BY <3>1, <3>3, PutTyped
    <3> QED BY <1>2, <3>1, <3>2, <3>3, <3>4, <3>5, Changed DEF EditorCloses, LoopStates
  <2> QED BY <1>2, <2>1, <2>2 DEF EditorCloses
<1> QED BY <1>1, <1>2

(* Notes that are created, captured or made by a plugin *)
LEMMA ComesTyped ==
    ASSUME TuiIInv, NEW i \in NoteIds, NEW tags \in SUBSET Tags, Comes(i, Fresh(tags)),
           UNCHANGED views
    PROVE  TuiIInv'
<1>1. /\ stored' = [stored EXCEPT ![i] = Fresh(tags)] /\ run' = "keys"
      /\ app' = [ShowNew(app, i, Fresh(tags)) EXCEPT !.mode = "normal"]
      /\ tui' = [tui EXCEPT !.made = @ + 1]
  BY DEF Comes, Store
<1>2. tui' \in Spent /\ tui.made <= tui'.made
  BY <1>1 DEF TuiIInv, Spent
<1>3. PICK n \in Nat : /\ n = tui'.made + 1 /\ stored \in [NoteIds -> ContentsBy(n)]
                       /\ AppOK(app, n) /\ Fresh(tags) \in ContentsBy(n)
  BY <1>2, Grown
<1>4. stored' \in [NoteIds -> ContentsBy(n)]
  BY <1>1, <1>3
<1>5. AppOK(app', n)
  BY <1>1, <1>3, ShowNewTyped
<1> QED BY <1>1, <1>2, <1>3, <1>4, <1>5, Changed DEF LoopStates

LEMMA PluginTypes ==
    ASSUME TuiIInv, NEW done \in SUBSET NoteIds, NEW tags \in SUBSET Tags, PluginEnds(done, tags)
    PROVE  TuiIInv'
<1> DEFINE Put(notes) == [i \in NoteIds |-> IF i \in done THEN Fresh(tags) ELSE notes[i]]
<1>1. tui' = [tui EXCEPT !.made = @ + 1] /\ UNCHANGED views /\ run' \in {"keys", "failed"}
  BY DEF PluginEnds
<1>2. tui' \in Spent /\ tui.made <= tui'.made
  BY <1>1 DEF TuiIInv, Spent
<1>3. PICK n \in Nat : /\ n = tui'.made + 1 /\ stored \in [NoteIds -> ContentsBy(n)]
                       /\ AppOK(app, n) /\ Fresh(tags) \in ContentsBy(n)
  BY <1>2, Grown
<1>4. \A notes \in [NoteIds -> ContentsBy(n)] : Put(notes) \in [NoteIds -> ContentsBy(n)]
  BY <1>3
<1>5. stored' \in [NoteIds -> ContentsBy(n)]
  <2>1. stored' = stored \/ stored' = Put(stored)
    BY DEF PluginEnds, Store
  <2> QED BY <1>3, <1>4, <2>1
<1>6. PICK b : b = [app EXCEPT !.notes = Put(@)]
  OBVIOUS
<1>7. AppOK(b, n)
  <2>1. PICK notes \in [NoteIds -> ContentsBy(n)] : notes = Put(app.notes)
    BY <1>3, <1>4 DEF AppOK, Apps
  <2>2. b = [app EXCEPT !.notes = notes]
    BY <1>6, <2>1
  <2> QED BY <1>3, <2>2 DEF AppOK, Apps
<1>8. PICK m \in {"normal", "results"} :
         \E d : app' = [d EXCEPT !.mode = m] /\ (d = b \/ \E i : d = AddNote(b, i, Fresh(tags)))
  <2>1. PICK new : new = {i \in done : stored[i].v = 0}
    OBVIOUS
  <2>2. PICK m \in {"normal", "results"} :
           app' = [(IF new = {} THEN b
                    ELSE AddNote(b, CHOOSE i \in new : TRUE, Fresh(tags))) EXCEPT !.mode = m]
    BY <1>6, <2>1 DEF PluginEnds
  <2> QED BY <2>2
<1>9. PICK d : app' = [d EXCEPT !.mode = m] /\ AppOK(d, n)
  BY <1>3, <1>7, <1>8, AddNoteTyped
<1>10. AppOK(app', n)
  BY <1>9 DEF AppOK, Apps, Modes
<1> QED BY <1>1, <1>2, <1>3, <1>5, <1>10, Changed DEF LoopStates

LEMMA NewNotesTyped ==
    ASSUME TuiIInv,
           \/ CreateEnds \/ CapturePromptEnds \/ AddPluginResult
           \/ \E done \in SUBSET NoteIds, tags \in SUBSET Tags : PluginEnds(done, tags)
    PROVE  TuiIInv'
<1>1. CASE CreateEnds \/ CapturePromptEnds
  <2>1. UNCHANGED views
    BY <1>1 DEF CreateEnds, CapturePromptEnds
  <2>2. CASE \E i \in NoteIds, tags \in SUBSET Tags : Comes(i, Fresh(tags))
    BY <2>1, <2>2, ComesTyped
  <2>3. CASE (Ends("failed") \/ Ends("keys")) /\ UNCHANGED tui
    <3>1. tui' \in Spent /\ tui.made <= tui'.made /\ AppOK(app, tui'.made + 1)
      BY <2>3 DEF TuiIInv, Spent
    <3> QED BY <2>1, <2>3, <3>1, AppChanges DEF Ends, LoopStates
  <2> QED BY <1>1, <2>2, <2>3 DEF CreateEnds, CapturePromptEnds
<1>2. CASE AddPluginResult
  <2>1. PressMaking /\ UNCHANGED views
    BY <1>2 DEF AddPluginResult
  <2>2. tui' \in Spent /\ tui'.made = tui.made + 1 /\ tui.made <= tui'.made
    BY <2>1, PressedMaking DEF TuiIInv, Spent
  <2>3. PICK n \in Nat :
           /\ n = tui'.made + 1 /\ stored \in [NoteIds -> ContentsBy(n)] /\ AppOK(app, n)
           /\ \A tags \in SUBSET Tags : Fresh(tags) \in ContentsBy(n)
    BY <2>2, Grown
  <2>4. CASE Ends("failed")
    BY <2>1, <2>2, <2>3, <2>4, AppChanges DEF Ends, LoopStates
  <2>5. CASE /\ \E i \in NoteIds, tags \in SUBSET Tags :
                   /\ Store([stored EXCEPT ![i] = Fresh(tags)])
                   /\ app' = [ShowNew(app, i, Fresh(tags)) EXCEPT !.mode = "normal"]
             /\ run' = "keys"
    <3>1. PICK i \in NoteIds, tags \in SUBSET Tags :
             /\ stored' = [stored EXCEPT ![i] = Fresh(tags)]
             /\ app' = [ShowNew(app, i, Fresh(tags)) EXCEPT !.mode = "normal"]
      BY <2>5 DEF Store
    <3>2. stored' \in [NoteIds -> ContentsBy(n)]
      BY <2>3, <3>1
    <3>3. AppOK(app', n)
      BY <2>3, <3>1, ShowNewTyped
    <3> QED BY <2>1, <2>2, <2>3, <2>5, <3>2, <3>3, Changed DEF LoopStates
  <2> QED BY <1>2, <2>4, <2>5 DEF AddPluginResult
<1> QED BY <1>1, <1>2, PluginTypes

(* The tag picker *)
LEMMA PickerTyped ==
    ASSUME TuiIInv, OpenTagPicker \/ (\E t \in Tags : ToggleTag(t)) \/ ApplyTags PROVE TuiIInv'
<1>1. CASE OpenTagPicker \/ \E t \in Tags : ToggleTag(t)
  <2>1. Press /\ UNCHANGED <<stored, views, run>> /\ AtKeys
    BY <1>1 DEF OpenTagPicker, ToggleTag, AtCommand
  <2>2. tui' \in Spent /\ tui'.made = tui.made /\ tui.made <= tui'.made
    BY <2>1, Pressed DEF TuiIInv, Spent
  <2>3. PICK n \in Nat : n = tui'.made + 1 /\ AppOK(app, n) /\ AppOK(Dispatching, n)
    BY <2>2, Grown
  <2>4. ASSUME NEW tags \in SUBSET Tags, NEW m \in Modes
        PROVE  AppOK([app EXCEPT !.mode = m, !.picked = tags], n) /\ AppOK([app EXCEPT !.picked = tags], n)
    BY <2>3, <2>4 DEF AppOK, Apps
  <2>5. AppOK(app', n)
    <3>1. CASE OpenTagPicker
      <4>1. PICK ids : ids = SelectedNoteIds(app)
        OBVIOUS
      <4>2. ids \subseteq NoteIds
        BY <2>3, <4>1, SelectedIdsTyped DEF AppOK, Apps
      <4>3. UNION {app.notes[i].tags : i \in ids} \in SUBSET Tags
        <5>1. \A i \in ids : app.notes[i].tags \subseteq Tags
          BY <2>3, <4>2 DEF AppOK, Apps, ContentsBy
        <5> QED BY <5>1
      <4>4. PICK tags \in SUBSET Tags : tags = UNION {app.notes[i].tags : i \in ids}
        BY <4>3
      <4>5. app' = Dispatching \/ app' = [app EXCEPT !.mode = "tags", !.picked = tags]
        BY <3>1, <4>1, <4>4 DEF OpenTagPicker
      <4> QED BY <2>3, <2>4, <4>5 DEF Modes
    <3>2. ASSUME NEW t \in Tags, ToggleTag(t) PROVE AppOK(app', n)
      <4>1. PICK tags : tags = (app.picked \ {t}) \cup ({t} \ app.picked)
        OBVIOUS
      <4>2. tags \in SUBSET Tags
        BY <2>3, <4>1 DEF AppOK, Apps
      <4>3. app' = [app EXCEPT !.picked = tags]
        BY <3>2, <4>1 DEF ToggleTag
      <4> QED BY <2>4, <4>2, <4>3 DEF Modes
    <3> QED BY <1>1, <3>1, <3>2
  <2> QED BY <2>1, <2>2, <2>3, <2>5, AppChanges DEF AtKeys, LoopStates
<1>2. CASE ApplyTags
  <2> DEFINE ids == {i \in SelectedNoteIds(app) : app.notes[i].live}
             Tagged(notes, done) == [i \in NoteIds |-> IF i \in done THEN Fresh(app.picked) ELSE notes[i]]
  <2>1. PressMaking /\ UNCHANGED views /\ AtKeys
    BY <1>2 DEF ApplyTags
  <2>2. tui' \in Spent /\ tui'.made = tui.made + 1 /\ tui.made <= tui'.made
    BY <2>1, PressedMaking DEF TuiIInv, Spent
  <2>3. PICK n \in Nat :
           /\ n = tui'.made + 1 /\ stored \in [NoteIds -> ContentsBy(n)] /\ AppOK(app, n)
           /\ \A tags \in SUBSET Tags : Fresh(tags) \in ContentsBy(n)
    BY <2>2, Grown
  <2>4. \A done : \A notes \in [NoteIds -> ContentsBy(n)] : Tagged(notes, done) \in [NoteIds -> ContentsBy(n)]
    <3>1. Fresh(app.picked) \in ContentsBy(n)
      BY <2>3 DEF AppOK, Apps
    <3> QED BY <3>1
  <2>5. /\ \E done : stored' = Tagged(stored, done)
        /\ run' = run \/ run' = "failed"
        /\ app' = [app EXCEPT !.notes = Tagged(@, ids), !.marked = {}, !.mode = "normal",
                              !.picked = {}]
    BY <1>2 DEF ApplyTags, Store
  <2>6. stored' \in [NoteIds -> ContentsBy(n)]
    BY <2>3, <2>4, <2>5
  <2>7. PICK notes \in [NoteIds -> ContentsBy(n)] : notes = Tagged(app.notes, ids)
    BY <2>3, <2>4 DEF AppOK, Apps
  <2>8. app' = [app EXCEPT !.notes = notes, !.marked = {}, !.mode = "normal", !.picked = {}]
    BY <2>5, <2>7
  <2> HIDE DEF ids, Tagged
  <2>9. AppOK(app', n)
    BY <2>3, <2>8 DEF AppOK, Apps, Modes
  <2> QED BY <2>1, <2>2, <2>3, <2>5, <2>6, <2>9, Changed DEF AtKeys, LoopStates
<1> QED BY <1>1, <1>2

LEMMA TuiTypedStep == TuiIInv /\ [TuiNext]_tuiVars => TuiIInv'
<1> SUFFICES ASSUME TuiIInv, [TuiNext]_tuiVars PROVE TuiIInv'
  OBVIOUS
<1>1. CASE UNCHANGED tuiVars
  BY <1>1 DEF tuiVars, TuiIInv, AppOK
<1>2. CASE TuiNext
  BY <1>2, ComingsTyped, RefreshesTyped, MovesTyped, ChangesTyped, EditsTyped, NewNotesTyped,
     PickerTyped DEF TuiNext
<1> QED BY <1>1, <1>2

LEMMA TuiTypedInit == TuiInit => TuiIInv
<1> SUFFICES ASSUME TuiInit PROVE TuiIInv
  OBVIOUS
<1>1. tui \in Spent /\ tui.made \in Nat /\ tui.made + 1 \in Nat /\ 1 <= tui.made + 1
  BY TuiBounds DEF TuiInit, Spent
<1>2. /\ Never \in ContentsBy(tui.made + 1)
      /\ [v |-> 1, tags |-> {}, live |-> TRUE] \in ContentsBy(tui.made + 1)
  BY <1>1 DEF Never, ContentsBy
<1>3. stored \in [NoteIds -> ContentsBy(tui.made + 1)]
  BY <1>2 DEF TuiInit
<1>4. PICK notes \in [NoteIds -> ContentsBy(tui.made + 1)] : notes = Snapshot
  BY <1>2, <1>3 DEF Snapshot
<1>5. app = [notes |-> notes, bin |-> {}, views |-> views, view |-> "all", subview |-> {},
             search |-> {}, narrow |-> {}, reversed |-> FALSE, cursor |-> 0, marked |-> {},
             mode |-> "normal", picked |-> {}, snapshot |-> <<>>]
  BY <1>4 DEF TuiInit
<1>6. /\ views \in Configurations /\ "all" \in ViewNames
      /\ Shown(views, "all", {})
  BY TuiViews DEF TuiInit, Shown, ViewNames
<1>7. AppOK(app, tui.made + 1)
  <2>1. app \in Apps(tui.made + 1)
    BY <1>5, <1>6 DEF Apps, Modes
  <2> QED BY <1>5, <1>6, <2>1 DEF AppOK
<1> QED BY <1>1, <1>3, <1>6, <1>7 DEF TuiInit, TuiIInv, LoopStates

LEMMA TuiTyped == TuiSpec => []TuiTypeOK
<1>1. ASSUME ListIInv, TuiIInv PROVE TuiTypeOK
  <2>1. NoteContent = ContentsBy(tui.made + 1)
    BY DEF NoteContent, ContentsBy
  <2>2. events \in Seq({"content", "status"}) /\ Len(events) <= EventRoom
    BY <1>1 DEF ListIInv, EventsTyped
  <2>3. /\ app.notes \in [NoteIds -> NoteContent] /\ app.bin \subseteq NoteIds
        /\ app.cursor \in Nat /\ app.marked \subseteq NoteIds /\ app.narrow \subseteq Tags
        /\ app.views \in Configurations /\ app.view \in DOMAIN app.views
        /\ app.subview \subseteq app.views[app.view].subviews
        /\ app.search \subseteq Tags /\ app.mode \in Modes
    BY <1>1, <2>1 DEF TuiIInv, AppOK, Apps, Shown
  <2> QED BY <1>1, <2>1, <2>2, <2>3 DEF TuiIInv, TuiTypeOK, Modes, LoopStates
<1> QED BY <1>1, ListInit, ListNext, TuiTypedInit, TuiTypedStep, PTL DEF TuiSpec

-----------------------------------------------------------------------------
(***************************************************************************)
(* BrowserSignIn: the refresh token a browser keeps is one the provider    *)
(* takes. Tabs store what they were answered in any order. It is right all *)
(* the same: an answer that was not stored yet is of a token no other tab  *)
(* has, so nobody can have used it up.                                     *)
(***************************************************************************)

Storing == {"saveCode", "save"}

TabStates == [at : {"idle", "config", "exchange", "tokens", "refresh"} \cup Storing,
              shows : {"nothing", "provider", "app", "offline", "error"},
              state : Nat, code : Nat, got : Nat]

Luck == [tokens : Nat, made : Nat, loads : Nat, expiries : Nat, failures : Nat, closes : Nat,
         rotates : BOOLEAN]

(* What a tab is about to store is taken by the provider, and is its own.  *)
OwnAnswer(t) ==
    \/ tab[t].got = 0
    \/ /\ tab[t].got \in taken
       /\ luckLeft.rotates => /\ tab[t].got # kept.refresh
                              /\ \A u \in Tabs \ {t} : tab[u].got # tab[t].got

BrowserIInv ==
    /\ luckLeft \in Luck /\ tab \in [Tabs -> TabStates]
    /\ kept \in [refresh : Nat, fresh : BOOLEAN, tokens : BOOLEAN, flag : BOOLEAN]
    /\ taken \subseteq 1 .. luckLeft.made /\ kept.refresh <= luckLeft.made
    /\ spoiled \in BOOLEAN
    /\ \A t \in Tabs : tab[t].got <= luckLeft.made
    /\ \A t \in Tabs : Stores(t) => OwnAnswer(t)
    /\ BrowserTokenLive

LEMMA NoTabState == NoTab \in TabStates /\ NoTab.at = "idle" /\ NoTab.got = 0
BY DEF NoTab, TabStates, Storing

(* At the start nothing is kept. *)
LEMMA BrowserInitIInv == BrowserSignInInit => BrowserIInv
<1> SUFFICES ASSUME BrowserSignInInit PROVE BrowserIInv
  OBVIOUS
<1>1. luckLeft \in Luck /\ luckLeft.made = 0
  BY BrowserSignInAssumption DEF BrowserSignInInit, Luck
<1>2. /\ kept \in [refresh : Nat, fresh : BOOLEAN, tokens : BOOLEAN, flag : BOOLEAN]
      /\ kept.refresh = 0
  BY DEF BrowserSignInInit, Nothing
<1>3. tab \in [Tabs -> TabStates] /\ \A t \in Tabs : tab[t].at = "idle" /\ tab[t].got = 0
  BY NoTabState DEF BrowserSignInInit
<1>4. taken = {} /\ spoiled = FALSE
  BY DEF BrowserSignInInit
<1>5. \A t \in Tabs : tab[t].got <= luckLeft.made /\ ~Stores(t)
  BY <1>1, <1>3 DEF Stores
<1>6. kept.refresh <= luckLeft.made /\ BrowserTokenLive
  BY <1>1, <1>2 DEF BrowserTokenLive
<1> QED BY <1>1, <1>2, <1>3, <1>4, <1>5, <1>6 DEF BrowserIInv

(* A tab that has nothing to store takes a step and has nothing to store   *)
(* after it; what it knows is no other tab's answer.                       *)
LEMMA QuietTab ==
    ASSUME BrowserIInv, NEW t \in Tabs, ~Stores(t),
           tab' \in [Tabs -> TabStates], \A u \in Tabs \ {t} : tab'[u] = tab[u],
           tab'[t].at \notin Storing,
           tab'[t].got \in {0, tab[t].got, kept.refresh},
           kept' \in [refresh : Nat, fresh : BOOLEAN, tokens : BOOLEAN, flag : BOOLEAN],
           kept'.refresh = kept.refresh,
           UNCHANGED taken, spoiled' \in BOOLEAN, spoiled => spoiled',
           luckLeft' \in Luck, luckLeft.made <= luckLeft'.made,
           luckLeft'.rotates = luckLeft.rotates
    PROVE  BrowserIInv'
<1> USE DEF BrowserIInv
<1>1. taken' \subseteq 1 .. luckLeft'.made /\ kept'.refresh <= luckLeft'.made
  BY DEF Luck
<1>2. ~Stores(t)' /\ \A u \in Tabs \ {t} : Stores(u)' <=> Stores(u)
  BY DEF Stores, Storing
<1>3. \A u \in Tabs : tab'[u].got <= luckLeft'.made
  <2> SUFFICES ASSUME NEW u \in Tabs PROVE tab'[u].got <= luckLeft'.made
    OBVIOUS
  <2>1. tab'[u].got \in Nat /\ tab[u].got \in Nat /\ tab[t].got \in Nat
    BY DEF TabStates
  <2>2. tab'[u].got <= luckLeft.made
    BY <2>1 DEF Luck
  <2> QED BY <2>1, <2>2 DEF Luck
<1>4. ASSUME NEW u \in Tabs, Stores(u)' PROVE OwnAnswer(u)'
  <2>1. u # t /\ Stores(u) /\ tab'[u] = tab[u]
    BY <1>2, <1>4
  <2>2. OwnAnswer(u)
    BY <2>1
  <2>3. \A v \in Tabs \ {u} : tab'[v].got \in {0, tab[v].got, kept.refresh}
    OBVIOUS
  <2> QED BY <2>1, <2>2, <2>3 DEF OwnAnswer
<1>5. BrowserTokenLive'
  BY <1>2 DEF BrowserTokenLive
<1> QED BY <1>1, <1>3, <1>4, <1>5

(* A tab is answered with a new token, or with none, or with the one it    *)
(* used where that one stays valid; the one it used may be gone.           *)
LEMMA AnsweredTab ==
    ASSUME BrowserIInv, NEW t \in Tabs, NEW used \in Nat, NEW next \in Storing,
           ~Stores(t), ProviderAnswers(t, used, next),
           used = 0 \/ (used = tab[t].got /\ used \in taken),
           UNCHANGED <<kept, spoiled>>
    PROVE  BrowserIInv'
<1> USE DEF BrowserIInv
<1>1. PICK got \in Nat : tab' = [tab EXCEPT ![t].at = next, ![t].got = got]
  BY DEF ProviderAnswers, Luck
<1>2. /\ tab' \in [Tabs -> TabStates] /\ tab'[t].at = next /\ tab'[t].got = got
      /\ \A u \in Tabs \ {t} : tab'[u] = tab[u]
  <2>1. tab \in [Tabs -> TabStates]
    OBVIOUS
  <2>2. PICK p \in TabStates : p = [tab[t] EXCEPT !.at = next, !.got = got]
    BY <2>1 DEF TabStates
  <2>3. tab' = [tab EXCEPT ![t] = p] /\ p.at = next /\ p.got = got
    BY <1>1, <2>1, <2>2 DEF TabStates
  <2> QED BY <2>1, <2>3
<1>3. Stores(t)' /\ \A u \in Tabs \ {t} : Stores(u)' <=> Stores(u)
  BY <1>2 DEF Stores, Storing
<1>4. BrowserTokenLive'
  BY <1>3 DEF BrowserTokenLive
<1>5. \A u \in Tabs : tab[u].got \in Nat /\ tab[u].got < luckLeft.made + 1
  BY DEF TabStates, Luck
<1>6. CASE /\ used = 0 \/ luckLeft.rotates
           /\ luckLeft' = [luckLeft EXCEPT !.made = @ + 1]
           /\ taken' = (taken \ {used}) \cup {luckLeft.made + 1}
           /\ tab' = [tab EXCEPT ![t].at = next, ![t].got = luckLeft.made + 1]
  <2>1. /\ luckLeft' \in Luck /\ luckLeft'.made = luckLeft.made + 1
        /\ luckLeft'.rotates = luckLeft.rotates /\ luckLeft.made \in Nat
    BY <1>6 DEF Luck
  <2>2. tab'[t].got = luckLeft.made + 1
    BY <1>6 DEF TabStates
  <2>3. taken' \subseteq 1 .. luckLeft'.made /\ kept'.refresh <= luckLeft'.made
    BY <1>6, <2>1
  <2>4. \A u \in Tabs : tab'[u].got <= luckLeft'.made
    BY <1>2, <1>5, <2>1, <2>2
  <2>5. OwnAnswer(t)'
    BY <1>2, <1>5, <1>6, <2>1, <2>2 DEF OwnAnswer
  <2>6. ASSUME NEW u \in Tabs \ {t}, Stores(u)' PROVE OwnAnswer(u)'
    <3>1. OwnAnswer(u) /\ tab'[u] = tab[u]
      BY <1>2, <1>3, <2>6
    <3>2. CASE tab[u].got = 0
      BY <3>1, <3>2 DEF OwnAnswer
    <3>3. CASE tab[u].got # 0
      <4>1. tab[u].got \in taken /\ tab[u].got # used
        BY <1>6, <3>1, <3>3 DEF OwnAnswer
      <4>2. tab[u].got \in taken'
        BY <1>6, <4>1
      <4>3. tab'[t].got # tab'[u].got
        BY <1>5, <2>2, <3>1
      <4>4. luckLeft.rotates => \A v \in Tabs \ {u} : tab'[v].got # tab'[u].got
        BY <1>2, <3>1, <3>3, <4>3 DEF OwnAnswer
      <4>5. luckLeft.rotates => tab[u].got # kept'.refresh
        BY <3>1, <3>3 DEF OwnAnswer
      <4> QED BY <2>1, <3>1, <4>2, <4>4, <4>5 DEF OwnAnswer
    <3> QED BY <3>2, <3>3
  <2> QED BY <1>2, <1>4, <2>1, <2>3, <2>4, <2>5, <2>6
<1>7. CASE /\ used = 0 \/ ~luckLeft.rotates
           /\ tab' = [tab EXCEPT ![t].at = next, ![t].got = used]
           /\ UNCHANGED <<taken, luckLeft>>
  <2>1. tab'[t].got = used
    BY <1>7 DEF TabStates
  <2>2. \A u \in Tabs : tab'[u].got <= luckLeft'.made
    BY <1>2, <1>7, <2>1 DEF Luck
  <2>3. OwnAnswer(t)'
    BY <1>7, <2>1 DEF OwnAnswer
  <2>4. ASSUME NEW u \in Tabs \ {t}, Stores(u)' PROVE OwnAnswer(u)'
    <3>1. OwnAnswer(u) /\ tab'[u] = tab[u]
      BY <1>2, <1>3, <2>4
    <3>2. luckLeft.rotates => tab'[t].got = 0
      BY <1>7, <2>1
    <3> QED BY <1>2, <1>7, <3>1, <3>2 DEF OwnAnswer
  <2> QED BY <1>2, <1>4, <1>7, <2>2, <2>3, <2>4
<1> QED BY <1>6, <1>7 DEF ProviderAnswers

(* A tab stores its answer: it is taken, and differs from what others have *)
(* to store.                                                               *)
LEMMA StoringTab ==
    ASSUME BrowserIInv, NEW t \in Tabs, Stores(t),
           kept' \in [refresh : Nat, fresh : BOOLEAN, tokens : BOOLEAN, flag : BOOLEAN],
           kept'.refresh = tab[t].got,
           tab' \in [Tabs -> TabStates], \A u \in Tabs \ {t} : tab'[u] = tab[u],
           tab'[t].at \notin Storing, tab'[t].got = 0,
           spoiled' \in BOOLEAN, UNCHANGED <<taken, luckLeft>>
    PROVE  BrowserIInv'
<1> USE DEF BrowserIInv
<1>1. ~Stores(t)' /\ OwnAnswer(t)
  BY DEF Stores, Storing
<1>2. \A u \in Tabs : tab'[u].got <= luckLeft'.made
  BY DEF Luck
<1>3. ASSUME NEW u \in Tabs, Stores(u)' PROVE OwnAnswer(u)'
  <2>1. u # t /\ tab'[u] = tab[u] /\ OwnAnswer(u)
    BY <1>1, <1>3 DEF Stores
  <2> QED BY <2>1 DEF OwnAnswer
<1>4. BrowserTokenLive'
  BY <1>1 DEF BrowserTokenLive, OwnAnswer
<1> QED BY <1>2, <1>3, <1>4

(* A tab goes; what it had to store is lost, or nothing is kept any more.  *)
LEMMA GoneTab ==
    ASSUME BrowserIInv, NEW t \in Tabs, CloseTab(t) \/ Wipe(t)
    PROVE  BrowserIInv'
<1> USE DEF BrowserIInv
<1>1. /\ tab' \in [Tabs -> TabStates] /\ tab'[t].got = 0 /\ tab'[t].at = "idle"
      /\ \A u \in Tabs \ {t} : tab'[u] = tab[u]
  BY NoTabState DEF CloseTab, Wipe
<1>2. /\ luckLeft' \in Luck /\ luckLeft'.made = luckLeft.made
      /\ luckLeft'.rotates = luckLeft.rotates /\ taken' = taken
  BY DEF CloseTab, Wipe, Luck
<1>3. ~Stores(t)' /\ \A u \in Tabs \ {t} : Stores(u)' <=> Stores(u)
  BY <1>1 DEF Stores
<1>4. /\ kept' \in [refresh : Nat, fresh : BOOLEAN, tokens : BOOLEAN, flag : BOOLEAN]
      /\ kept'.refresh \in {0, kept.refresh}
  <2>1. CASE kept' = kept
    BY <2>1
  <2>2. CASE kept' = Nothing
    <3>1. /\ Nothing \in [refresh : Nat, fresh : BOOLEAN, tokens : BOOLEAN, flag : BOOLEAN]
          /\ Nothing.refresh = 0
      BY DEF Nothing
    <3> QED BY <2>2, <3>1
  <2> QED BY <2>1, <2>2 DEF CloseTab, Wipe
<1>5. \A u \in Tabs : tab'[u].got <= luckLeft'.made
  BY <1>1, <1>2 DEF Luck
<1>6. ASSUME NEW u \in Tabs, Stores(u)' PROVE OwnAnswer(u)'
  <2>1. u # t /\ tab'[u] = tab[u] /\ OwnAnswer(u)
    BY <1>1, <1>3, <1>6
  <2> QED BY <1>1, <1>2, <1>4, <2>1 DEF OwnAnswer
<1>7. BrowserTokenLive' /\ spoiled' \in BOOLEAN
  <2>1. CASE CloseTab(t)
    <3>1. kept' = kept /\ (spoiled' = (spoiled \/ Stores(t)))
      BY <2>1 DEF CloseTab
    <3>2. BrowserTokenLive'
      BY <1>2, <1>3, <3>1 DEF BrowserTokenLive
    <3> QED BY <3>1, <3>2 DEF Stores
  <2>2. CASE Wipe(t)
    BY <2>2 DEF Wipe, Nothing, BrowserTokenLive
  <2> QED BY <2>1, <2>2
<1>8. kept'.refresh <= luckLeft'.made
  BY <1>2, <1>4 DEF Luck
<1> QED BY <1>1, <1>2, <1>4, <1>5, <1>6, <1>7, <1>8

(* authenticate ends without a token, where there was none to store.       *)
LEMMA FailingTab ==
    ASSUME BrowserIInv, NEW t \in Tabs, NEW offline, ~Stores(t), Fails(t, offline),
           UNCHANGED <<kept, taken, spoiled>>, luckLeft' \in Luck,
           luckLeft'.made = luckLeft.made, luckLeft'.rotates = luckLeft.rotates
    PROVE  BrowserIInv'
<1> USE DEF BrowserIInv
<1> DEFINE shows == IF tab[t].shows \in {"app", "offline"} THEN tab[t].shows
                    ELSE IF offline THEN "offline" ELSE "error"
           next == [[tab[t] EXCEPT !.at = "idle"] EXCEPT !.shows = shows]
<1>1. tab[t] \in TabStates
  OBVIOUS
<1>2. tab' = [tab EXCEPT ![t] = next]
  BY <1>1 DEF Fails, TabStates
<1>3. next \in TabStates /\ next.at = "idle" /\ next.got = tab[t].got
  BY <1>1 DEF TabStates
<1>4. luckLeft.made <= luckLeft'.made
  BY DEF Luck
<1> HIDE DEF next
<1> QED BY <1>2, <1>3, <1>4, QuietTab DEF Storing

(* Steps of a tab that has nothing to store and will not have.             *)
LEMMA QuietSteps ==
    ASSUME BrowserIInv, NEW t \in Tabs,
           \/ \E code \in 0 .. luckLeft.made : Load(t, code)
           \/ Timer(t) \/ NoConfiguration(t) \/ NoDiscovery(t) \/ Discovered(t)
    PROVE  BrowserIInv'
<1> USE DEF BrowserIInv
<1>1. /\ ~Stores(t) /\ UNCHANGED <<kept, taken, spoiled>>
      /\ luckLeft' \in Luck /\ luckLeft'.made = luckLeft.made
      /\ luckLeft'.rotates = luckLeft.rotates
  <2>1. ~Stores(t) /\ UNCHANGED <<kept, taken, spoiled>>
    BY DEF Load, Timer, NoConfiguration, NoDiscovery, Discovered, Stores
  <2>2. \/ UNCHANGED luckLeft
        \/ luckLeft.loads > 0 /\ luckLeft' = [luckLeft EXCEPT !.loads = @ - 1]
        \/ luckLeft.failures > 0 /\ luckLeft' = [luckLeft EXCEPT !.failures = @ - 1]
    BY DEF Load, Timer, NoConfiguration, NoDiscovery, Discovered
  <2> QED BY <2>1, <2>2 DEF Luck
<1>2. ASSUME NEW next \in TabStates, tab' = [tab EXCEPT ![t] = next],
             next.at \notin Storing, next.got = tab[t].got
      PROVE  BrowserIInv'
  <2>1. /\ tab' \in [Tabs -> TabStates] /\ tab'[t] = next
        /\ \A u \in Tabs \ {t} : tab'[u] = tab[u]
    BY <1>2
  <2>2. luckLeft.made <= luckLeft'.made
    BY <1>1 DEF Luck
  <2> QED BY <1>1, <1>2, <2>1, <2>2, QuietTab
<1>3. ASSUME NEW offline, Fails(t, offline) PROVE BrowserIInv'
  BY <1>1, <1>3, FailingTab
<1>4. ASSUME NEW at \in {"config", "tokens", "exchange"}, At(t, at) PROVE BrowserIInv'
  <2>1. tab' = [tab EXCEPT ![t] = [tab[t] EXCEPT !.at = at]]
    BY <1>4 DEF At
  <2>2. /\ [tab[t] EXCEPT !.at = at] \in TabStates /\ [tab[t] EXCEPT !.at = at].at = at
        /\ [tab[t] EXCEPT !.at = at].got = tab[t].got
    BY DEF TabStates
  <2> QED BY <1>2, <2>1, <2>2 DEF Storing
<1>5. ASSUME NEW code \in 0 .. luckLeft.made, Load(t, code) PROVE BrowserIInv'
  <2> DEFINE next == [[[tab[t] EXCEPT !.at = "config"] EXCEPT !.shows = "nothing"]
                        EXCEPT !.code = code]
  <2>1. tab[t] \in TabStates /\ code \in Nat
    BY DEF Luck
  <2>2. tab' = [tab EXCEPT ![t] = next]
    BY <1>5, <2>1 DEF Load, TabStates
  <2>3. next \in TabStates /\ next.at = "config" /\ next.got = tab[t].got
    BY <2>1 DEF TabStates
  <2> HIDE DEF next
  <2> QED BY <1>2, <2>2, <2>3 DEF Storing
<1>6. CASE Timer(t)
  BY <1>4, <1>6 DEF Timer
<1>7. CASE NoConfiguration(t) \/ NoDiscovery(t)
  BY <1>3, <1>7 DEF NoConfiguration, NoDiscovery
<1>8. CASE Discovered(t)
  BY <1>3, <1>4, <1>8 DEF Discovered
<1> QED BY <1>5, <1>6, <1>7, <1>8

(* A tab begins a sign-in: it has nothing to store, before and after.      *)
LEMMA BeginningTab ==
    ASSUME BrowserIInv, NEW t \in Tabs, ~Stores(t), BeginAuthorization(t)
    PROVE  /\ tab' \in [Tabs -> TabStates] /\ \A u \in Tabs \ {t} : tab'[u] = tab[u]
           /\ tab'[t].at = "idle" /\ tab'[t].got = 0
<1> DEFINE next == [[NoTab EXCEPT !.shows = "provider"] EXCEPT !.state = luckLeft.made + 1]
<1>1. luckLeft.made + 1 \in Nat
  BY DEF BrowserIInv, Luck
<1>2. next \in TabStates /\ next.at = "idle" /\ next.got = 0
  BY <1>1, NoTabState DEF TabStates
<1>3. tab' = [tab EXCEPT ![t] = next]
  BY DEF BeginAuthorization
<1> HIDE DEF next
<1> QED BY <1>2, <1>3 DEF BrowserIInv

(* A code is exchanged; what came is kept.                                 *)
LEMMA CodeSteps ==
    ASSUME BrowserIInv, NEW t \in Tabs, Exchange(t) \/ SaveCode(t)
    PROVE  BrowserIInv'
<1>1. CASE Exchange(t)
  <2>1. ~Stores(t) /\ UNCHANGED <<kept, spoiled>>
    BY <1>1 DEF Exchange, Stores
  <2>2. CASE ProviderAnswers(t, 0, "saveCode")
    BY <2>1, <2>2, AnsweredTab DEF Storing
  <2>3. CASE Fails(t, FALSE) /\ UNCHANGED <<taken, luckLeft>>
    BY <2>1, <2>3, FailingTab DEF BrowserIInv
  <2> QED BY <1>1, <2>2, <2>3 DEF Exchange
<1>2. CASE SaveCode(t)
  <2> DEFINE next == [[[[tab[t] EXCEPT !.at = "tokens"] EXCEPT !.state = 0] EXCEPT !.code = 0]
                        EXCEPT !.got = 0]
  <2>1. tab[t] \in TabStates /\ Stores(t)
    BY <1>2 DEF BrowserIInv, SaveCode, Stores
  <2>2. tab' = [tab EXCEPT ![t] = next]
    BY <1>2, <2>1 DEF SaveCode, TabStates, BrowserIInv
  <2>3. next \in TabStates /\ next.at = "tokens" /\ next.got = 0
    BY <2>1 DEF TabStates
  <2>4. /\ kept' \in [refresh : Nat, fresh : BOOLEAN, tokens : BOOLEAN, flag : BOOLEAN]
        /\ kept'.refresh = tab[t].got
    BY <1>2, <2>1 DEF SaveCode, BrowserIInv, TabStates
  <2>5. spoiled' \in BOOLEAN /\ UNCHANGED <<taken, luckLeft>>
    BY <1>2 DEF SaveCode
  <2>6. /\ tab' \in [Tabs -> TabStates] /\ tab'[t] = next
        /\ \A u \in Tabs \ {t} : tab'[u] = tab[u]
    <3> HIDE DEF next
    <3> QED BY <2>2, <2>3 DEF BrowserIInv
  <2>7. tab'[t].at \notin Storing /\ tab'[t].got = 0
    <3> HIDE DEF next
    <3> QED BY <2>3, <2>6 DEF Storing
  <2> HIDE DEF next
  <2> QED BY <2>1, <2>4, <2>5, <2>6, <2>7, StoringTab
<1> QED BY <1>1, <1>2

(* The kept tokens are used, or a sign-in begins. *)
LEMMA LoadStep == ASSUME BrowserIInv, NEW t \in Tabs, LoadTokens(t) PROVE BrowserIInv'
<1> USE DEF BrowserIInv
<1>1. ~Stores(t) /\ UNCHANGED <<taken, spoiled>> /\ tab[t] \in TabStates
  BY DEF LoadTokens, Stores
<1>2. CASE SignedIn(t) /\ UNCHANGED luckLeft
  <2> DEFINE next == [[[tab[t] EXCEPT !.at = "idle"] EXCEPT !.shows = "app"] EXCEPT !.got = 0]
  <2>1. next \in TabStates /\ next.at = "idle" /\ next.got = 0
    BY <1>1 DEF TabStates
  <2>2. tab' = [tab EXCEPT ![t] = next]
    BY <1>1, <1>2 DEF SignedIn, TabStates
  <2>3. /\ kept' \in [refresh : Nat, fresh : BOOLEAN, tokens : BOOLEAN, flag : BOOLEAN]
        /\ kept'.refresh = kept.refresh
    BY <1>2 DEF SignedIn
  <2>4. luckLeft.made <= luckLeft'.made
    BY <1>2 DEF Luck
  <2> HIDE DEF next
  <2>5. /\ tab' \in [Tabs -> TabStates] /\ tab'[t] = next
        /\ \A u \in Tabs \ {t} : tab'[u] = tab[u]
    BY <2>1, <2>2
  <2> QED BY <1>1, <1>2, <2>1, <2>3, <2>4, <2>5, QuietTab DEF Storing
<1>3. CASE /\ tab' = [tab EXCEPT ![t].at = "refresh", ![t].got = kept.refresh]
           /\ UNCHANGED <<kept, luckLeft>>
  <2> DEFINE next == [[tab[t] EXCEPT !.at = "refresh"] EXCEPT !.got = kept.refresh]
  <2>1. next \in TabStates /\ next.at = "refresh" /\ next.got = kept.refresh
    BY <1>1 DEF TabStates
  <2>2. tab' = [tab EXCEPT ![t] = next]
    BY <1>1, <1>3 DEF TabStates
  <2>3. luckLeft.made <= luckLeft'.made
    BY <1>3 DEF Luck
  <2> HIDE DEF next
  <2>4. /\ tab' \in [Tabs -> TabStates] /\ tab'[t] = next
        /\ \A u \in Tabs \ {t} : tab'[u] = tab[u]
    BY <2>1, <2>2
  <2> QED BY <1>1, <1>3, <2>1, <2>3, <2>4, QuietTab DEF Storing
<1>4. CASE /\ BeginAuthorization(t) /\ luckLeft' = [luckLeft EXCEPT !.made = @ + 1]
           /\ UNCHANGED kept
  <2>1. /\ luckLeft' \in Luck /\ luckLeft.made <= luckLeft'.made
        /\ luckLeft'.rotates = luckLeft.rotates
    BY <1>4 DEF Luck
  <2> QED BY <1>1, <1>4, <2>1, BeginningTab, QuietTab DEF Storing
<1> QED BY <1>2, <1>3, <1>4 DEF LoadTokens

(* A refresh is answered, or its answer is lost and a sign-in begins.      *)
LEMMA RefreshStep == ASSUME BrowserIInv, NEW t \in Tabs, RefreshTokens(t) PROVE BrowserIInv'
<1> USE DEF BrowserIInv
<1>1. ~Stores(t) /\ UNCHANGED kept /\ tab[t].got \in Nat
  BY DEF RefreshTokens, Stores, TabStates
<1>2. CASE tab[t].got \in taken /\ ProviderAnswers(t, tab[t].got, "save") /\ UNCHANGED spoiled
  BY <1>1, <1>2, AnsweredTab DEF Storing
<1>3. CASE /\ BeginAuthorization(t) /\ luckLeft' = [luckLeft EXCEPT !.made = @ + 1]
           /\ UNCHANGED <<taken, spoiled>>
  <2>1. /\ luckLeft' \in Luck /\ luckLeft.made <= luckLeft'.made
        /\ luckLeft'.rotates = luckLeft.rotates
    BY <1>3 DEF Luck
  <2> QED BY <1>1, <1>3, <2>1, BeginningTab, QuietTab DEF Storing
<1>4. CASE /\ BeginAuthorization(t) /\ luckLeft.failures > 0 /\ spoiled' = TRUE
           /\ luckLeft' = [luckLeft EXCEPT !.made = @ + 1, !.failures = @ - 1]
           /\ taken' \in {taken, IF luckLeft.rotates THEN taken \ {tab[t].got} ELSE taken}
  <2>1. /\ luckLeft' \in Luck /\ luckLeft'.made = luckLeft.made + 1
        /\ luckLeft'.rotates = luckLeft.rotates /\ luckLeft.made \in Nat
    <3>1. luckLeft \in Luck /\ luckLeft.made + 1 \in Nat /\ luckLeft.failures - 1 \in Nat
      BY <1>4 DEF Luck
    <3> QED BY <1>4, <3>1 DEF Luck
  <2>2. /\ tab' \in [Tabs -> TabStates] /\ \A u \in Tabs \ {t} : tab'[u] = tab[u]
        /\ tab'[t].at = "idle" /\ tab'[t].got = 0
    BY <1>1, <1>4, BeginningTab
  <2>3. \A u \in Tabs : tab'[u].got <= luckLeft'.made
    BY <2>1, <2>2 DEF TabStates
  <2>4. ASSUME NEW u \in Tabs, Stores(u)' PROVE OwnAnswer(u)'
    <3>1. u # t /\ Stores(u) /\ OwnAnswer(u) /\ tab'[u] = tab[u]
      BY <2>2, <2>4 DEF Stores
    <3>2. CASE tab[u].got = 0
      BY <3>1, <3>2 DEF OwnAnswer
    <3>3. CASE tab[u].got # 0
      <4>1. tab[u].got \in taken'
        BY <1>4, <3>1, <3>3 DEF OwnAnswer
      <4>2. luckLeft.rotates => /\ tab[u].got # kept.refresh
                                /\ \A v \in Tabs \ {u} : tab'[v].got # tab[u].got
        BY <2>2, <3>1, <3>3 DEF OwnAnswer
      <4> QED BY <1>1, <2>1, <3>1, <4>1, <4>2 DEF OwnAnswer
    <3> QED BY <3>2, <3>3
  <2>5. taken' \subseteq 1 .. luckLeft'.made /\ kept'.refresh <= luckLeft'.made
    BY <1>1, <1>4, <2>1
  <2>6. BrowserTokenLive'
    BY <1>4 DEF BrowserTokenLive
  <2> QED BY <1>1, <1>4, <2>1, <2>2, <2>3, <2>4, <2>5, <2>6
<1> QED BY <1>2, <1>3, <1>4 DEF RefreshTokens

(* What a refresh was answered is stored. *)
LEMMA SaveStep == ASSUME BrowserIInv, NEW t \in Tabs, SaveTokens(t) PROVE BrowserIInv'
<1> USE DEF BrowserIInv
<1> DEFINE next == [[[tab[t] EXCEPT !.at = "idle"] EXCEPT !.shows = "app"] EXCEPT !.got = 0]
<1>1. tab[t] \in TabStates /\ Stores(t) /\ UNCHANGED <<taken, spoiled, luckLeft>>
  BY DEF SaveTokens, Stores
<1>2. next \in TabStates /\ next.at = "idle" /\ next.got = 0
  BY <1>1 DEF TabStates
<1>3. tab' = [tab EXCEPT ![t] = next]
  BY <1>1 DEF SaveTokens, TabStates
<1>4. /\ kept' \in [refresh : Nat, fresh : BOOLEAN, tokens : BOOLEAN, flag : BOOLEAN]
      /\ kept'.refresh = tab[t].got
  BY <1>1 DEF SaveTokens, TabStates
<1> HIDE DEF next
<1>5. /\ tab' \in [Tabs -> TabStates] /\ tab'[t] = next
      /\ \A u \in Tabs \ {t} : tab'[u] = tab[u]
  BY <1>2, <1>3
<1> QED BY <1>1, <1>2, <1>4, <1>5, StoringTab DEF Storing

(* The access token expires; nothing of refresh tokens changes.            *)
LEMMA ExpireStep == ASSUME BrowserIInv, BrowserExpire PROVE BrowserIInv'
<1> USE DEF BrowserIInv
<1>1. /\ kept' \in [refresh : Nat, fresh : BOOLEAN, tokens : BOOLEAN, flag : BOOLEAN]
      /\ kept'.refresh = kept.refresh /\ UNCHANGED <<tab, taken, spoiled>>
  BY DEF BrowserExpire
<1>2. /\ luckLeft' \in Luck /\ luckLeft'.made = luckLeft.made
      /\ luckLeft'.rotates = luckLeft.rotates
  BY DEF BrowserExpire, Luck
<1>3. BrowserTokenLive'
  BY <1>1 DEF BrowserTokenLive, Stores
<1>4. \A t \in Tabs : Stores(t)' => OwnAnswer(t)'
  BY <1>1, <1>2 DEF Stores, OwnAnswer
<1> QED BY <1>1, <1>2, <1>3, <1>4

(* The invariant is inductive. *)
LEMMA BrowserStep == BrowserIInv /\ [BrowserSignInNext]_browserSignInVars => BrowserIInv'
<1> SUFFICES ASSUME BrowserIInv, [BrowserSignInNext]_browserSignInVars PROVE BrowserIInv'
  OBVIOUS
<1>1. CASE UNCHANGED browserSignInVars
  <2>1. UNCHANGED <<kept, tab, taken, spoiled, luckLeft>>
    BY <1>1 DEF browserSignInVars
  <2> QED BY <2>1 DEF BrowserIInv, BrowserTokenLive, Stores, OwnAnswer
<1>2. ASSUME NEW t \in Tabs,
             \/ \E code \in 0 .. luckLeft.made : Load(t, code)
             \/ Timer(t) \/ NoConfiguration(t) \/ NoDiscovery(t) \/ Discovered(t)
             \/ Exchange(t) \/ SaveCode(t) \/ LoadTokens(t) \/ RefreshTokens(t)
             \/ SaveTokens(t) \/ CloseTab(t) \/ Wipe(t)
      PROVE  BrowserIInv'
  BY <1>2, QuietSteps, CodeSteps, LoadStep, RefreshStep, SaveStep, GoneTab
<1>3. CASE BrowserExpire
  BY <1>3, ExpireStep
<1> QED BY <1>1, <1>2, <1>3 DEF BrowserSignInNext

(* The refresh token in the browser is one the provider takes, whichever   *)
(* tab signs in, refreshes and stores last, but for an answer that is      *)
(* still to be stored or was lost.                                         *)
THEOREM BrowserTokenStaysLive == BrowserSignInSpec => []BrowserTokenLive
<1>1. BrowserIInv => BrowserTokenLive
  BY DEF BrowserIInv
<1> QED BY BrowserInitIInv, BrowserStep, <1>1, PTL DEF BrowserSignInSpec

-----------------------------------------------------------------------------
(***************************************************************************)
(* NativeSignIn: the refresh token in the file is one the provider takes.  *)
(* Of a server that no step has spoiled at most one program has tokens     *)
(* still to save, and those are what the provider takes; without one, what *)
(* is on disk is.                                                          *)
(***************************************************************************)

Issued == 0 .. left.issued
HeldTokens == [access : Issued, refresh : Issued]

ProgramStates == [at : {"out", "discover", "refresh", "login", "save", "running"},
                  copy : [Servers -> HeldTokens], got : HeldTokens]

Spend == [tokens : Nat, expiries : Nat, failures : Nat, stops : Nat, starts : Nat, issued : Nat]

SignInTypes ==
    /\ left \in Spend
    /\ authFile \in [Servers -> HeldTokens] /\ alive \in [Servers -> Issued]
    /\ program \in [Programs -> ProgramStates]
    /\ valid \subseteq 1 .. left.issued /\ excused \subseteq Servers

Saving(p, s) == program[p].at = "save" /\ Server1(p) = s

(* The entry of a server is right on disk or with the one about to save it.*)
Kept(s) ==
    /\ \A p, q \in Programs : Saving(p, s) /\ Saving(q, s) => p = q
    /\ \A p \in Programs : Saving(p, s) => program[p].got.refresh = alive[s]
    /\ (\A p \in Programs : ~Saving(p, s)) => authFile[s].refresh = alive[s]

SignInIInv == SignInTypes /\ \A s \in Servers \ excused : Kept(s)

(* At the start nothing is saved and the provider takes nothing. *)
LEMMA NativeInitIInv == SignInInit => SignInIInv
<1> SUFFICES ASSUME SignInInit PROVE SignInIInv
  OBVIOUS
<1>1. left \in Spend /\ left.issued = 0
  BY SignInAssumption DEF SignInInit, Spend
<1>2. NoToken \in HeldTokens /\ Out \in ProgramStates /\ Out.at = "out"
  BY <1>1 DEF NoToken, HeldTokens, Issued, Out, ProgramStates
<1>3. SignInTypes
  BY <1>1, <1>2 DEF SignInInit, SignInTypes, Issued
<1>4. \A s \in Servers : Kept(s)
  BY <1>2 DEF SignInInit, Kept, Saving, NoToken
<1> QED BY <1>3, <1>4 DEF SignInIInv

(* Numbers issued stay issued. *)
LEMMA IssuedGrows ==
    ASSUME left \in Spend, left' \in Spend, left'.issued >= left.issued
    PROVE  /\ Issued \subseteq Issued' /\ HeldTokens \subseteq HeldTokens'
           /\ ProgramStates \subseteq ProgramStates'
           /\ 1 .. left.issued \subseteq 1 .. left'.issued
<1>1. Issued \subseteq Issued' /\ 1 .. left.issued \subseteq 1 .. left'.issued
  BY DEF Issued, Spend
<1>2. HeldTokens \subseteq HeldTokens'
  BY <1>1 DEF HeldTokens
<1>3. ProgramStates \subseteq ProgramStates'
  BY <1>2 DEF ProgramStates
<1> QED BY <1>1, <1>2, <1>3

(* The types are kept. *)
LEMMA NativeIssue ==
    ASSUME SignInTypes, NEW p \in Programs, NEW old \in Issued, Issue(p, old)
    PROVE  /\ left' \in Spend /\ left'.issued >= left.issued
           /\ alive' \in [Servers -> Issued'] /\ program' \in [Programs -> ProgramStates']
           /\ valid' \subseteq 1 .. left'.issued
           /\ \E got \in HeldTokens' :
                 /\ program' = [program EXCEPT ![p].at = "save", ![p].got = got]
                 /\ alive' = [alive EXCEPT ![Server1(p)] = got.refresh]
<1>1. /\ left \in Spend /\ left' = [left EXCEPT !.issued = @ + 2]
  BY DEF SignInTypes, Issue
<1>2. left' \in Spend /\ left'.issued = left.issued + 2 /\ left.issued \in Nat
  BY <1>1 DEF Spend
<1>3. PICK refresh \in {old, left.issued + 2} :
          /\ alive' = [alive EXCEPT ![Server1(p)] = refresh]
          /\ program' = [program EXCEPT ![p].at = "save",
                            ![p].got = [access |-> left.issued + 1, refresh |-> refresh]]
  BY DEF Issue
<1>4. refresh \in Issued' /\ left.issued + 1 \in Issued'
  BY <1>2, <1>3 DEF Issued
<1> DEFINE got == [access |-> left.issued + 1, refresh |-> refresh]
<1>5. got \in HeldTokens' /\ got.refresh = refresh
  BY <1>4 DEF HeldTokens
<1> HIDE DEF got
<1>6. program' = [program EXCEPT ![p].at = "save", ![p].got = got]
  BY <1>3 DEF got
<1>7. Issued \subseteq Issued' /\ ProgramStates \subseteq ProgramStates'
  BY <1>1, <1>2, IssuedGrows
<1>8. program' \in [Programs -> ProgramStates']
  <2>1. program \in [Programs -> ProgramStates']
    BY <1>7 DEF SignInTypes
  <2> QED BY <1>5, <1>6, <2>1 DEF ProgramStates
<1>9. alive' \in [Servers -> Issued']
  BY <1>3, <1>4, <1>7 DEF SignInTypes
<1>10. valid' \subseteq 1 .. left'.issued
  BY <1>2 DEF Issue, SignInTypes
<1>11. \E new \in HeldTokens' : /\ program' = [program EXCEPT ![p].at = "save", ![p].got = new]
                                 /\ alive' = [alive EXCEPT ![Server1(p)] = new.refresh]
  BY <1>3, <1>5, <1>6
<1>12. left'.issued >= left.issued
  BY <1>2
<1> QED BY <1>2, <1>8, <1>9, <1>10, <1>11, <1>12

(* A step that issues no token keeps the sets of tokens. *)
LEMMA SameIssued ==
    ASSUME left'.issued = left.issued
    PROVE  Issued' = Issued /\ HeldTokens' = HeldTokens /\ ProgramStates' = ProgramStates
BY DEF Issued, HeldTokens, ProgramStates

(* What Refresh and Login may do: tokens are issued, or they are not. *)
TokenIssued(p) ==
    /\ \/ program[p].at = "refresh" /\ Issue(p, Saved(p).refresh)
       \/ program[p].at = "login" /\ Issue(p, 0)
    /\ UNCHANGED authFile

GoesToLogin(p) ==
    /\ program[p].at = "refresh" /\ Step(p, "login")
    /\ left' = [left EXCEPT !.failures = IF @ > 0 THEN @ - 1 ELSE 0]
    /\ UNCHANGED <<authFile, alive, valid, excused>>

GivesUp(p) ==
    /\ program[p].at = "login" /\ program' = [program EXCEPT ![p] = Out]
    /\ UNCHANGED <<authFile, alive, valid, excused, left>>

LEMMA RefreshOrLogin ==
    ASSUME NEW p \in Programs, Refresh(p) \/ Login(p)
    PROVE  TokenIssued(p) \/ GoesToLogin(p) \/ GivesUp(p)
BY DEF Refresh, Login, TokenIssued, GoesToLogin, GivesUp

(* Types are kept by every step. *)
LEMMA NativeTypesStep ==
    ASSUME SignInTypes, [SignInNext]_signInVars PROVE SignInTypes'
<1>0. /\ left \in Spend /\ program \in [Programs -> ProgramStates]
      /\ authFile \in [Servers -> HeldTokens] /\ alive \in [Servers -> Issued]
      /\ valid \subseteq 1 .. left.issued /\ excused \subseteq Servers
  BY DEF SignInTypes
<1>1. CASE UNCHANGED signInVars
  BY <1>1 DEF signInVars, SignInTypes, Issued, HeldTokens, ProgramStates
<1>2. ASSUME NEW p \in Programs, TokenIssued(p)
      PROVE  SignInTypes'
  <2>1. Saved(p).refresh \in Issued /\ 0 \in Issued
    BY <1>0, SignInAssumption DEF Saved, Server1, ProgramStates, HeldTokens, Issued, Spend
  <2>2. /\ left' \in Spend /\ left'.issued >= left.issued
        /\ alive' \in [Servers -> Issued'] /\ program' \in [Programs -> ProgramStates']
        /\ valid' \subseteq 1 .. left'.issued
    BY <1>2, <2>1, NativeIssue DEF TokenIssued
  <2>3. HeldTokens \subseteq HeldTokens'
    BY <1>0, <2>2, IssuedGrows
  <2>4. excused' \subseteq Servers
    BY <1>0, <1>2, SignInAssumption DEF TokenIssued, Issue, Supersedes, Server1
  <2> QED BY <1>0, <1>2, <2>2, <2>3, <2>4 DEF SignInTypes, TokenIssued
<1>3. ASSUME NEW p \in Programs,
             \/ Start(p) \/ Discover(p) \/ GoesToLogin(p) \/ GivesUp(p)
             \/ SaveStore(p) \/ Stop(p)
      PROVE  SignInTypes'
  <2>1. left'.issued = left.issued /\ left' \in Spend
    <3>1. CASE Start(p)
      BY <1>0, <3>1 DEF Start, Spend
    <3>2. CASE Discover(p)
      BY <1>0, <3>2 DEF Discover, Spend
    <3>3. CASE GoesToLogin(p)
      BY <1>0, <3>3 DEF GoesToLogin, Spend
    <3>4. CASE GivesUp(p)
      BY <1>0, <3>4 DEF GivesUp
    <3>5. CASE SaveStore(p)
      BY <1>0, <3>5 DEF SaveStore
    <3>6. CASE Stop(p)
      <4>1. CASE program[p].at = "running"
        BY <1>0, <3>6, <4>1 DEF Stop, Spend
      <4>2. CASE program[p].at # "running"
        BY <1>0, <3>6, <4>2 DEF Stop, Spend
      <4> QED BY <4>1, <4>2
    <3> QED BY <1>3, <3>1, <3>2, <3>3, <3>4, <3>5, <3>6
  <2>2. Issued' = Issued /\ HeldTokens' = HeldTokens /\ ProgramStates' = ProgramStates
    BY <2>1, SameIssued
  <2>3. NoToken \in HeldTokens /\ Out \in ProgramStates
    BY <1>0 DEF NoToken, HeldTokens, Issued, Out, ProgramStates, Spend
  <2>4. program' \in [Programs -> ProgramStates]
    <3>1. \/ \E at \in {"discover", "refresh", "login", "running"} :
                program' = [program EXCEPT ![p].at = at]
          \/ program' = [program EXCEPT ![p] = Out]
          \/ program' = [program EXCEPT ![p] = [at |-> "discover", copy |-> authFile,
                                                got |-> NoToken]]
      BY <1>3 DEF Start, SaveStore, Stop, Discover, Step, GoesToLogin, GivesUp
    <3>2. CASE program' = [program EXCEPT ![p] = Out]
      BY <1>0, <2>3, <3>2
    <3>3. CASE program' = [program EXCEPT ![p] = [at |-> "discover", copy |-> authFile,
                                                  got |-> NoToken]]
      <4>1. [at |-> "discover", copy |-> authFile, got |-> NoToken] \in ProgramStates
        BY <1>0, <2>3 DEF ProgramStates
      <4> QED BY <1>0, <3>3, <4>1
    <3>4. ASSUME NEW at \in {"discover", "refresh", "login", "running"},
                 program' = [program EXCEPT ![p].at = at]
          PROVE  program' \in [Programs -> ProgramStates]
      BY <1>0, <3>4 DEF ProgramStates
    <3> QED BY <3>1, <3>2, <3>3, <3>4
  <2>5. authFile' \in [Servers -> HeldTokens]
    <3>1. CASE SaveStore(p)
      <4>1. program[p].copy \in [Servers -> HeldTokens] /\ program[p].got \in HeldTokens
        BY <1>0 DEF ProgramStates
      <4> QED BY <3>1, <4>1 DEF SaveStore
    <3>2. CASE ~SaveStore(p)
      BY <1>0, <1>3, <3>2 DEF Start, Discover, GoesToLogin, GivesUp, Stop
    <3> QED BY <3>1, <3>2
  <2>6. /\ alive' \in [Servers -> Issued] /\ valid' \subseteq 1 .. left'.issued
    BY <1>0, <1>3, <2>1 DEF Start, Discover, GoesToLogin, GivesUp, SaveStore, Stop
  <2>7. excused' \subseteq Servers
    BY <1>0, <1>3, SignInAssumption
       DEF Start, Discover, GoesToLogin, GivesUp, SaveStore, Stop, Server1
  <2> QED BY <2>1, <2>2, <2>4, <2>5, <2>6, <2>7 DEF SignInTypes
<1>4. ASSUME NEW t \in 1 .. left.issued, Expire(t)
      PROVE  SignInTypes'
  <2>1. left'.issued = left.issued /\ left' \in Spend
    BY <1>0, <1>4 DEF Expire, Spend
  <2> QED BY <1>0, <1>4, <2>1, SameIssued DEF Expire, SignInTypes
<1>5. ASSUME NEW p \in Programs, AnswerLost(p) PROVE SignInTypes'
  <2>1. /\ left' \in Spend /\ left'.issued = left.issued + 2 /\ left.issued \in Nat
        /\ left.issued + 2 \in Issued'
    <3>1. left' = [left EXCEPT !.failures = @ - 1, !.issued = @ + 2] /\ left.failures > 0
      BY <1>5 DEF AnswerLost
    <3>2. left.failures - 1 \in Nat /\ left.issued + 2 \in Nat /\ left.issued \in Nat
      BY <1>0, <3>1 DEF Spend
    <3>3. left' \in Spend /\ left'.issued = left.issued + 2 BY <1>0, <3>1, <3>2 DEF Spend
    <3>4. left.issued + 2 \in 0 .. left'.issued BY <3>2, <3>3
    <3> QED BY <3>2, <3>3, <3>4 DEF Issued
  <2>2. /\ Issued \subseteq Issued' /\ HeldTokens \subseteq HeldTokens'
        /\ ProgramStates \subseteq ProgramStates' /\ 1 .. left.issued \subseteq 1 .. left'.issued
    BY <1>0, <2>1, IssuedGrows
  <2>3. program' \in [Programs -> ProgramStates]
    <3>1. Out \in ProgramStates
      BY <1>0 DEF NoToken, HeldTokens, Issued, Out, ProgramStates, Spend
    <3>2. \/ program' = [program EXCEPT ![p].at = "login"]
          \/ program' = [program EXCEPT ![p] = Out]
      BY <1>5 DEF AnswerLost, Step
    <3>3. CASE program' = [program EXCEPT ![p].at = "login"]
      BY <1>0, <3>3 DEF ProgramStates
    <3> QED BY <1>0, <3>1, <3>2, <3>3
  <2>4. excused' \subseteq Servers /\ alive' \in [Servers -> Issued']
    BY <1>0, <1>5, <2>1, <2>2, SignInAssumption DEF AnswerLost, Server1
  <2>5. UNCHANGED <<authFile, valid>>
    BY <1>5 DEF AnswerLost
  <2> QED BY <1>0, <2>1, <2>2, <2>3, <2>4, <2>5 DEF SignInTypes
<1> QED BY <1>1, <1>2, <1>3, <1>4, <1>5, RefreshOrLogin DEF SignInNext

(* An entry that no step has spoiled stays right. *)
LEMMA KeptStep ==
    ASSUME SignInIInv, [SignInNext]_signInVars, NEW s \in Servers \ excused'
    PROVE  Kept(s)'
<1>0. /\ program \in [Programs -> ProgramStates] /\ left \in Spend
      /\ authFile \in [Servers -> HeldTokens] /\ alive \in [Servers -> Issued]
      /\ s \notin excused => Kept(s)
  BY DEF SignInIInv, SignInTypes
<1>1. CASE UNCHANGED signInVars
  BY <1>0, <1>1 DEF signInVars, Kept, Saving
<1>2. ASSUME NEW p \in Programs, NEW to \in ProgramStates, program[p].at # "save",
             to.at # "save", program' = [program EXCEPT ![p] = to],
             UNCHANGED <<authFile, excused>>, alive'[s] = alive[s]
      PROVE  Kept(s)'
  <2>1. program'[p] = to /\ \A q \in Programs \ {p} : program'[q] = program[q]
    BY <1>0, <1>2
  <2>2. \A q \in Programs : /\ Saving(q, s)' <=> Saving(q, s)
                            /\ Saving(q, s) => program'[q] = program[q]
    BY <1>2, <2>1 DEF Saving, Server1
  <2> QED BY <1>0, <1>2, <2>2 DEF Kept
<1>3. ASSUME NEW p \in Programs,
             Start(p) \/ Discover(p) \/ GoesToLogin(p) \/ GivesUp(p) PROVE Kept(s)'
  <2>1. Out \in ProgramStates /\ Out.at = "out" /\ NoToken \in HeldTokens
    BY <1>0 DEF NoToken, HeldTokens, Issued, Out, ProgramStates, Spend
  <2>2. PICK to \in ProgramStates : to.at # "save" /\ program' = [program EXCEPT ![p] = to]
    <3>1. CASE Start(p)
      <4>1. [at |-> "discover", copy |-> authFile, got |-> NoToken] \in ProgramStates
        BY <1>0, <2>1 DEF ProgramStates
      <4> QED BY <3>1, <4>1 DEF Start
    <3>2. ASSUME NEW at \in {"running", "refresh", "login"},
                 program' = [program EXCEPT ![p].at = at]
          PROVE  \E to \in ProgramStates : to.at # "save" /\ program' = [program EXCEPT ![p] = to]
      <4>1. [program[p] EXCEPT !.at = at] \in ProgramStates
        BY <1>0 DEF ProgramStates
      <4>2. program' = [program EXCEPT ![p] = [program[p] EXCEPT !.at = at]]
        BY <3>2
      <4>3. [program[p] EXCEPT !.at = at].at # "save"
        BY <1>0 DEF ProgramStates
      <4> QED BY <4>1, <4>2, <4>3
    <3>3. CASE GivesUp(p)
      BY <2>1, <3>3 DEF GivesUp
    <3> QED BY <1>3, <3>1, <3>2, <3>3 DEF Discover, GoesToLogin, Step
  <2>3. program[p].at # "save" /\ UNCHANGED <<authFile, excused, alive>>
    BY <1>3 DEF Start, Discover, GoesToLogin, GivesUp
  <2> QED BY <1>2, <2>2, <2>3
<1>4. ASSUME NEW p \in Programs, AnswerLost(p) PROVE Kept(s)'
  <2>1. /\ Server1(p) \in Servers /\ s # Server1(p) /\ s \notin excused
        /\ alive'[s] = alive[s] /\ authFile' = authFile
    BY <1>0, <1>4, SignInAssumption DEF AnswerLost, Server1
  <2>2. \A q \in Programs : /\ Saving(q, s)' <=> Saving(q, s)
                            /\ Saving(q, s) => program'[q] = program[q]
    <3>1. \A q \in Programs \ {p} : program'[q] = program[q]
      BY <1>0, <1>4 DEF AnswerLost, Step
    <3> QED BY <2>1, <3>1 DEF Saving, Server1
  <2> QED BY <1>0, <2>1, <2>2 DEF Kept
<1>5. ASSUME NEW p \in Programs, Stop(p) PROVE Kept(s)'
  <2>1. /\ program'[p] = Out /\ UNCHANGED <<authFile, alive>>
        /\ \A q \in Programs \ {p} : program'[q] = program[q]
        /\ excused \subseteq excused' /\ (program[p].at = "save" => Server1(p) \in excused')
    BY <1>0, <1>5 DEF Stop
  <2>2. \A q \in Programs : /\ Saving(q, s)' <=> Saving(q, s)
                            /\ Saving(q, s) => program'[q] = program[q]
    BY <2>1 DEF Saving, Server1, Out
  <2> QED BY <1>0, <2>1, <2>2 DEF Kept
<1>6. ASSUME NEW p \in Programs, TokenIssued(p) PROVE Kept(s)'
  <2>1. Saved(p).refresh \in Issued /\ 0 \in Issued /\ Server1(p) \in Servers
    BY <1>0, SignInAssumption DEF Saved, Server1, ProgramStates, HeldTokens, Issued, Spend
  <2>2. PICK got \in HeldTokens' : /\ program' = [program EXCEPT ![p].at = "save", ![p].got = got]
                                   /\ alive' = [alive EXCEPT ![Server1(p)] = got.refresh]
    BY <1>6, <2>1, NativeIssue DEF TokenIssued, SignInIInv
  <2>3. /\ program[p].at \in {"refresh", "login"} /\ UNCHANGED authFile /\ Supersedes(p)
        /\ program'[p].at = "save" /\ program'[p].got = got
        /\ \A q \in Programs \ {p} : program'[q] = program[q]
        /\ alive'[Server1(p)] = got.refresh
        /\ \A t \in Servers \ {Server1(p)} : alive'[t] = alive[t]
    BY <1>0, <1>6, <2>1, <2>2 DEF TokenIssued, Issue, ProgramStates
  <2>4. CASE s = Server1(p)
    <3>1. \A q \in Programs \ {p} : ~Saving(q, s)'
      BY <2>1, <2>3, <2>4 DEF Supersedes, Saving, Server1
    <3> QED BY <2>3, <2>4, <3>1 DEF Kept, Saving, Server1
  <2>5. CASE s # Server1(p)
    <3>1. s \notin excused
      BY <2>3, <2>5 DEF Supersedes
    <3>2. \A q \in Programs : /\ Saving(q, s)' <=> Saving(q, s)
                              /\ Saving(q, s) => program'[q] = program[q]
      BY <2>3, <2>5 DEF Saving, Server1
    <3> QED BY <1>0, <2>3, <2>5, <3>1, <3>2 DEF Kept
  <2> QED BY <2>4, <2>5
<1>7. ASSUME NEW p \in Programs, SaveStore(p) PROVE Kept(s)'
  <2>1. /\ program[p].at = "save" /\ alive' = alive /\ s \notin excused
        /\ program'[p].at = "running"
        /\ \A q \in Programs \ {p} : program'[q] = program[q]
    BY <1>0, <1>7 DEF SaveStore, Step, ProgramStates
  <2>2. program[p].copy \in [Servers -> HeldTokens]
    BY <1>0 DEF ProgramStates
  <2>3. CASE s = Server1(p)
    <3>1. authFile'[s] = program[p].got
      BY <1>7, <2>2, <2>3 DEF SaveStore
    <3>2. Saving(p, s) /\ \A q \in Programs : ~Saving(q, s)'
      BY <1>0, <2>1, <2>3 DEF Kept, Saving, Server1
    <3>3. program[p].got.refresh = alive[s]
      BY <1>0, <2>1, <3>2 DEF Kept
    <3> QED BY <2>1, <3>1, <3>2, <3>3 DEF Kept
  <2>4. CASE s # Server1(p)
    <3>1. authFile'[s] = authFile[s]
      BY <1>7, <2>2, <2>4 DEF SaveStore
    <3>2. \A q \in Programs : /\ Saving(q, s)' <=> Saving(q, s)
                              /\ Saving(q, s) => program'[q] = program[q]
      BY <2>1, <2>4 DEF Saving, Server1
    <3> QED BY <1>0, <2>1, <3>1, <3>2 DEF Kept
  <2> QED BY <2>3, <2>4
<1>8. ASSUME NEW t \in 1 .. left.issued, Expire(t) PROVE Kept(s)'
  BY <1>0, <1>8 DEF Expire, Kept, Saving
<1> QED BY <1>1, <1>3, <1>4, <1>5, <1>6, <1>7, <1>8, RefreshOrLogin DEF SignInNext

LEMMA NativeStep == SignInIInv /\ [SignInNext]_signInVars => SignInIInv'
<1> SUFFICES ASSUME SignInIInv, [SignInNext]_signInVars PROVE SignInIInv'
  OBVIOUS
<1>1. SignInTypes'
  BY NativeTypesStep DEF SignInIInv
<1>2. \A s \in Servers \ excused' : Kept(s)'
  BY KeptStep
<1> QED BY <1>1, <1>2 DEF SignInIInv

(* The refresh token in the file is one the provider takes, or is about to *)
(* be replaced by it, whatever programs run at once, until one of the four *)
(* steps StaysSignedIn names, and again from the next tokens issued        *)
(* (oauth.rs:88-121).                                                      *)
THEOREM PersonStaysSignedIn == SignInSpec => []StaysSignedIn
<1>1. SignInIInv => StaysSignedIn
  BY DEF SignInIInv, Kept, Saving, StaysSignedIn
<1> QED BY NativeInitIInv, NativeStep, <1>1, PTL DEF SignInSpec

(* A sign-in has a number that was given out. *)
Numbered == \A t \in Tabs : tab[t].state \in 0 .. luckLeft.made

LEMMA NumberedStep ==
    ASSUME BrowserIInv, Numbered, [BrowserSignInNext]_browserSignInVars
    PROVE  Numbered'
<1>0. /\ tab \in [Tabs -> TabStates] /\ luckLeft \in Luck
      /\ \A t \in Tabs : tab[t].state \in 0 .. luckLeft.made
  BY DEF BrowserIInv, Numbered
<1>1. luckLeft.made \in Nat
  BY <1>0 DEF Luck
<1>2. luckLeft' \in Luck
  <2>1. BrowserIInv'
    BY BrowserStep
  <2> QED BY <2>1 DEF BrowserIInv
<1>3. ASSUME luckLeft'.made >= luckLeft.made,
             \A t \in Tabs : \/ tab'[t].state \in {tab[t].state, 0}
                             \/ tab'[t].state = luckLeft.made + 1 /\ luckLeft'.made = luckLeft.made + 1
      PROVE  Numbered'
  <2>1. luckLeft'.made \in Nat
    BY <1>2 DEF Luck
  <2> QED BY <1>0, <1>1, <1>3, <2>1 DEF Numbered
<1>4. CASE UNCHANGED <<tab, luckLeft>>
  BY <1>1, <1>3, <1>4
<1>5. ASSUME NEW t \in Tabs, luckLeft'.made = luckLeft.made,
             \A u \in Tabs : tab'[u].state \in {tab[u].state, 0}
      PROVE  Numbered'
  BY <1>1, <1>3, <1>5
<1>6. ASSUME NEW t \in Tabs,
             \/ \E code \in 0 .. luckLeft.made : Load(t, code)
             \/ Timer(t) \/ NoConfiguration(t) \/ NoDiscovery(t) \/ Discovered(t)
             \/ SaveCode(t) \/ SaveTokens(t) \/ CloseTab(t) \/ Wipe(t)
      PROVE  Numbered'
  <2>1. luckLeft'.made = luckLeft.made
    BY <1>0, <1>6 DEF Load, Timer, NoConfiguration, NoDiscovery, Discovered, SaveCode,
          SaveTokens, CloseTab, Wipe, Luck
  <2>2. \A u \in Tabs : tab'[u].state \in {tab[u].state, 0}
    <3>1. CASE CloseTab(t) \/ Wipe(t)
      BY <1>0, <3>1 DEF CloseTab, Wipe, NoTab
    <3>2. CASE SaveCode(t) \/ SaveTokens(t)
      BY <1>0, <3>2 DEF SaveCode, SaveTokens, TabStates
    <3>3. CASE \/ \E code \in 0 .. luckLeft.made : Load(t, code)
               \/ Timer(t) \/ Discovered(t) \/ NoConfiguration(t) \/ NoDiscovery(t)
      BY <1>0, <3>3 DEF Load, Timer, Discovered, NoConfiguration, NoDiscovery, At, Fails, TabStates
    <3> QED BY <1>6, <3>1, <3>2, <3>3
  <2> QED BY <1>5, <2>1, <2>2
<1>7. ASSUME NEW t \in Tabs, NEW used, NEW next, ProviderAnswers(t, used, next) PROVE Numbered'
  <2>1. luckLeft'.made \in {luckLeft.made, luckLeft.made + 1}
    BY <1>0, <1>7 DEF ProviderAnswers, Luck
  <2>2. \A u \in Tabs : tab'[u].state = tab[u].state
    BY <1>0, <1>7 DEF ProviderAnswers, TabStates
  <2> QED BY <1>1, <1>3, <2>1, <2>2
<1>8. ASSUME NEW t \in Tabs, BeginAuthorization(t), luckLeft'.made = luckLeft.made + 1
      PROVE  Numbered'
  <2>1. tab'[t].state = luckLeft.made + 1 /\ \A u \in Tabs \ {t} : tab'[u] = tab[u]
    BY <1>0, <1>8 DEF BeginAuthorization, NoTab
  <2> QED BY <1>1, <1>3, <1>8, <2>1
<1>9. ASSUME NEW t \in Tabs, Exchange(t) PROVE Numbered'
  <2>1. CASE ProviderAnswers(t, 0, "saveCode")
    BY <1>7, <2>1
  <2>2. CASE Fails(t, FALSE) /\ UNCHANGED luckLeft
    <3>1. \A u \in Tabs : tab'[u].state = tab[u].state
      BY <1>0, <2>2 DEF Fails, TabStates
    <3> QED BY <1>5, <2>2, <3>1
  <2> QED BY <1>9, <2>1, <2>2 DEF Exchange
<1>10. ASSUME NEW t \in Tabs, LoadTokens(t) PROVE Numbered'
  <2>1. CASE BeginAuthorization(t) /\ luckLeft' = [luckLeft EXCEPT !.made = @ + 1]
    <3>1. luckLeft'.made = luckLeft.made + 1
      BY <1>0, <2>1 DEF Luck
    <3> QED BY <1>8, <2>1, <3>1
  <2>2. CASE UNCHANGED luckLeft /\ SignedIn(t)
    <3>1. \A u \in Tabs : tab'[u].state = tab[u].state
      BY <1>0, <2>2 DEF SignedIn, TabStates
    <3> QED BY <1>5, <2>2, <3>1
  <2>3. CASE UNCHANGED luckLeft /\ tab' = [tab EXCEPT ![t].at = "refresh", ![t].got = kept.refresh]
    <3>1. \A u \in Tabs : tab'[u].state = tab[u].state
      BY <1>0, <2>3 DEF TabStates
    <3> QED BY <1>5, <2>3, <3>1
  <2> QED BY <1>10, <2>1, <2>2, <2>3 DEF LoadTokens
<1>11. ASSUME NEW t \in Tabs, RefreshTokens(t) PROVE Numbered'
  <2>1. CASE BeginAuthorization(t)
    <3>1. luckLeft'.made = luckLeft.made + 1 \/ ProviderAnswers(t, tab[t].got, "save")
      BY <1>0, <1>11 DEF RefreshTokens, Luck
    <3> QED BY <1>7, <1>8, <2>1, <3>1
  <2>2. CASE ProviderAnswers(t, tab[t].got, "save")
    BY <1>7, <2>2
  <2> QED BY <1>11, <2>1, <2>2 DEF RefreshTokens
<1>12. CASE BrowserExpire
  <2>1. UNCHANGED tab /\ luckLeft'.made = luckLeft.made
    BY <1>0, <1>12 DEF BrowserExpire, Luck
  <2> QED BY <1>1, <1>3, <2>1
<1> QED
  BY <1>4, <1>6, <1>9, <1>10, <1>11, <1>12 DEF BrowserSignInNext, browserSignInVars

LEMMA BrowserSignInTyped == BrowserSignInSpec => []BrowserSignInTypeOK
<1>1. BrowserSignInInit => Numbered
  <2> SUFFICES ASSUME BrowserSignInInit PROVE Numbered
    OBVIOUS
  <2>1. luckLeft.made \in Nat /\ \A t \in Tabs : tab[t].state = 0
    BY BrowserInitIInv DEF BrowserSignInInit, NoTab, BrowserIInv, Luck
  <2> QED BY <2>1 DEF Numbered
<1>2. BrowserIInv /\ Numbered /\ [BrowserSignInNext]_browserSignInVars => Numbered'
  BY NumberedStep
<1>3. BrowserIInv /\ Numbered => BrowserSignInTypeOK
  <2> SUFFICES ASSUME BrowserIInv, Numbered PROVE BrowserSignInTypeOK
    OBVIOUS
  <2>1. luckLeft.made \in Nat
    BY DEF BrowserIInv, Luck
  <2>2. /\ kept \in [refresh : 0 .. luckLeft.made, fresh : BOOLEAN, tokens : BOOLEAN, flag : BOOLEAN]
        /\ taken \subseteq 1 .. luckLeft.made
    BY <2>1 DEF BrowserIInv
  <2>3. \A t \in Tabs : /\ tab[t] \in TabStates /\ tab[t].got <= luckLeft.made
                        /\ tab[t].state \in 0 .. luckLeft.made
    BY DEF BrowserIInv, Numbered
  <2> QED BY <2>1, <2>2, <2>3 DEF BrowserSignInTypeOK, TabStates, Storing
<1> QED BY BrowserInitIInv, BrowserStep, <1>1, <1>2, <1>3, PTL DEF BrowserSignInSpec

LEMMA SignInTyped == SignInSpec => []SignInTypeOK
<1>1. SignInIInv => SignInTypeOK
  BY DEF SignInIInv, SignInTypes, ProgramStates, HeldTokens, Issued, SignInTypeOK
<1> QED BY NativeInitIInv, NativeStep, <1>1, PTL DEF SignInSpec
=============================================================================
