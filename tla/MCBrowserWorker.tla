--------------------------- MODULE MCBrowserWorker ---------------------------
(* TLC instances of BrowserWorker: the scenarios a run covers are its budgets. *)
EXTENDS BrowserWorker

Scenario(e, p, f, u, a, d, r, w) ==
    [enrolled |-> e, puts |-> p, foreign |-> f, unloads |-> u, failures |-> a, drops |-> d,
     rehosts |-> r, wipes |-> w]

\* Two edits; an edit around a broken connection, a reload, or an aborted transaction with a
\* change of another client; a server set up afresh under a browser that had never
\* connected; a wipe.
Scenarios == {Scenario(TRUE, 2, 0, 0, 0, 0, 0, 0), Scenario(TRUE, 1, 0, 0, 0, 1, 0, 0),
              Scenario(TRUE, 1, 0, 1, 0, 0, 0, 0), Scenario(TRUE, 1, 1, 0, 1, 0, 0, 0),
              Scenario(FALSE, 1, 0, 0, 0, 0, 1, 0), Scenario(TRUE, 1, 0, 0, 0, 0, 0, 1)}

\* Two edits around the loss of the page.
OneReload == {Scenario(TRUE, 2, 0, 1, 0, 0, 0, 0)}
=============================================================================
