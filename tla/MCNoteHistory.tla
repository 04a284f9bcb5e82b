--------------------------- MODULE MCNoteHistory ---------------------------
(* TLC instances of NoteHistory: a laptop, a phone's browser and the server. *)
EXTENDS NoteHistory

CONSTANTS laptop, phone, syncd, native_save, server_save, server_delete, browser_save

MCNative == {laptop}
MCBrowser == {phone}

\* The server's author name is between the two clients'.
MCRank == [r \in {laptop, phone, syncd} |->
             CASE r = laptop -> 1 [] r = syncd -> 2 [] OTHER -> 3]

MCEditor == {native_save, server_save, server_delete, browser_save}
MCHome == [e \in MCEditor |->
             CASE e = native_save -> laptop [] e = browser_save -> phone [] OTHER -> syncd]
MCDeleting == {server_delete}

\* How often the native session, the server's clients (saving, deleting) and the browser
\* work on the note, the crashes among them, and the wall clock readings 1..wall.
Scenario(native, save, delete, browser, crash, wall) ==
    [saves |-> [e \in MCEditor |-> CASE e = native_save -> native [] e = server_save -> save
                                     [] e = server_delete -> delete [] OTHER -> browser],
     crashes |-> crash, wall |-> wall]

\* Who creates the note is open; the others then work on it concurrently.
Commits == {Scenario(1, 0, 1, 1, 0, 2), Scenario(1, 1, 0, 1, 0, 2), Scenario(0, 1, 1, 1, 0, 2),
            Scenario(1, 0, 0, 2, 0, 2), Scenario(2, 0, 0, 1, 1, 2), Scenario(1, 0, 1, 2, 0, 1)}

\* A browser's save between two of a native session; two clients of the server.
Lagging == {Scenario(1, 0, 0, 1, 0, 2)}
Stale == {Scenario(0, 1, 0, 2, 0, 1)}
=============================================================================
