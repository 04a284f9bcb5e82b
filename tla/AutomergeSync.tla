--------------------------- MODULE AutomergeSync ---------------------------
(***************************************************************************)
(* The Automerge sync protocol, seen from one end of one connection.  It   *)
(* is an external library: these operators keep the part of it that the    *)
(* code depends on.  A document is the set of the changes it contains, and *)
(* heads are taken for the document they stand for.                        *)
(*                                                                         *)
(* A sync state records whether a message of the peer has arrived (heard), *)
(* what the peer then held (theirs), what was announced last (said, last)  *)
(* and whether an answer is awaited (flying).                              *)
(***************************************************************************)

NewSync == [heard |-> FALSE, theirs |-> {}, said |-> FALSE, last |-> {},
            flying |-> FALSE]

\* Mutation: what was announced is taken for delivered.
Missing_Announced(st, doc) == IF st.heard THEN doc \ (st.theirs \cup st.last) ELSE {}

\* The changes the peer is known to lack; nothing is known before its first message.
Missing(st, doc) == IF st.heard THEN doc \ st.theirs ELSE {}

\* generate_sync_message returns None.
Quiet(st, doc) ==
    /\ st.said /\ st.last = doc
    /\ st.flying \/ (st.heard /\ st.theirs = doc)

SyncMsg(st, doc) == [type |-> "sync", heads |-> doc, changes |-> Missing(st, doc)]

Generated(st, doc) == [st EXCEPT !.said = TRUE, !.last = doc, !.flying = TRUE]

Received(st, doc, m) ==
    [st EXCEPT !.flying = FALSE, !.heard = TRUE, !.theirs = m.heads,
               !.last = IF m.changes = {} /\ m.heads = doc THEN m.heads ELSE @]
=============================================================================
