----------------------------- MODULE CausalDocs -----------------------------
(***************************************************************************)
(* What a replicated workspace promises, whatever carries the changes:     *)
(* each replica holds a causally closed document; replicas write changes   *)
(* on top of what they hold and merge what others wrote; a replica that    *)
(* restarts may forget, but never a change it acknowledged to its writer.  *)
(***************************************************************************)
EXTENDS Naturals

CONSTANTS Replica, Change

VARIABLES
    used,    \* changes written so far
    author,  \* author[c]: the replica that wrote c
    past,    \* past[c]: the document c was written on
    doc,     \* doc[r]: the changes in r's document
    acked    \* changes acknowledged to their writer

vars == <<used, author, past, doc, acked>>

Closed(S) == \A c \in S : past[c] \subseteq S

OwnAcked(r) == {c \in acked : author[c] = r}

Init ==
    /\ used = {}
    /\ author \in [Change -> Replica]
    /\ past \in [Change -> SUBSET Change]
    /\ doc = [r \in Replica |-> {}]
    /\ acked = {}

\* A write may fail after it entered the document; it is acknowledged at once or never.
Write(r, c) ==
    /\ c \notin used
    /\ used' = used \cup {c}
    /\ author' = [author EXCEPT ![c] = r]
    /\ past' = [past EXCEPT ![c] = doc[r]]
    /\ doc' = [doc EXCEPT ![r] = @ \cup {c}]
    /\ acked' \in {acked, acked \cup {c}}

Merge(r, S) ==
    /\ Closed(doc[r] \cup S)
    /\ doc' = [doc EXCEPT ![r] = @ \cup S]
    /\ UNCHANGED <<used, author, past, acked>>

Restart(r, S) ==
    /\ Closed(S) /\ OwnAcked(r) \subseteq S
    /\ doc' = [doc EXCEPT ![r] = S]
    /\ UNCHANGED <<used, author, past, acked>>

Next ==
    \E r \in Replica :
        \/ \E c \in Change : Write(r, c)
        \/ \E S \in SUBSET used : Merge(r, S)
        \/ \E S \in SUBSET doc[r] : Restart(r, S)

Spec == Init /\ [][Next]_vars
=============================================================================
