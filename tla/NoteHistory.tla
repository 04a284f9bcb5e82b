---------------------------- MODULE NoteHistory ----------------------------
(***************************************************************************)
(* The history of one note, written by several editors on top of the       *)
(* replicated documents that CausalDocs promises.                          *)
(*                                                                         *)
(* A save stores an immutable revision that names its predecessors, then   *)
(* advances the head of its author.  A replica shows the asserted head     *)
(* with the greatest hybrid timestamp and reports the other heads that are *)
(* not its ancestors as conflicts.  Native sessions and the server load    *)
(* the note, put the revision and set the head as separate steps between   *)
(* which the synchronisation merges documents; the browser worker does     *)
(* the same in one step.  Process crashes may fall between any two.        *)
(*                                                                         *)
(* A record put is one change of the document; a revision's identity is    *)
(* the change that stored it.                                              *)
(***************************************************************************)
EXTENDS Integers, FiniteSets

CONSTANTS
    Native, Browser,   \* replicas of native sessions and of browsers
    Server,            \* the replica of xo-syncd
    Rank,              \* the order of the author names
    Editor, Home,      \* who saves or deletes the note, and the replica it works on
    Deleting,          \* the editors that delete it
    MaxChanges,        \* bound: records ever put
    MaxTick,           \* largest logical counter of a timestamp (a u32 in the code)
    Budgets            \* bound: a behaviour's operations, crashes and wall clock

Replica == Native \cup Browser \cup {Server}
Change == 1..MaxChanges
None == 0

ASSUME ConstantsAssumption ==
    /\ Server \notin Native /\ Server \notin Browser /\ Native \cap Browser = {}
    /\ Rank \in [Replica -> Nat]
    /\ \A a, b \in Replica : Rank[a] = Rank[b] => a = b
    /\ Home \in [Editor -> Replica] /\ Deleting \subseteq Editor
    /\ MaxChanges \in Nat /\ MaxTick \in Nat
    /\ Budgets \subseteq [saves : [Editor -> Nat], crashes : Nat, wall : Nat]

VARIABLES
    made, author, past, doc,   \* the documents, see CausalDocs
    rec,       \* rec[c]: the record change c put
    clock,     \* clock[r]: the hybrid clock of r's session
    phase,     \* phase[e]: how far editor e's operation has got
    seen,      \* seen[e]: the revisions e was shown when it took the note's text
    plan,      \* plan[e]: predecessors of the revision e is about to put
    stored,    \* stored[e]: the revision e has put and not yet asserted
    budget     \* what is left of the behaviour's budget

docVars == <<made, author, past, doc>>
editVars == <<phase, seen, plan, stored>>
vars == <<docVars, rec, clock, editVars, budget>>

\* Which flushes succeed is CentralSync's subject: here every replica keeps what it holds.
Docs == INSTANCE CausalDocs WITH used <- 1..made, acked <- {}

-----------------------------------------------------------------------------
(* Hybrid timestamps.                                                      *)

StartClock == [ms |-> 0, tick |-> 0]

LeastOf(x, y) == IF x <= y THEN x ELSE y
GreatestOf(x, y) == IF x >= y THEN x ELSE y
Increment(tick) == LeastOf(tick + 1, MaxTick)

\* HlcClock::next
Ticked(now, wall) ==
    IF wall > now.ms THEN [ms |-> wall, tick |-> 0]
    ELSE [now EXCEPT !.tick = Increment(@)]

\* HlcClock::observe
Observed(now, remote, wall) ==
    LET ms == GreatestOf(wall, GreatestOf(now.ms, remote.ms)) IN
    [ms |-> ms,
     tick |-> IF ms = now.ms /\ ms = remote.ms THEN Increment(GreatestOf(now.tick, remote.tick))
              ELSE IF ms = now.ms THEN Increment(now.tick)
              ELSE IF ms = remote.ms THEN Increment(remote.tick)
              ELSE 0]

\* Revisions are ordered by timestamp, author, and finally identity.
Before(x, y) ==
    LET a == rec[x].time  b == rec[y].time
        i == Rank[author[x]]  j == Rank[author[y]] IN
    \/ a.ms < b.ms
    \/ a.ms = b.ms /\ a.tick < b.tick
    \/ a = b /\ (i < j \/ (i = j /\ x < y))

-----------------------------------------------------------------------------
(* Reading a note from a document.                                         *)

Revisions(D) == {c \in D : rec[c].type \in {"revision", "commit"}}
HeadPuts(D) == {c \in D : rec[c].type \in {"head", "commit"}}

\* The head record of an author holds what the author put last.
Asserted(D) ==
    {rec[h].asserts : h \in {x \in HeadPuts(D) :
        \A y \in HeadPuts(D) : author[x] = author[y] => x \notin past[y]}}

\* Mutation: only direct predecessors are found.
IsAncestor_Direct(x, y, D) == x \in rec[y].preds

\* is_ancestor's search from y reaches x: x is in every set that holds y's predecessors
\* and the predecessors of its members.
IsAncestor(x, y, D) ==
    \A S \in SUBSET Revisions(D) :
        rec[y].preds \subseteq S /\ (\A z \in S : rec[z].preds \subseteq S) => x \in S

\* The asserted revision that is last in the order: none or one.
Shown(D) == {w \in Asserted(D) : \A x \in Asserted(D) : x = w \/ Before(x, w)}
Winner(D) == CHOOSE w \in Shown(D) : TRUE

Conflict(D) == {x \in Asserted(D) \ Shown(D) : ~IsAncestor(x, Winner(D), D)}

Resolved(D) == Asserted(D) # {}
Visible(D) == \E w \in Shown(D) : ~rec[w].deleted

\* Mutation: a save follows the winner only.
Predecessors_Winner(D) == Shown(D)

\* The predecessors of a revision written now: the winner and everything it conflicts with.
Predecessors(D) == Shown(D) \cup Conflict(D)

-----------------------------------------------------------------------------
(* Saving and deleting.                                                    *)

NextChange == made + 1

\* Put one record into r's document.
Put(r, record) ==
    /\ made < MaxChanges
    /\ made' = NextChange
    /\ rec' = [rec EXCEPT ![NextChange] = record]
    /\ Docs!Write(r, NextChange)

Revision(type, e, time, preds) ==
    [type |-> type, preds |-> preds, time |-> time, deleted |-> e \in Deleting,
     asserts |-> IF type = "commit" THEN NextChange ELSE None]

HeadRecord(c) ==
    [type |-> "head", preds |-> {}, time |-> StartClock, deleted |-> FALSE, asserts |-> c]

Goto(e, p) == phase' = [phase EXCEPT ![e] = p]

\* One session task or the mutation lock: a replica runs one commit at a time.
Free(r) == \A e \in Editor : Home[e] = r => phase[e] \notin {"loaded", "put"}

\* A new note's identity is generated: nobody else has the note yet.
Fresh(e) == made = 0 /\ e \notin Deleting /\ \A x \in Editor : phase[x] = "idle"

\* The editor takes the text it is going to change or restore (opening $EDITOR, a GET
\* request, the read of a JSON Patch) or starts the note.
Read(e) ==
    /\ phase[e] = "idle" /\ budget.saves[e] > 0
    /\ Resolved(doc[Home[e]]) \/ Fresh(e)
    /\ budget' = [budget EXCEPT !.saves[e] = @ - 1]
    /\ Goto(e, "read")
    /\ seen' = [seen EXCEPT ![e] = Predecessors(doc[Home[e]])]
    /\ UNCHANGED <<docVars, rec, clock, plan, stored>>

\* load_note; an API request for a note that is deleted ends here.
Load(e) ==
    LET r == Home[e]  gone == r = Server /\ Resolved(doc[r]) /\ ~Visible(doc[r]) IN
    /\ phase[e] = "read" /\ r \notin Browser /\ Free(r)
    /\ \/ /\ ~gone
          /\ Goto(e, "loaded")
          /\ plan' = [plan EXCEPT ![e] = Predecessors(doc[r])]
          /\ UNCHANGED seen
       \/ /\ gone
          /\ Goto(e, "idle")
          /\ seen' = [seen EXCEPT ![e] = {}]
          /\ UNCHANGED plan
    /\ UNCHANGED <<docVars, rec, clock, stored, budget>>

\* Mutation: a failed put still leaves a revision to assert.
PutRevision_Unchecked(e, wall) ==
    LET r == Home[e]  time == Ticked(clock[r], wall) IN
    /\ phase[e] = "loaded"
    /\ Put(r, Revision("revision", e, time, plan[e]))
    /\ clock' = [clock EXCEPT ![r] = time]
    /\ plan' = [plan EXCEPT ![e] = {}]
    /\ seen' = [seen EXCEPT ![e] = {}]
    /\ Goto(e, "put") \/ Goto(e, "idle")
    /\ stored' = [stored EXCEPT ![e] = NextChange]
    /\ UNCHANGED budget

\* put_revision with the session clock's next timestamp; the put may fail after the record
\* entered the document, which ends the commit.
PutRevision(e, wall) ==
    LET r == Home[e]  time == Ticked(clock[r], wall) IN
    /\ phase[e] = "loaded"
    /\ Put(r, Revision("revision", e, time, plan[e]))
    /\ clock' = [clock EXCEPT ![r] = time]
    /\ plan' = [plan EXCEPT ![e] = {}]
    /\ seen' = [seen EXCEPT ![e] = {}]
    /\ \/ Goto(e, "put") /\ stored' = [stored EXCEPT ![e] = NextChange]
       \/ Goto(e, "idle") /\ UNCHANGED stored
    /\ UNCHANGED budget

\* set_head: the revision must be there; the author's head record is replaced.
SetHead(e) ==
    LET r == Home[e] IN
    /\ phase[e] = "put"
    /\ stored[e] \in doc[r]
    /\ Put(r, HeadRecord(stored[e]))
    /\ Goto(e, "idle")
    /\ stored' = [stored EXCEPT ![e] = None]
    /\ UNCHANGED <<clock, seen, plan, budget>>

\* The revisions the browser holds, oldest timestamp first.
Timestamps(D) ==
    LET R == Revisions(D)  n == Cardinality(R) IN
    CHOOSE s \in [1..n -> R] : /\ \A i, j \in 1..n : i < j => Before(s[i], s[j])
                               /\ \A x \in R : \E i \in 1..n : s[i] = x

\* Mutation: the browser does not observe the timestamps it holds.
BrowserTime_Unobserved(D, wall) == Ticked(StartClock, wall)

\* The browser's new clock observes the timestamps one by one, then ticks.
BrowserTime(D, wall) ==
    LET s == Timestamps(D)  n == Cardinality(Revisions(D))
        now[i \in 0..n] == IF i = 0 THEN StartClock
                           ELSE Observed(now[i - 1], rec[s[i]].time, wall)
    IN Ticked(now[n], wall)

\* mutateNote: the worker resolves the note and puts both records in one turn.
BrowserCommit(e, wall) ==
    LET r == Home[e] IN
    /\ phase[e] = "read" /\ r \in Browser
    /\ Put(r, Revision("commit", e, BrowserTime(doc[r], wall), Predecessors(doc[r])))
    /\ Goto(e, "idle")
    /\ seen' = [seen EXCEPT ![e] = {}]
    /\ UNCHANGED <<clock, plan, stored, budget>>

-----------------------------------------------------------------------------
(* The world around the editors.                                           *)

\* Mutation: a change is merged without what it depends on.
Merge_Partial(r) ==
    /\ UNCHANGED <<made, author, past, rec, clock, editVars, budget>>
    /\ \E q \in Replica : \E c \in doc[q] \ doc[r] : doc' = [doc EXCEPT ![r] = @ \cup {c}]

\* Clients synchronise with the server only.
Linked(q, r) == q # r /\ Server \in {q, r}

\* Synchronisation brings a change of the other side, with everything it depends on.
Merge(r) ==
    /\ UNCHANGED <<made, rec, clock, editVars, budget>>
    /\ \E q \in Replica : Linked(q, r) /\ \E c \in doc[q] \ doc[r] : Docs!Merge(r, past[c] \cup {c})

\* The process restarts from its snapshot with a fresh clock; operations under way are gone.
Crash(r) ==
    /\ budget.crashes > 0
    /\ budget' = [budget EXCEPT !.crashes = @ - 1]
    /\ UNCHANGED docVars
    /\ clock' = [clock EXCEPT ![r] = StartClock]
    /\ phase' = [e \in Editor |-> IF Home[e] = r THEN "idle" ELSE phase[e]]
    /\ seen' = [e \in Editor |-> IF Home[e] = r THEN {} ELSE seen[e]]
    /\ plan' = [e \in Editor |-> IF Home[e] = r THEN {} ELSE plan[e]]
    /\ stored' = [e \in Editor |-> IF Home[e] = r THEN None ELSE stored[e]]
    /\ UNCHANGED rec

Blank == [type |-> "none", preds |-> {}, time |-> StartClock, deleted |-> FALSE, asserts |-> None]

Init ==
    /\ made = 0
    /\ author = [c \in Change |-> Server]
    /\ past = [c \in Change |-> {}]
    /\ doc = [r \in Replica |-> {}]
    /\ rec = [c \in Change |-> Blank]
    /\ clock = [r \in Replica |-> StartClock]
    /\ phase = [e \in Editor |-> "idle"]
    /\ seen = [e \in Editor |-> {}]
    /\ plan = [e \in Editor |-> {}]
    /\ stored = [e \in Editor |-> None]
    /\ budget \in Budgets

Next ==
    \/ \E e \in Editor :
         \/ Read(e) \/ Load(e) \/ SetHead(e)
         \/ \E wall \in 1..budget.wall : PutRevision(e, wall) \/ BrowserCommit(e, wall)
    \/ \E r \in Replica : Merge(r) \/ Crash(r)

Spec == Init /\ [][Next]_vars

-----------------------------------------------------------------------------
(* Correctness.                                                            *)

Time == [ms : Nat, tick : 0..MaxTick]
Record == [type : {"none", "revision", "head", "commit"}, preds : SUBSET Change, time : Time,
           deleted : BOOLEAN, asserts : Change \cup {None}]

\* Every variable keeps its type; an editor has a stored revision exactly between its puts.
TypeOK ==
    /\ made \in 0..MaxChanges
    /\ author \in [Change -> Replica]
    /\ past \in [Change -> SUBSET Change]
    /\ doc \in [Replica -> SUBSET Change]
    /\ rec \in [Change -> Record]
    /\ clock \in [Replica -> Time]
    /\ phase \in [Editor -> {"idle", "read", "loaded", "put"}]
    /\ seen \in [Editor -> SUBSET Change]
    /\ plan \in [Editor -> SUBSET Change]
    /\ stored \in [Editor -> Change \cup {None}]
    /\ \A e \in Editor : stored[e] # None <=> phase[e] = "put"
    /\ budget \in [saves : [Editor -> Nat], crashes : Nat, wall : Nat]

\* load_note and set_head succeed at every replica at every moment: asserted revisions,
\* predecessors and the revision about to be asserted are there, however merges, crashes and
\* the two steps of a commit interleave (RevisionGraphError, RecordError::MissingRevision).
HeadsLoadable ==
    \A r \in Replica : \A h \in HeadPuts(doc[r]) : rec[h].asserts \in Revisions(doc[r])
PredecessorsLoadable ==
    \A r \in Replica : \A c \in Revisions(doc[r]) : rec[c].preds \subseteq Revisions(doc[r])
StoredLoadable ==
    \A e \in Editor : stored[e] # None => stored[e] \in Revisions(doc[Home[e]])
Loadable == HeadsLoadable /\ PredecessorsLoadable /\ StoredLoadable

\* The inductive invariant behind Loadable: a record's references lie in the document it was
\* written on, documents are closed under that relation, and a commit under way keeps what
\* it has read and stored, since its replica's document only grows.
Shape ==
    /\ made \in 0..MaxChanges
    /\ rec = [c \in Change |-> rec[c]]
    /\ past \in [Change -> SUBSET (1..made)]
    /\ doc \in [Replica -> SUBSET (1..made)]
    /\ plan \in [Editor -> SUBSET Change]
    /\ stored \in [Editor -> Change \cup {None}]
DocsClosed == \A r \in Replica : Docs!Closed(doc[r])
References(c) ==
    /\ rec[c].type \in {"revision", "commit"} => rec[c].preds \subseteq Revisions(past[c])
    /\ rec[c].type = "head" => rec[c].asserts \in Revisions(past[c])
    /\ rec[c].type = "commit" => rec[c].asserts = c
ReferencesHeld == \A c \in 1..made : References(c)
PlanHeld == \A e \in Editor : plan[e] \subseteq Revisions(doc[Home[e]])
IInv == Shape /\ DocsClosed /\ ReferencesHeld /\ PlanHeld /\ StoredLoadable

\* What a revision follows, directly or not: predecessors are stored before their successors.
History == LET before[c \in Change] ==
                   rec[c].preds \cup UNION {before[p] : p \in rec[c].preds}
           IN before
Reaches(x, y) == x = y \/ x \in History[y]

\* No finished save is dropped from the note's history: whatever was ever asserted at a
\* replica is shown or reported as a conflict there, or a predecessor of what is
\* (resolve_heads looks at the current heads only).
Retained ==
    \A r \in Replica : LET D == doc[r] IN
        \A h \in HeadPuts(D) : LET x == rec[h].asserts IN
            \E y \in Shown(D) \cup Conflict(D) : x = y \/ x \in History[y]

\* The inductive invariant behind Retained: a replica's own changes are all in its document,
\* each written on the ones before it; it runs one commit at a time, so what a commit has
\* planned or stored follows every head its replica has asserted, and heads follow each other.
Numbered == \A c \in Change : past[c] \cup rec[c].preds \subseteq 1..(c - 1)
OwnWrites ==
    \A c \in 1..made :
        /\ c \in doc[author[c]]
        /\ \A d \in 1..made : author[c] = author[d] /\ c < d => c \in past[d]
HeadsFollow ==
    \A g \in HeadPuts(1..made) : \A h \in HeadPuts(past[g]) :
        author[h] = author[g] => Reaches(rec[h].asserts, rec[g].asserts)
Committing(e) == phase[e] \in {"loaded", "put"}
OneCommit ==
    \A e \in Editor : Committing(e) =>
        /\ Home[e] \notin Browser
        /\ \A x \in Editor : Home[x] = Home[e] /\ Committing(x) => x = e
CommitFollows ==
    \A e \in Editor : \A h \in HeadPuts(doc[Home[e]]) : author[h] = Home[e] =>
        /\ phase[e] = "loaded" => \E y \in plan[e] : Reaches(rec[h].asserts, y)
        /\ phase[e] = "put" => Reaches(rec[h].asserts, stored[e])
HInv == Numbered /\ OwnWrites /\ HeadsFollow /\ OneCommit /\ CommitFollows

\* While timestamps follow the order of causes, the other asserted revisions a replica
\* reports as conflicts are exactly those concurrent with the one it shows.
OrderedClocks(D) == \A c \in Revisions(D) : \A p \in rec[c].preds : Before(p, c)
Concurrent(x, y) == x # y /\ x \notin History[y] /\ y \notin History[x]
ConflictsExplicit ==
    \A r \in Replica : LET D == doc[r] IN
        OrderedClocks(D) => Conflict(D) = {x \in Asserted(D) : Concurrent(x, Winner(D))}

\* What a browser saves is what it shows next and ends the conflict, whatever clocks the
\* other replicas have (mutateNote takes the new revision for the note's text), unless the
\* counter of its timestamp is used up: then the author's name may decide (hlc.rs:63).
Settled(r) == Shown(doc[r]) = {made} /\ Conflict(doc[r]) = {}
BrowserSaveWins ==
    [][\A e \in Editor, wall \in 1..budget.wall :
          BrowserCommit(e, wall) => Settled(Home[e])' \/ rec'[made'].time.tick = MaxTick]_vars

\* What docs/architecture.md says of conflicts: "concurrent revisions remain explicit
\* conflicts".  A clock that lags makes a conflict of a revision that replaced the winner.
ConflictsAreConcurrent ==
    \A r \in Replica : \A x \in Conflict(doc[r]) : Concurrent(x, Winner(doc[r]))

\* What README.md says of notes: "Concurrent revisions and conflicts are retained instead of
\* being overwritten."  A commit follows only revisions its editor was shown.
NoSilentOverwrite ==
    \A e \in Editor : phase[e] = "loaded" => plan[e] \subseteq seen[e]
=============================================================================
