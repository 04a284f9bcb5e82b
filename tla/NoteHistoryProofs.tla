------------------------- MODULE NoteHistoryProofs -------------------------
(***************************************************************************)
(* A note can always be loaded, nothing that was saved is dropped,         *)
(* conflicts are exact and what a browser saves wins, for every set of     *)
(* replicas and editors and every bound.                                   *)
(*                                                                         *)
(* IInv keeps documents closed: Put and Merge are the only steps that      *)
(* change a document, both only add to it, and what Merge adds is closed.  *)
(* HInv keeps the saves of one replica following each other: it holds      *)
(* whatever it has written, and it runs one commit at a time. What a       *)
(* revision follows, and the clock of a browser that has observed every    *)
(* timestamp of a document, are recursive functions; what they compute is  *)
(* proved by the induction and the recursion of module Induction.          *)
(***************************************************************************)
EXTENDS NoteHistory, Induction

(* Editors work on replicas. *)
LEMMA HomeIsReplica == \A e \in Editor : Home[e] \in Replica
BY ConstantsAssumption

(* In a closed document whose records refer to what they were written on, *)
(* whatever is asserted or followed is stored.                            *)
LEMMA ClosedIsLoadable ==
    ASSUME IInv
    PROVE  HeadsLoadable /\ PredecessorsLoadable
<1> USE DEF IInv, Shape, DocsClosed, ReferencesHeld, Docs!Closed, Revisions
<1>1. ASSUME NEW r \in Replica, NEW h \in HeadPuts(doc[r])
      PROVE  rec[h].asserts \in Revisions(doc[r])
  <2>1. h \in doc[r] /\ h \in 1..made /\ past[h] \subseteq doc[r]
    BY <1>1 DEF HeadPuts
  <2>2. References(h)
    BY <2>1
  <2> QED BY <1>1, <2>1, <2>2 DEF References, HeadPuts
<1>2. ASSUME NEW r \in Replica, NEW c \in Revisions(doc[r])
      PROVE  rec[c].preds \subseteq Revisions(doc[r])
  <2>1. c \in doc[r] /\ c \in 1..made /\ past[c] \subseteq doc[r]
    BY <1>2
  <2>2. References(c)
    BY <2>1
  <2> QED BY <1>2, <2>1, <2>2 DEF References
<1> QED BY <1>1, <1>2 DEF HeadsLoadable, PredecessorsLoadable

(* What a save follows is stored where it was read. *)
LEMMA PredecessorsStored ==
    ASSUME IInv, NEW r \in Replica
    PROVE  Predecessors(doc[r]) \subseteq Revisions(doc[r])
<1>1. HeadsLoadable
  BY ClosedIsLoadable
<1>2. Asserted(doc[r]) \subseteq Revisions(doc[r])
  BY <1>1 DEF HeadsLoadable, Asserted
<1> QED BY <1>2 DEF Predecessors, Shown, Conflict

(* A put keeps every document closed and every earlier record as it was. *)
LEMMA PutGrows ==
    ASSUME IInv, NEW r \in Replica, NEW STATE record, Put(r, record)
    PROVE  /\ NextChange \in Change /\ NextChange \notin 1..made
           /\ made' = NextChange /\ made' \in 0..MaxChanges
           /\ rec' = [c \in Change |-> rec'[c]]
           /\ rec'[NextChange] = record
           /\ \A c \in 1..made : rec'[c] = rec[c]
           /\ past' \in [Change -> SUBSET (1..made')]
           /\ past'[NextChange] = doc[r]
           /\ \A c \in 1..made : past'[c] = past[c]
           /\ doc' \in [Replica -> SUBSET (1..made')]
           /\ doc'[r] = doc[r] \cup {NextChange}
           /\ \A q \in Replica : q # r => doc'[q] = doc[q]
           /\ DocsClosed'
<1> USE DEF IInv, Shape
<1>1. /\ NextChange \in Change /\ NextChange \notin 1..made
      /\ made' = NextChange /\ made' \in 0..MaxChanges
      /\ 1..made' = 1..made \cup {NextChange}
      /\ 1..made \subseteq Change
  BY ConstantsAssumption DEF Put, NextChange, Change
<1>2. /\ past' = [past EXCEPT ![NextChange] = doc[r]]
      /\ doc' = [doc EXCEPT ![r] = @ \cup {NextChange}]
      /\ rec' = [rec EXCEPT ![NextChange] = record]
  BY DEF Put, Docs!Write
<1>3. /\ rec' = [c \in Change |-> rec'[c]]
      /\ rec'[NextChange] = record
      /\ \A c \in 1..made : rec'[c] = rec[c]
  BY <1>1, <1>2
<1>4. /\ past' \in [Change -> SUBSET (1..made')]
      /\ past'[NextChange] = doc[r]
      /\ \A c \in 1..made : past'[c] = past[c]
  BY <1>1, <1>2
<1>5. /\ doc' \in [Replica -> SUBSET (1..made')]
      /\ doc'[r] = doc[r] \cup {NextChange}
      /\ \A q \in Replica : q # r => doc'[q] = doc[q]
  BY <1>1, <1>2
<1>6. ASSUME NEW q \in Replica, NEW c \in doc'[q]
      PROVE  past'[c] \subseteq doc'[q]
  <2>1. CASE c \in doc[q]
    <3>1. c \in 1..made /\ past[c] \subseteq doc[q]
      BY <2>1 DEF DocsClosed, Docs!Closed
    <3> QED BY <3>1, <1>4, <1>5
  <2>2. CASE q = r /\ c = NextChange
    BY <2>2, <1>4, <1>5
  <2> QED BY <1>6, <2>1, <2>2, <1>5
<1>7. DocsClosed'
  BY <1>6 DEF DocsClosed, Docs!Closed
<1> QED BY <1>1, <1>3, <1>4, <1>5, <1>7

(* Hence whatever a replica held is still held, and is the same record. *)
LEMMA PutKeeps ==
    ASSUME IInv, NEW r \in Replica, NEW STATE record, Put(r, record)
    PROVE  /\ \A q \in Replica : Revisions(doc[q]) \subseteq Revisions(doc[q])'
           /\ \A S \in SUBSET (1..made) : Revisions(S) \subseteq Revisions(S)'
           /\ \A c \in 1..made : References(c)'
<1>1. /\ \A c \in 1..made : rec'[c] = rec[c] /\ past'[c] = past[c]
      /\ \A q \in Replica : doc[q] \subseteq doc'[q]
  BY PutGrows
<1>2. \A S \in SUBSET (1..made) : Revisions(S) \subseteq Revisions(S)'
  BY <1>1 DEF Revisions
<1>3. \A q \in Replica : Revisions(doc[q]) \subseteq Revisions(doc[q])'
  BY <1>1 DEF Revisions, IInv, Shape
<1>4. ASSUME NEW c \in 1..made PROVE References(c)'
  <2>1. References(c) /\ past[c] \in SUBSET (1..made)
    <3>1. c \in Change
      BY ConstantsAssumption DEF IInv, Shape, Change
    <3> QED BY <3>1 DEF IInv, Shape, ReferencesHeld
  <2>2. rec'[c] = rec[c] /\ past'[c] = past[c] /\ Revisions(past[c]) \subseteq Revisions(past[c])'
    BY <1>1, <2>1 DEF Revisions
  <2> QED BY <2>1, <2>2 DEF References
<1> QED BY <1>2, <1>3, <1>4

-----------------------------------------------------------------------------
(* The steps.                                                              *)

(* The reads and the load of an editor change no document. *)
LEMMA ReadStep == ASSUME IInv, NEW e \in Editor, Read(e) PROVE IInv'
BY DEF IInv, Shape, DocsClosed, ReferencesHeld, References, PlanHeld, StoredLoadable, Docs!Closed,
       Revisions, Read, docVars

LEMMA LoadStep == ASSUME IInv, NEW e \in Editor, Load(e) PROVE IInv'
<1> DEFINE r == Home[e]
<1>1. r \in Replica
  BY HomeIsReplica
<1>2. UNCHANGED <<docVars, rec, stored>>
  BY DEF Load
<1>3. plan' \in {plan, [plan EXCEPT ![e] = Predecessors(doc[r])]}
  BY DEF Load
<1>4. Predecessors(doc[r]) \subseteq Revisions(doc[r])
  BY <1>1, PredecessorsStored
<1>5. Revisions(doc[r]) \subseteq Change
  BY <1>1, ConstantsAssumption DEF IInv, Shape, Revisions, Change
<1>6. /\ \A x \in Editor : plan'[x] \subseteq Revisions(doc[Home[x]])
      /\ plan' \in [Editor -> SUBSET Change]
  BY <1>3, <1>4, <1>5 DEF IInv, Shape, PlanHeld
<1>7. PlanHeld'
  BY <1>2, <1>6 DEF PlanHeld, Revisions, docVars
<1>8. Shape' /\ DocsClosed' /\ ReferencesHeld' /\ StoredLoadable'
  BY <1>2, <1>6 DEF IInv, Shape, DocsClosed, ReferencesHeld, References, StoredLoadable,
                    Docs!Closed, Revisions, docVars
<1> QED BY <1>7, <1>8 DEF IInv

(* A put whose record refers to what its replica holds keeps the invariant. *)
LEMMA PutStep ==
    ASSUME IInv, NEW r \in Replica, NEW STATE record, Put(r, record),
           record.type \in {"revision", "commit"} => record.preds \subseteq Revisions(doc[r]),
           record.type = "head" => record.asserts \in Revisions(doc[r]),
           record.type = "commit" => record.asserts = NextChange,
           plan' \in [Editor -> SUBSET Change],
           \A x \in Editor : plan'[x] \subseteq plan[x],
           stored' \in [Editor -> Change \cup {None}],
           \A x \in Editor : \/ stored'[x] \in {None, stored[x]}
                             \/ /\ stored'[x] = NextChange /\ Home[x] = r
                                /\ record.type = "revision"
    PROVE  IInv'
<1>1. Shape' /\ DocsClosed'
  BY PutGrows DEF Shape
<1>2. ReferencesHeld'
  <2>1. /\ made' = NextChange /\ 1..made' = 1..made \cup {NextChange}
        /\ rec'[NextChange] = record /\ past'[NextChange] = doc[r]
        /\ doc[r] \in SUBSET (1..made)
    <3>1. made' = NextChange /\ rec'[NextChange] = record /\ past'[NextChange] = doc[r]
      BY PutGrows
    <3>2. made \in Nat /\ doc[r] \in SUBSET (1..made)
      BY ConstantsAssumption DEF IInv, Shape
    <3> QED BY <3>1, <3>2 DEF NextChange
  <2>2. \A c \in Revisions(doc[r]) : c \in doc[r] /\ rec'[c].type \in {"revision", "commit"}
    BY <2>1, PutGrows DEF Revisions
  <2>3. \A c \in 1..made : References(c)'
    BY PutKeeps
  <2>4. References(made)'
    BY <2>1, <2>2 DEF References, Revisions
  <2> QED BY <2>1, <2>3, <2>4 DEF ReferencesHeld
<1>3. PlanHeld'
  <2>1. \A x \in Editor : plan'[x] \subseteq Revisions(doc[Home[x]])
    BY DEF IInv, PlanHeld
  <2> QED BY <2>1, PutKeeps, HomeIsReplica DEF PlanHeld
<1>4. StoredLoadable'
  <2>1. ASSUME NEW x \in Editor, stored'[x] # None
        PROVE  stored'[x] \in Revisions(doc[Home[x]])'
    <3>1. CASE stored'[x] = stored[x]
      BY <3>1, <2>1, PutKeeps, HomeIsReplica DEF IInv, StoredLoadable
    <3>2. CASE stored'[x] = NextChange /\ Home[x] = r /\ record.type = "revision"
      BY <3>2, PutGrows DEF Revisions
    <3> QED BY <3>1, <3>2, <2>1
  <2> QED BY <2>1 DEF StoredLoadable
<1> QED BY <1>1, <1>2, <1>3, <1>4 DEF IInv

LEMMA PutRevisionStep == ASSUME IInv, NEW e \in Editor, NEW wall, PutRevision(e, wall) PROVE IInv'
<1> DEFINE r == Home[e]  record == Revision("revision", e, Ticked(clock[r], wall), plan[e])
<1>1. r \in Replica
  BY HomeIsReplica
<1>2. /\ Put(r, record)
      /\ plan' = [plan EXCEPT ![e] = {}]
      /\ stored' \in {stored, [stored EXCEPT ![e] = NextChange]}
  BY DEF PutRevision
<1>3. record.type = "revision" /\ record.preds = plan[e]
  BY DEF Revision
<1>4. plan[e] \subseteq Revisions(doc[r]) /\ NextChange \in Change
  BY <1>1, <1>2, PutGrows DEF IInv, PlanHeld
<1>5. /\ plan' \in [Editor -> SUBSET Change]
      /\ \A x \in Editor : plan'[x] \subseteq plan[x]
      /\ stored' \in [Editor -> Change \cup {None}]
      /\ \A x \in Editor : stored'[x] = stored[x] \/ (stored'[x] = NextChange /\ x = e)
  BY <1>2, <1>4 DEF IInv, Shape
<1> QED
  <2> HIDE DEF record
  <2> QED BY <1>1, <1>2, <1>3, <1>4, <1>5, PutStep

LEMMA SetHeadStep == ASSUME IInv, NEW e \in Editor, SetHead(e) PROVE IInv'
<1> DEFINE r == Home[e]  record == HeadRecord(stored[e])
<1>1. r \in Replica
  BY HomeIsReplica
<1>2. /\ Put(r, record) /\ stored[e] \in doc[r]
      /\ plan' = plan
      /\ stored' = [stored EXCEPT ![e] = None]
  BY DEF SetHead
<1>3. record.type = "head" /\ record.asserts = stored[e]
  BY DEF HeadRecord
<1>4. stored[e] \in Revisions(doc[r])
  BY <1>1, <1>2, ConstantsAssumption DEF IInv, Shape, StoredLoadable, None
<1>5. /\ stored' \in [Editor -> Change \cup {None}]
      /\ \A x \in Editor : stored'[x] \in {None, stored[x]}
  BY <1>2 DEF IInv, Shape
<1>6. plan' \in [Editor -> SUBSET Change]
  BY <1>2 DEF IInv, Shape
<1> QED
  <2> HIDE DEF record
  <2> QED BY <1>1, <1>2, <1>3, <1>4, <1>5, <1>6, PutStep

LEMMA BrowserCommitStep ==
    ASSUME IInv, NEW e \in Editor, NEW wall, BrowserCommit(e, wall) PROVE IInv'
<1> DEFINE r == Home[e]
           record == Revision("commit", e, BrowserTime(doc[r], wall), Predecessors(doc[r]))
<1>1. r \in Replica
  BY HomeIsReplica
<1>2. Put(r, record) /\ plan' = plan /\ stored' = stored
  BY DEF BrowserCommit
<1>3. /\ record.type = "commit" /\ record.asserts = NextChange
      /\ record.preds = Predecessors(doc[r])
  BY DEF Revision
<1>4. Predecessors(doc[r]) \subseteq Revisions(doc[r])
  BY <1>1, PredecessorsStored
<1>5. plan' \in [Editor -> SUBSET Change] /\ stored' \in [Editor -> Change \cup {None}]
  BY <1>2 DEF IInv, Shape
<1> QED
  <2> HIDE DEF record
  <2> QED BY <1>1, <1>2, <1>3, <1>4, <1>5, PutStep

(* A merge adds a closed set to one document. *)
LEMMA MergeStep == ASSUME IInv, NEW r \in Replica, Merge(r) PROVE IInv'
<1>1. PICK q \in Replica : \E c \in doc[q] \ doc[r] : Docs!Merge(r, past[c] \cup {c})
  BY DEF Merge
<1>2. PICK c \in doc[q] \ doc[r] : Docs!Merge(r, past[c] \cup {c})
  BY <1>1
<1> DEFINE S == past[c] \cup {c}
<1>3. /\ UNCHANGED <<made, rec, plan, stored>>
      /\ past' = past
      /\ doc' = [doc EXCEPT ![r] = @ \cup S]
      /\ Docs!Closed(doc[r] \cup S)
  BY <1>2 DEF Merge, Docs!Merge, editVars
<1>4. c \in Change /\ S \subseteq 1..made
  BY <1>2, ConstantsAssumption DEF IInv, Shape, Change
<1>5. /\ doc' \in [Replica -> SUBSET (1..made)]
      /\ \A p \in Replica : doc[p] \subseteq doc'[p] /\ doc'[p] \in {doc[p], doc[r] \cup S}
  <2> HIDE DEF S
  <2> QED BY <1>3, <1>4 DEF IInv, Shape
<1>6. Shape'
  BY <1>3, <1>5 DEF IInv, Shape
<1>7. DocsClosed'
  <2> HIDE DEF S
  <2> QED BY <1>3, <1>5 DEF IInv, DocsClosed, Docs!Closed
<1>8. ReferencesHeld'
  BY <1>3 DEF IInv, ReferencesHeld, References, Revisions
<1>9. \A p \in Replica : Revisions(doc[p]) \subseteq Revisions(doc[p])'
  BY <1>3, <1>5 DEF Revisions
<1>10. PlanHeld' /\ StoredLoadable'
  BY <1>3, <1>9, HomeIsReplica DEF IInv, PlanHeld, StoredLoadable
<1> QED BY <1>6, <1>7, <1>8, <1>10 DEF IInv

(* A crash ends the operations under way and keeps the documents. *)
LEMMA CrashStep == ASSUME IInv, NEW r \in Replica, Crash(r) PROVE IInv'
<1>1. /\ UNCHANGED <<docVars, rec>>
      /\ plan' = [e \in Editor |-> IF Home[e] = r THEN {} ELSE plan[e]]
      /\ stored' = [e \in Editor |-> IF Home[e] = r THEN None ELSE stored[e]]
  BY DEF Crash
<1>2. /\ plan' \in [Editor -> SUBSET Change]
      /\ stored' \in [Editor -> Change \cup {None}]
      /\ \A e \in Editor : plan'[e] \in {{}, plan[e]} /\ stored'[e] \in {None, stored[e]}
  BY <1>1 DEF IInv, Shape
<1>3. Shape' /\ DocsClosed' /\ ReferencesHeld'
  BY <1>1, <1>2 DEF IInv, Shape, DocsClosed, ReferencesHeld, References, Docs!Closed, Revisions,
                    docVars
<1>4. PlanHeld' /\ StoredLoadable'
  <2>1. \A p \in Replica : Revisions(doc[p])' = Revisions(doc[p])
    BY <1>1 DEF Revisions, docVars
  <2> QED BY <1>2, <2>1, HomeIsReplica DEF IInv, PlanHeld, StoredLoadable
<1> QED BY <1>3, <1>4 DEF IInv

-----------------------------------------------------------------------------
(* The invariant holds in every reachable state, and with it the property. *)

LEMMA InitIInv == Init => IInv
<1> SUFFICES ASSUME Init PROVE IInv
  OBVIOUS
<1>1. Shape
  BY ConstantsAssumption DEF Init, Shape
<1>2. \A r \in Replica : doc[r] = {}
  BY DEF Init
<1>3. 1..made = {}
  BY DEF Init
<1>4. DocsClosed /\ ReferencesHeld
  BY <1>2, <1>3 DEF DocsClosed, Docs!Closed, ReferencesHeld
<1>5. PlanHeld /\ StoredLoadable
  BY DEF Init, PlanHeld, StoredLoadable
<1> QED BY <1>1, <1>4, <1>5 DEF IInv

LEMMA NextIInv == IInv /\ [Next]_vars => IInv'
<1> SUFFICES ASSUME IInv, [Next]_vars PROVE IInv'
  OBVIOUS
<1>1. CASE UNCHANGED vars
  BY <1>1 DEF IInv, Shape, DocsClosed, ReferencesHeld, References, PlanHeld, StoredLoadable,
              Docs!Closed, Revisions, vars, docVars, editVars
<1>2. ASSUME NEW e \in Editor, Read(e) \/ Load(e) \/ SetHead(e) PROVE IInv'
  BY <1>2, ReadStep, LoadStep, SetHeadStep
<1>3. ASSUME NEW e \in Editor, NEW wall \in 1..budget.wall,
             PutRevision(e, wall) \/ BrowserCommit(e, wall)
      PROVE  IInv'
  BY <1>3, PutRevisionStep, BrowserCommitStep
<1>4. ASSUME NEW r \in Replica, Merge(r) \/ Crash(r) PROVE IInv'
  BY <1>4, MergeStep, CrashStep
<1> QED BY <1>1, <1>2, <1>3, <1>4 DEF Next

(* What a replica holds can always be loaded, and a stored revision always *)
(* be asserted: WorkspaceRecords::load_note and set_head never fail for    *)
(* want of a revision, however merges, commits and crashes interleave.     *)
THEOREM AlwaysLoadable == Spec => []Loadable
<1>1. Spec => []IInv
  BY InitIInv, NextIInv, PTL DEF Spec
<1>2. IInv => Loadable
  BY ClosedIsLoadable DEF Loadable, IInv
<1> QED BY <1>1, <1>2, PTL

-----------------------------------------------------------------------------
(* Hybrid timestamps.                                                      *)

AtLeast(t, u) == u.ms < t.ms \/ (u.ms = t.ms /\ u.tick <= t.tick)
Later(t, u) == u.ms < t.ms \/ (u.ms = t.ms /\ u.tick < t.tick)

(* A tick moves a clock forward unless its counter is used up.             *)
LEMMA TickedTime ==
    ASSUME NEW now \in Time, NEW wall \in Nat
    PROVE  /\ Ticked(now, wall) \in Time
           /\ Ticked(now, wall).tick # MaxTick => Later(Ticked(now, wall), now)
<1>1. MaxTick \in Nat
  BY ConstantsAssumption
<1>2. CASE wall > now.ms
  BY <1>1, <1>2 DEF Ticked, Time, Later
<1>3. CASE ~(wall > now.ms)
  <2>1. Increment(now.tick) \in 0..MaxTick
        /\ (Increment(now.tick) # MaxTick => now.tick < Increment(now.tick))
    BY <1>1 DEF Time, Increment, LeastOf
  <2>2. Ticked(now, wall) = [now EXCEPT !.tick = Increment(@)]
    BY <1>3 DEF Ticked
  <2> QED BY <2>1, <2>2 DEF Time, Later
<1> QED BY <1>2, <1>3

(* An observation takes a clock to the remote timestamp and never back.    *)
LEMMA ObservedTime ==
    ASSUME NEW now \in Time, NEW remote \in Time, NEW wall \in Nat
    PROVE  /\ Observed(now, remote, wall) \in Time
           /\ AtLeast(Observed(now, remote, wall), now)
           /\ AtLeast(Observed(now, remote, wall), remote)
<1> DEFINE ms == GreatestOf(wall, GreatestOf(now.ms, remote.ms))
           tick == Observed(now, remote, wall).tick
<1>1. MaxTick \in Nat /\ now.ms \in Nat /\ remote.ms \in Nat
      /\ now.tick \in 0..MaxTick /\ remote.tick \in 0..MaxTick
  BY ConstantsAssumption DEF Time
<1>2. ms \in Nat /\ now.ms <= ms /\ remote.ms <= ms /\ Observed(now, remote, wall).ms = ms
  BY <1>1 DEF Observed, GreatestOf
<1>3. \A t \in 0..MaxTick : Increment(t) \in 0..MaxTick /\ t <= Increment(t)
  BY <1>1 DEF Increment, LeastOf
<1>4. GreatestOf(now.tick, remote.tick) \in 0..MaxTick
      /\ now.tick <= GreatestOf(now.tick, remote.tick)
      /\ remote.tick <= GreatestOf(now.tick, remote.tick)
  BY <1>1 DEF GreatestOf
<1>5. tick = IF ms = now.ms /\ ms = remote.ms THEN Increment(GreatestOf(now.tick, remote.tick))
             ELSE IF ms = now.ms THEN Increment(now.tick)
             ELSE IF ms = remote.ms THEN Increment(remote.tick)
             ELSE 0
  BY DEF Observed
<1>6. Observed(now, remote, wall) = [ms |-> ms, tick |-> tick]
  BY DEF Observed
<1> HIDE DEF ms, tick
<1>7. tick \in 0..MaxTick
  BY <1>1, <1>3, <1>4, <1>5
<1>8. ms = now.ms => now.tick <= tick
  BY <1>1, <1>3, <1>4, <1>5
<1>9. ms = remote.ms => remote.tick <= tick
  BY <1>1, <1>3, <1>4, <1>5
<1> QED BY <1>1, <1>2, <1>6, <1>7, <1>8, <1>9 DEF AtLeast, Time

-----------------------------------------------------------------------------
(* The order of revisions, and the browser's clock.                        *)

BeforePairs == {p \in Change \X Change : Before(p[1], p[2])}

(* Timestamp, author and identity order all records: no two are equal.     *)
LEMMA BeforeOrders ==
    TypeOK => /\ \A S \in SUBSET Change : Orders(BeforePairs, S)
              /\ \A x, y \in Change : <<x, y>> \in BeforePairs <=> Before(x, y)
              /\ \A x, y \in Change : Before(x, y) => ~Before(y, x)
<1> SUFFICES ASSUME TypeOK
             PROVE  /\ \A S \in SUBSET Change : Orders(BeforePairs, S)
                    /\ \A x, y \in Change : <<x, y>> \in BeforePairs <=> Before(x, y)
                    /\ \A x, y \in Change : Before(x, y) => ~Before(y, x)
  OBVIOUS
<1> DEFINE T(x) == rec[x].time  A(x) == Rank[author[x]]
<1>1. \A x \in Change : /\ x \in Int /\ T(x).ms \in Nat /\ T(x).tick \in Int /\ A(x) \in Nat
                        /\ T(x) = [ms |-> T(x).ms, tick |-> T(x).tick]
  <2> SUFFICES ASSUME NEW x \in Change
               PROVE  /\ x \in Int /\ T(x).ms \in Nat /\ T(x).tick \in Int /\ A(x) \in Nat
                      /\ T(x) = [ms |-> T(x).ms, tick |-> T(x).tick]
    OBVIOUS
  <2>1. rec[x] \in Record /\ author[x] \in Replica
    BY DEF TypeOK
  <2>2. T(x) \in Time
    BY <2>1 DEF Record
  <2>3. x \in Int /\ MaxTick \in Nat /\ A(x) \in Nat
    BY <2>1, ConstantsAssumption DEF Change
  <2> HIDE DEF T, A
  <2> QED BY <2>2, <2>3 DEF Time
<1>2. \A x, y : Before(x, y) <=>
                   (\/ T(x).ms < T(y).ms
                    \/ T(x).ms = T(y).ms /\ T(x).tick < T(y).tick
                    \/ T(x) = T(y) /\ (A(x) < A(y) \/ (A(x) = A(y) /\ x < y)))
  BY DEF Before
<1> HIDE DEF T, A
<1>3. \A x, y \in Change : T(x) = T(y) <=> T(x).ms = T(y).ms /\ T(x).tick = T(y).tick
  BY <1>1, Zenon
<1>4. \A x, y \in Change : x # y => Before(x, y) \/ Before(y, x)
  BY <1>1, <1>2, <1>3
<1>5. \A x, y, z \in Change : Before(x, y) /\ Before(y, z) => Before(x, z)
  BY <1>1, <1>2, <1>3
<1>6. \A x, y \in Change : Before(x, y) => ~Before(y, x)
  BY <1>1, <1>2, <1>3
<1>7. \A x, y \in Change : <<x, y>> \in BeforePairs <=> Before(x, y)
  BY DEF BeforePairs
<1>8. ASSUME NEW S \in SUBSET Change PROVE Orders(BeforePairs, S)
  BY <1>4, <1>5, <1>7 DEF Orders
<1> QED BY <1>6, <1>7, <1>8

(* The browser finds the revisions of a document in that order.            *)
LEMMA TimestampsListed ==
    ASSUME TypeOK, NEW D \in SUBSET Change
    PROVE  LET R == Revisions(D)  n == Cardinality(R)  s == Timestamps(D) IN
           n \in Nat /\ s \in [1..n -> R] /\ \A x \in R : \E i \in 1..n : s[i] = x
<1> DEFINE R == Revisions(D)  n == Cardinality(R)
           InOrder(s) == /\ \A i, j \in 1..n : i < j => Before(s[i], s[j])
                         /\ \A x \in R : \E i \in 1..n : s[i] = x
<1>1. R \in SUBSET Change /\ R \subseteq 1..MaxChanges /\ MaxChanges \in Nat
  <2>1. R \subseteq D
    BY DEF Revisions
  <2> QED BY <2>1, ConstantsAssumption DEF Change
<1>2. Orders(BeforePairs, R)
  BY <1>1, BeforeOrders
<1> HIDE DEF R
<1>3. n \in Nat /\ \E s \in [1..n -> R] : Lists(s, BeforePairs, R)
  BY <1>1, <1>2, ListingExists
<1>4. PICK s \in [1..n -> R] : Lists(s, BeforePairs, R)
  BY <1>3
<1>5. \A i \in 1..n : s[i] \in Change
  BY <1>1, <1>4
<1>6. InOrder(s)
  BY <1>4, <1>5, BeforeOrders DEF Lists
<1>7. Timestamps(D) = CHOOSE q \in [1..n -> R] : InOrder(q)
  BY DEF Timestamps, R
<1> HIDE DEF n, InOrder
<1>8. Timestamps(D) \in [1..n -> R] /\ InOrder(Timestamps(D))
  BY <1>4, <1>6, <1>7
<1> QED BY <1>3, <1>8 DEF InOrder, n, R

(* The clock that has observed every timestamp of a document gives a later *)
(* one, unless its counter is used up.                                     *)
LEMMA BrowserTimeLater ==
    ASSUME TypeOK, NEW D \in SUBSET Change, NEW wall \in Nat
    PROVE  LET time == BrowserTime(D, wall) IN
           /\ time \in Time
           /\ time.tick # MaxTick => \A x \in Revisions(D) : Later(time, rec[x].time)
<1> DEFINE R == Revisions(D)  n == Cardinality(R)  s == Timestamps(D)
           now == CHOOSE now : now = [i \in 0..n |->
                    IF i = 0 THEN StartClock ELSE Observed(now[i - 1], rec[s[i]].time, wall)]
           time == BrowserTime(D, wall)
<1>1. n \in Nat /\ s \in [1..n -> R] /\ \A x \in R : \E i \in 1..n : s[i] = x
  BY TimestampsListed
<1>2. \A x \in R : rec[x].time \in Time
  <2>1. R \subseteq Change
    BY DEF Revisions
  <2> QED BY <2>1 DEF TypeOK, Record
<1>3. StartClock \in Time
  BY ConstantsAssumption DEF StartClock, Time
<1>4. time = Ticked(now[n], wall)
  BY DEF BrowserTime
<1> HIDE DEF R, n, s, time, now
<1> DEFINE Remote(i) == rec[s[i]].time
           Good(f, k) == /\ f[0] = StartClock
                         /\ \A i \in 1..n : i <= k => f[i] = Observed(f[i - 1], Remote(i), wall)
           G == {k \in Nat : \E f \in [0..n -> Time] : Good(f, k)}
<1>5. \A i \in 1..n : Remote(i) \in Time
  BY <1>1, <1>2
<1> HIDE DEF Remote
<1>6. 0 \in G
  <2>1. [i \in 0..n |-> StartClock] \in [0..n -> Time]
    BY <1>3
  <2>2. Good([i \in 0..n |-> StartClock], 0)
    BY <1>1
  <2> QED BY <2>1, <2>2
<1>7. ASSUME NEW k \in Nat, k \in G PROVE k + 1 \in G
  <2>1. PICK f \in [0..n -> Time] : Good(f, k)
    BY <1>7
  <2> DEFINE v == Observed(f[k], Remote(k + 1), wall)
             g == [i \in 0..n |-> IF i = k + 1 THEN v ELSE f[i]]
  <2>2. k + 1 \in 1..n => v \in Time
    <3>1. k + 1 \in 1..n => f[k] \in Time /\ Remote(k + 1) \in Time
      <4>1. k + 1 \in 1..n => k \in 0..n
        BY <1>1
      <4> QED BY <1>5, <2>1, <4>1
    <3> QED BY <3>1, ObservedTime
  <2> HIDE DEF v
  <2>3. g \in [0..n -> Time]
    BY <2>2
  <2>4. g[0] = StartClock
    BY <1>1, <2>1
  <2>5. ASSUME NEW i \in 1..n, i <= k + 1 PROVE g[i] = Observed(g[i - 1], Remote(i), wall)
    <3>1. i - 1 \in 0..n /\ i \in 0..n /\ g[i - 1] = f[i - 1]
      BY <1>1, <2>5
    <3>2. CASE i = k + 1
      <4>1. g[i] = v /\ i - 1 = k
        BY <3>1, <3>2
      <4> HIDE DEF g
      <4> QED BY <3>1, <3>2, <4>1 DEF v
    <3>3. CASE i # k + 1
      <4>1. g[i] = f[i] /\ i <= k
        BY <2>5, <3>1, <3>3
      <4>2. f[i] = Observed(f[i - 1], Remote(i), wall)
        BY <2>1, <4>1
      <4> HIDE DEF g
      <4> QED BY <3>1, <4>1, <4>2
    <3> QED BY <3>2, <3>3
  <2> HIDE DEF g
  <2>6. Good(g, k + 1)
    BY <2>4, <2>5
  <2> HIDE DEF Good
  <2>7. \E h \in [0..n -> Time] : Good(h, k + 1)
    BY <2>3, <2>6
  <2> QED BY <2>7
<1> HIDE DEF G
<1>8. n \in G
  BY <1>1, <1>6, <1>7, NatInduct
<1>9. PICK f \in [0..n -> Time] : Good(f, n)
  BY <1>8 DEF G
<1>10. f = [i \in 0..n |-> IF i = 0 THEN StartClock ELSE Observed(f[i - 1], Remote(i), wall)]
  <2>1. \A i \in 0..n : i = 0 \/ (i \in 1..n /\ i <= n)
    BY <1>1
  <2>2. \A i \in 0..n : f[i] = IF i = 0 THEN StartClock ELSE Observed(f[i - 1], Remote(i), wall)
    BY <1>9, <2>1
  <2> QED BY <2>2
<1>11. now = [i \in 0..n |-> IF i = 0 THEN StartClock ELSE Observed(now[i - 1], Remote(i), wall)]
  BY <1>10 DEF now, Remote
<1>12. /\ n = 0 => now[n] = StartClock
       /\ \A i \in 1..n : now[i] = Observed(now[i - 1], Remote(i), wall)
       /\ now[0] = StartClock
  BY <1>1, <1>11
<1> HIDE DEF Good
<1> DEFINE Seen(k) == now[k] \in Time /\ \A i \in 1..n : i <= k => AtLeast(now[k], Remote(i))
           H == {k \in Nat : k <= n => Seen(k)}
<1>13. 0 \in H
  BY <1>3, <1>12
<1>14. ASSUME NEW k \in Nat, k \in H PROVE k + 1 \in H
  <2> SUFFICES ASSUME k + 1 <= n PROVE Seen(k + 1)
    OBVIOUS
  <2>1. k + 1 \in 1..n /\ Seen(k) /\ now[k + 1] = Observed(now[k], Remote(k + 1), wall)
    <3>1. k + 1 \in 1..n /\ Seen(k) /\ (k + 1) - 1 = k
      BY <1>1, <1>14
    <3> QED BY <1>12, <3>1
  <2>2. /\ now[k + 1] \in Time
        /\ AtLeast(now[k + 1], now[k]) /\ AtLeast(now[k + 1], Remote(k + 1))
    BY <1>5, <2>1, ObservedTime
  <2>3. ASSUME NEW i \in 1..n, i <= k + 1 PROVE AtLeast(now[k + 1], Remote(i))
    <3>1. CASE i = k + 1
      BY <2>2, <3>1
    <3>2. CASE i <= k
      <4>1. AtLeast(now[k], Remote(i)) /\ now[k] \in Time /\ Remote(i) \in Time
        BY <1>5, <2>1, <3>2
      <4>2. \A a, b, c \in Time : AtLeast(c, b) /\ AtLeast(b, a) => AtLeast(c, a)
        BY ConstantsAssumption DEF AtLeast, Time
      <4> QED BY <2>2, <4>1, <4>2
    <3> QED BY <2>3, <3>1, <3>2
  <2> QED BY <2>2, <2>3
<1> HIDE DEF H
<1>15. n \in H
  BY <1>1, <1>13, <1>14, NatInduct
<1>16. now[n] \in Time /\ \A i \in 1..n : AtLeast(now[n], Remote(i))
  BY <1>1, <1>15 DEF H
<1>17. time \in Time /\ (time.tick # MaxTick => Later(time, now[n]))
  BY <1>4, <1>16, TickedTime
<1>18. ASSUME time.tick # MaxTick, NEW x \in R PROVE Later(time, rec[x].time)
  <2>1. PICK i \in 1..n : s[i] = x
    BY <1>1
  <2>2. Remote(i) = rec[x].time /\ Remote(i) \in Time /\ AtLeast(now[n], Remote(i))
    BY <1>5, <1>16, <2>1 DEF Remote
  <2>3. \A a, b, c \in Time : Later(c, b) /\ AtLeast(b, a) => Later(c, a)
    BY ConstantsAssumption DEF AtLeast, Later, Time
  <2> QED BY <1>16, <1>17, <1>18, <2>2, <2>3
<1> QED BY <1>17, <1>18 DEF R, time

-----------------------------------------------------------------------------
(* Types.                                                                  *)

DocTypes ==
    /\ made \in 0..MaxChanges
    /\ author \in [Change -> Replica]
    /\ past \in [Change -> SUBSET Change]
    /\ doc \in [Replica -> SUBSET Change]
    /\ rec \in [Change -> Record]

EditTypes ==
    /\ clock \in [Replica -> Time]
    /\ phase \in [Editor -> {"idle", "read", "loaded", "put"}]
    /\ seen \in [Editor -> SUBSET Change]
    /\ plan \in [Editor -> SUBSET Change]
    /\ stored \in [Editor -> Change \cup {None}]
    /\ \A e \in Editor : stored[e] # None <=> phase[e] = "put"
    /\ budget \in [saves : [Editor -> Nat], crashes : Nat, wall : Nat]

LEMMA TypeParts == TypeOK <=> DocTypes /\ EditTypes
BY DEF TypeOK, DocTypes, EditTypes

(* A put of a record keeps the documents' types.                           *)
LEMMA PutTypes ==
    ASSUME TypeOK, NEW r \in Replica, NEW record \in Record, Put(r, record)
    PROVE  DocTypes' /\ NextChange \in Change /\ NextChange # None
<1>1. NextChange \in Change /\ NextChange # None /\ NextChange \in 0..MaxChanges
  BY ConstantsAssumption DEF TypeOK, Put, NextChange, Change, None
<1>2. /\ made' = NextChange
      /\ author' = [author EXCEPT ![NextChange] = r]
      /\ past' = [past EXCEPT ![NextChange] = doc[r]]
      /\ doc' = [doc EXCEPT ![r] = @ \cup {NextChange}]
      /\ rec' = [rec EXCEPT ![NextChange] = record]
  BY DEF Put, Docs!Write
<1>3. made' \in 0..MaxChanges /\ author' \in [Change -> Replica]
  BY <1>1, <1>2 DEF TypeOK
<1>4. past' \in [Change -> SUBSET Change] /\ doc' \in [Replica -> SUBSET Change]
  BY <1>1, <1>2 DEF TypeOK
<1>5. rec' \in [Change -> Record]
  BY <1>1, <1>2 DEF TypeOK
<1> QED BY <1>1, <1>3, <1>4, <1>5 DEF DocTypes

(* What a save follows and what a note shows are changes. *)
LEMMA PredecessorsType ==
    ASSUME IInv, NEW r \in Replica
    PROVE  Predecessors(doc[r]) \subseteq Change
<1>1. doc[r] \subseteq Change
  BY ConstantsAssumption DEF IInv, Shape, Change
<1> QED BY <1>1, PredecessorsStored DEF Revisions

(* The record of a new revision.                                           *)
LEMMA RevisionType ==
    ASSUME NEW type \in {"revision", "commit"}, NEW e \in Editor, NEW time \in Time,
           NEW preds \in SUBSET Change, NextChange \in Change
    PROVE  Revision(type, e, time, preds) \in Record
BY DEF Revision, Record

LEMMA PutRevisionTypes ==
    ASSUME IInv, TypeOK, NEW e \in Editor, NEW wall \in Nat, PutRevision(e, wall)
    PROVE  TypeOK'
<1> DEFINE r == Home[e]  time == Ticked(clock[r], wall)
           record == Revision("revision", e, time, plan[e])
<1>1. r \in Replica
  BY HomeIsReplica
<1>2. time \in Time
  BY <1>1, TickedTime DEF TypeOK
<1>3. /\ phase[e] = "loaded" /\ Put(r, record)
      /\ clock' = [clock EXCEPT ![r] = time]
      /\ plan' = [plan EXCEPT ![e] = {}]
      /\ seen' = [seen EXCEPT ![e] = {}]
      /\ budget' = budget
      /\ \/ Goto(e, "put") /\ stored' = [stored EXCEPT ![e] = NextChange]
         \/ Goto(e, "idle") /\ UNCHANGED stored
  BY DEF PutRevision
<1> HIDE DEF time
<1>4. NextChange \in Change
  BY ConstantsAssumption DEF TypeOK, Put, PutRevision, NextChange, Change
<1>5. record \in Record
  BY <1>2, <1>4, RevisionType DEF TypeOK
<1> HIDE DEF record
<1>6. DocTypes' /\ NextChange \in Change /\ NextChange # None
  BY <1>1, <1>3, <1>5, PutTypes
<1>7. EditTypes'
  <2>1. EditTypes
    BY TypeParts
  <2>2. /\ clock' \in [Replica -> Time] /\ plan' \in [Editor -> SUBSET Change]
        /\ seen' \in [Editor -> SUBSET Change]
        /\ budget' \in [saves : [Editor -> Nat], crashes : Nat, wall : Nat]
    BY <1>2, <1>3, <2>1 DEF EditTypes
  <2>3. /\ phase' \in [Editor -> {"idle", "read", "loaded", "put"}]
        /\ stored' \in [Editor -> Change \cup {None}]
        /\ \A x \in Editor : stored'[x] # None <=> phase'[x] = "put"
    BY <1>3, <1>6, <2>1 DEF EditTypes, Goto
  <2> QED BY <2>2, <2>3 DEF EditTypes
<1> QED BY <1>6, <1>7, TypeParts, PTL

LEMMA SetHeadTypes == ASSUME IInv, TypeOK, NEW e \in Editor, SetHead(e) PROVE TypeOK'
<1> DEFINE r == Home[e]  record == HeadRecord(stored[e])
<1>1. r \in Replica
  BY HomeIsReplica
<1>2. /\ phase[e] = "put" /\ Put(r, record)
      /\ Goto(e, "idle") /\ stored' = [stored EXCEPT ![e] = None]
      /\ UNCHANGED <<clock, seen, plan, budget>>
  BY DEF SetHead
<1>3. record \in Record
  BY ConstantsAssumption DEF TypeOK, HeadRecord, Record, StartClock, Time
<1> HIDE DEF record
<1>4. DocTypes'
  BY <1>1, <1>2, <1>3, PutTypes
<1>5. EditTypes'
  BY <1>2 DEF TypeOK, EditTypes, Goto
<1> QED BY <1>4, <1>5, TypeParts, PTL

LEMMA BrowserCommitTypes ==
    ASSUME IInv, TypeOK, NEW e \in Editor, NEW wall \in Nat, BrowserCommit(e, wall)
    PROVE  TypeOK'
<1> DEFINE r == Home[e]  time == BrowserTime(doc[r], wall)
           record == Revision("commit", e, time, Predecessors(doc[r]))
<1>1. r \in Replica
  BY HomeIsReplica
<1>2. time \in Time
  <2>1. doc[r] \in SUBSET Change
    BY <1>1 DEF TypeOK
  <2> QED BY <2>1, BrowserTimeLater
<1>3. /\ phase[e] = "read" /\ Put(r, record)
      /\ Goto(e, "idle") /\ seen' = [seen EXCEPT ![e] = {}]
      /\ UNCHANGED <<clock, plan, stored, budget>>
  BY DEF BrowserCommit
<1> HIDE DEF time
<1>4. NextChange \in Change
  BY ConstantsAssumption DEF TypeOK, Put, BrowserCommit, NextChange, Change
<1>5. record \in Record
  BY <1>1, <1>2, <1>4, RevisionType, PredecessorsType
<1> HIDE DEF record
<1>6. DocTypes'
  BY <1>1, <1>3, <1>5, PutTypes
<1>7. EditTypes'
  BY <1>3 DEF TypeOK, EditTypes, Goto
<1> QED BY <1>6, <1>7, TypeParts, PTL

(* The steps that put no record.                                           *)
LEMMA OtherTypes ==
    ASSUME IInv, TypeOK,
           \/ \E e \in Editor : Read(e) \/ Load(e)
           \/ \E r \in Replica : Merge(r) \/ Crash(r)
           \/ UNCHANGED vars
    PROVE  TypeOK'
<1>1. CASE UNCHANGED vars
  BY <1>1 DEF TypeOK, vars, docVars, editVars
<1>2. ASSUME NEW e \in Editor, Read(e) PROVE TypeOK'
  <2>1. Predecessors(doc[Home[e]]) \subseteq Change
    BY HomeIsReplica, PredecessorsType
  <2>2. DocTypes'
    BY <1>2 DEF Read, TypeOK, DocTypes, docVars
  <2>3. /\ phase[e] = "idle"
        /\ budget' = [budget EXCEPT !.saves = [budget.saves EXCEPT ![e] = @ - 1]]
        /\ budget.saves \in [Editor -> Nat] /\ budget.saves[e] - 1 \in Nat
    BY <1>2 DEF Read, TypeOK
  <2>4. budget' \in [saves : [Editor -> Nat], crashes : Nat, wall : Nat]
    <3>1. [budget.saves EXCEPT ![e] = @ - 1] \in [Editor -> Nat]
      BY <2>3
    <3> QED BY <2>3, <3>1 DEF TypeOK
  <2>5. EditTypes'
    BY <1>2, <2>1, <2>3, <2>4 DEF Read, TypeOK, EditTypes, Goto
  <2> QED BY <2>2, <2>5, TypeParts, PTL
<1>3. ASSUME NEW e \in Editor, Load(e) PROVE TypeOK'
  <2>1. Predecessors(doc[Home[e]]) \subseteq Change
    BY HomeIsReplica, PredecessorsType
  <2>2. DocTypes'
    BY <1>3 DEF Load, TypeOK, DocTypes, docVars
  <2>3. EditTypes'
    BY <1>3, <2>1 DEF Load, TypeOK, EditTypes, Goto
  <2> QED BY <2>2, <2>3, TypeParts, PTL
<1>4. ASSUME NEW r \in Replica, Merge(r) PROVE TypeOK'
  <2>1. PICK q \in Replica : \E c \in doc[q] \ doc[r] : Docs!Merge(r, past[c] \cup {c})
    BY <1>4 DEF Merge
  <2>2. PICK c \in doc[q] \ doc[r] : Docs!Merge(r, past[c] \cup {c})
    BY <2>1
  <2>3. past[c] \cup {c} \subseteq Change
    BY <2>2 DEF TypeOK
  <2>4. doc' = [doc EXCEPT ![r] = @ \cup (past[c] \cup {c})] /\ UNCHANGED <<made, author, past>>
    BY <1>4, <2>2 DEF Merge, Docs!Merge
  <2>5. DocTypes'
    BY <1>4, <2>3, <2>4 DEF Merge, TypeOK, DocTypes
  <2>6. EditTypes /\ UNCHANGED <<clock, phase, seen, plan, stored, budget>>
    BY <1>4, TypeParts DEF Merge, editVars
  <2>7. EditTypes'
    BY <2>6, Zenon DEF EditTypes
  <2> QED BY <2>5, <2>7, TypeParts, PTL
<1>5. ASSUME NEW r \in Replica, Crash(r) PROVE TypeOK'
  <2>1. DocTypes'
    BY <1>5 DEF Crash, TypeOK, DocTypes, docVars
  <2>2. StartClock \in Time
    BY ConstantsAssumption DEF StartClock, Time
  <2>3. EditTypes
    BY TypeParts
  <2>4. /\ clock' \in [Replica -> Time] /\ plan' \in [Editor -> SUBSET Change]
        /\ seen' \in [Editor -> SUBSET Change]
        /\ budget' \in [saves : [Editor -> Nat], crashes : Nat, wall : Nat]
    BY <1>5, <2>2, <2>3 DEF Crash, EditTypes
  <2>5. /\ phase' \in [Editor -> {"idle", "read", "loaded", "put"}]
        /\ stored' \in [Editor -> Change \cup {None}]
        /\ \A x \in Editor : stored'[x] # None <=> phase'[x] = "put"
    BY <1>5, <2>3 DEF Crash, EditTypes
  <2>6. EditTypes'
    BY <2>4, <2>5 DEF EditTypes
  <2> QED BY <2>1, <2>6, TypeParts, PTL
<1> QED BY <1>1, <1>2, <1>3, <1>4, <1>5

LEMMA InitTypes == Init => TypeOK
<1> SUFFICES ASSUME Init PROVE TypeOK
  OBVIOUS
<1>1. StartClock \in Time
  BY ConstantsAssumption DEF StartClock, Time
<1>2. Blank \in Record
  BY <1>1 DEF Blank, Record
<1> HIDE DEF Blank, StartClock
<1>3. DocTypes
  BY <1>2, ConstantsAssumption DEF Init, DocTypes, Replica
<1>4. EditTypes
  BY <1>1, ConstantsAssumption DEF Init, EditTypes
<1> QED BY <1>3, <1>4, TypeParts

LEMMA NextTypes == IInv /\ TypeOK /\ [Next]_vars => TypeOK'
<1> SUFFICES ASSUME IInv, TypeOK, [Next]_vars PROVE TypeOK'
  OBVIOUS
<1>1. ASSUME NEW e \in Editor, SetHead(e) PROVE TypeOK'
  BY <1>1, SetHeadTypes
<1>2. ASSUME NEW e \in Editor, NEW wall \in 1..budget.wall,
             PutRevision(e, wall) \/ BrowserCommit(e, wall)
      PROVE  TypeOK'
  <2>1. wall \in Nat
    BY DEF TypeOK
  <2> QED BY <1>2, <2>1, PutRevisionTypes, BrowserCommitTypes
<1> QED BY <1>1, <1>2, OtherTypes DEF Next

(* Every variable keeps its type; an editor has a stored revision exactly  *)
(* between the two puts of its commit (WorkspaceSession::commit).          *)
THEOREM TypeCorrect == Spec => []TypeOK
<1>1. Init => IInv /\ TypeOK
  BY InitIInv, InitTypes
<1>2. IInv /\ TypeOK /\ [Next]_vars => IInv' /\ TypeOK'
  BY NextIInv, NextTypes
<1> QED BY <1>1, <1>2, PTL DEF Spec

-----------------------------------------------------------------------------
(* What a revision follows.                                                *)

(* A history is the predecessors and what they follow; it is older.        *)
LEMMA HistoryUnfolds ==
    TypeOK /\ Numbered =>
        /\ \A y \in Change : History[y] = rec[y].preds \cup UNION {History[p] : p \in rec[y].preds}
        /\ \A y \in Change : History[y] \subseteq 1..(y - 1) /\ History[y] \subseteq Change
        /\ \A y \in Change : rec[y].preds \subseteq Change /\ \A p \in rec[y].preds : p < y
<1> SUFFICES ASSUME TypeOK, Numbered
             PROVE  /\ \A y \in Change : History[y] = rec[y].preds \cup UNION {History[p] : p \in rec[y].preds}
                    /\ \A y \in Change : History[y] \subseteq 1..(y - 1) /\ History[y] \subseteq Change
                    /\ \A y \in Change : rec[y].preds \subseteq Change /\ \A p \in rec[y].preds : p < y
  OBVIOUS
<1> DEFINE n == MaxChanges
           P == [y \in 1..n |-> rec[y].preds]
           Unfolded(f) == [y \in Change |-> rec[y].preds \cup UNION {f[p] : p \in rec[y].preds}]
<1>1. n \in Nat /\ Change = 1..n
  BY ConstantsAssumption DEF Change
<1>2. ASSUME NEW y \in Change
      PROVE  rec[y].preds \subseteq Change /\ \A p \in rec[y].preds : p < y
  <2>1. rec[y].preds \subseteq 1..(y - 1) /\ rec[y] \in Record
    BY DEF Numbered, TypeOK
  <2>2. rec[y].preds \subseteq Change
    BY <2>1 DEF Record
  <2>3. y \in Nat
    BY <1>1
  <2> QED BY <2>1, <2>2, <2>3
<1>3. P \in [1..n -> SUBSET (1..n)] /\ \A y \in 1..n : \A p \in P[y] : p < y
  BY <1>1, <1>2
<1>4. \A y \in Change : P[y] = rec[y].preds
  BY <1>1
<1> HIDE DEF P
<1>5. PICK f \in [1..n -> SUBSET (1..n)] : f = [y \in 1..n |-> P[y] \cup UNION {f[p] : p \in P[y]}]
  BY <1>1, <1>3, ClosureExists
<1>6. f = Unfolded(f)
  BY <1>1, <1>4, <1>5
<1>7. History = CHOOSE g : g = Unfolded(g)
  BY DEF History
<1>8. History = Unfolded(History)
  <2> HIDE DEF Unfolded
  <2> QED BY <1>6, <1>7
<1>9. \A y \in Change : History[y] = rec[y].preds \cup UNION {History[p] : p \in rec[y].preds}
  BY <1>8
<1> HIDE DEF Unfolded
<1> DEFINE G == {k \in Nat : k \in Change => History[k] \subseteq 1..(k - 1)}
<1>10. ASSUME NEW y \in Nat, \A m \in 0..(y - 1) : m \in G PROVE y \in G
  <2> SUFFICES ASSUME y \in Change, NEW z \in History[y] PROVE z \in 1..(y - 1)
    OBVIOUS
  <2>1. CASE z \in rec[y].preds
    BY <2>1 DEF Numbered
  <2>2. CASE z \in UNION {History[p] : p \in rec[y].preds}
    <3>1. PICK p \in rec[y].preds : z \in History[p]
      BY <2>2
    <3>2. p \in 1..(y - 1) /\ p \in Change
      BY <1>2 DEF Numbered
    <3>3. History[p] \subseteq 1..(p - 1)
      BY <1>10, <3>2
    <3> QED BY <3>1, <3>2, <3>3
  <2> QED BY <1>9, <2>1, <2>2
<1>11. \A y \in Nat : y \in G
  <2> HIDE DEF G
  <2> QED BY <1>10, NatStrongInduct
<1>12. \A y \in Change : History[y] \subseteq 1..(y - 1) /\ History[y] \subseteq Change
  <2> SUFFICES ASSUME NEW y \in Change PROVE History[y] \subseteq 1..(y - 1) /\ History[y] \subseteq Change
    OBVIOUS
  <2>1. y \in Nat /\ y <= n /\ y \in G
    BY <1>1, <1>11
  <2> QED BY <1>1, <2>1
<1> QED BY <1>2, <1>9, <1>12

Unfolds == \A y \in Change : History[y] = rec[y].preds \cup UNION {History[p] : p \in rec[y].preds}

LEMMA HistoryUnfold == TypeOK /\ Numbered => Unfolds
BY HistoryUnfolds DEF Unfolds

(* What a followed revision follows is followed.                           *)
LEMMA HistoryTransitive ==
    ASSUME TypeOK, Numbered, NEW w \in Change, NEW z \in History[w]
    PROVE  History[z] \subseteq History[w]
<1> DEFINE G == {k \in Nat : k \in Change => \A x \in History[k] : History[x] \subseteq History[k]}
<1>1. ASSUME NEW y \in Nat, \A m \in 0..(y - 1) : m \in G PROVE y \in G
  <2> SUFFICES ASSUME y \in Change, NEW x \in History[y] PROVE History[x] \subseteq History[y]
    OBVIOUS
  <2>1. \A p \in rec[y].preds : p \in History[y] /\ History[p] \subseteq History[y]
    BY HistoryUnfolds
  <2>2. CASE x \in rec[y].preds
    BY <2>1, <2>2
  <2>3. CASE x \in UNION {History[p] : p \in rec[y].preds}
    <3>1. PICK p \in rec[y].preds : x \in History[p]
      BY <2>3
    <3>2. p \in Change /\ p \in 1..(y - 1)
      BY HistoryUnfolds DEF Numbered
    <3>3. History[x] \subseteq History[p]
      BY <1>1, <3>1, <3>2
    <3> QED BY <2>1, <3>3
  <2> QED BY <2>2, <2>3, HistoryUnfolds
<1>2. \A y \in Nat : y \in G
  <2> HIDE DEF G
  <2> QED BY <1>1, NatStrongInduct
<1> QED BY <1>2, ConstantsAssumption DEF Change

LEMMA ReachesTransitive ==
    ASSUME TypeOK, Numbered, NEW x, NEW y \in Change, NEW z \in Change,
           Reaches(x, y), Reaches(y, z)
    PROVE  Reaches(x, z)
BY HistoryTransitive DEF Reaches

(* A set that holds the predecessors of its members holds their histories. *)
LEMMA ClosedHoldsHistory ==
    ASSUME TypeOK, Numbered, NEW S \in SUBSET Change, \A z \in S : rec[z].preds \subseteq S
    PROVE  \A y \in S : History[y] \subseteq S
<1> DEFINE G == {k \in Nat : k \in S => History[k] \subseteq S}
<1>1. ASSUME NEW y \in Nat, \A m \in 0..(y - 1) : m \in G PROVE y \in G
  <2> SUFFICES ASSUME y \in S, NEW x \in History[y] PROVE x \in S
    OBVIOUS
  <2>1. CASE x \in rec[y].preds
    BY <2>1
  <2>2. CASE x \in UNION {History[p] : p \in rec[y].preds}
    <3>1. PICK p \in rec[y].preds : x \in History[p]
      BY <2>2
    <3>2. p \in S /\ p \in 1..(y - 1)
      BY DEF Numbered
    <3> QED BY <1>1, <3>1, <3>2
  <2> QED BY <2>1, <2>2, HistoryUnfolds
<1>2. \A y \in Nat : y \in G
  <2> HIDE DEF G
  <2> QED BY <1>1, NatStrongInduct
<1> QED BY <1>2, ConstantsAssumption DEF Change

(* is_ancestor's search over the revisions of a document finds exactly the *)
(* history, since a document holds the predecessors of what it holds.      *)
LEMMA AncestorsAreHistory ==
    ASSUME TypeOK, Numbered, NEW D \in SUBSET Change,
           \A c \in Revisions(D) : rec[c].preds \subseteq Revisions(D),
           NEW y \in Revisions(D), NEW x
    PROVE  IsAncestor(x, y, D) <=> x \in History[y]
<1>1. Revisions(D) \in SUBSET Change /\ y \in Change
  BY DEF Revisions
<1>2. History[y] \subseteq Revisions(D)
  BY <1>1, ClosedHoldsHistory
<1>3. ASSUME IsAncestor(x, y, D) PROVE x \in History[y]
  <2>1. rec[y].preds \subseteq History[y]
    BY <1>1, HistoryUnfolds
  <2>2. \A z \in History[y] : rec[z].preds \subseteq History[y]
    BY <1>1, HistoryUnfolds, HistoryTransitive
  <2> QED BY <1>2, <1>3, <2>1, <2>2 DEF IsAncestor
<1>4. ASSUME x \in History[y], NEW S \in SUBSET Revisions(D),
             rec[y].preds \subseteq S, \A z \in S : rec[z].preds \subseteq S
      PROVE  x \in S
  <2>1. S \in SUBSET Change
    BY <1>1
  <2>2. \A z \in S : History[z] \subseteq S
    BY <1>4, <2>1, ClosedHoldsHistory
  <2> QED BY <1>1, <1>4, <2>2, HistoryUnfolds
<1> QED BY <1>3, <1>4 DEF IsAncestor

-----------------------------------------------------------------------------
(* What a note shows.                                                      *)

(* Of the asserted revisions one is shown, and no other is later.          *)
LEMMA OneShown ==
    ASSUME TypeOK, NEW D \in SUBSET Change, Asserted(D) \subseteq Change, Asserted(D) # {}
    PROVE  /\ Winner(D) \in Asserted(D)
           /\ Shown(D) = {Winner(D)}
           /\ \A x \in Asserted(D) : x = Winner(D) \/ Before(x, Winner(D))
<1> DEFINE A == Asserted(D)
<1>1. A \in SUBSET Change /\ A \subseteq 1..MaxChanges /\ MaxChanges \in Nat
  BY ConstantsAssumption DEF Change
<1>2. Orders(BeforePairs, A)
  BY <1>1, BeforeOrders
<1> HIDE DEF A
<1>3. PICK w \in A : \A x \in A : x = w \/ <<x, w>> \in BeforePairs
  BY <1>1, <1>2, OrderGreatest DEF A
<1>4. \A x \in A : x = w \/ Before(x, w)
  BY <1>1, <1>3, BeforeOrders
<1>5. \A x \in A : (\A y \in A : y = x \/ Before(y, x)) => x = w
  BY <1>1, <1>4, BeforeOrders
<1>6. Shown(D) = {w}
  BY <1>4, <1>5 DEF Shown, A
<1>7. Winner(D) = w
  BY <1>6 DEF Winner
<1> QED BY <1>4, <1>6, <1>7 DEF A

(* A replica's last head is asserted, and what it asserted before is that  *)
(* or followed by it: so all of it is shown, in conflict, or followed.     *)
LEMMA RetainedHere ==
    ASSUME IInv, TypeOK, HInv, NEW r \in Replica, NEW h \in HeadPuts(doc[r])
    PROVE  \E y \in Predecessors(doc[r]) : Reaches(rec[h].asserts, y)
<1> DEFINE D == doc[r]
<1>1. /\ D \in SUBSET Change /\ D \subseteq 1..made /\ made \in Nat
      /\ Numbered /\ OwnWrites /\ HeadsFollow
  BY DEF IInv, Shape, TypeOK, HInv
<1>2. HeadsLoadable /\ PredecessorsLoadable
  BY ClosedIsLoadable
<1>3. Asserted(D) \subseteq Revisions(D) /\ Revisions(D) \in SUBSET Change
  BY <1>1, <1>2 DEF HeadsLoadable, Asserted, Revisions
<1> DEFINE S == {g \in HeadPuts(D) : author[g] = author[h]}
<1>4. S \subseteq 0..made /\ h \in S /\ S \subseteq HeadPuts(D)
  BY <1>1 DEF HeadPuts
<1> HIDE DEF S
<1>5. PICK g \in S : \A k \in S : k <= g
  BY <1>1, <1>4, NatGreatest
<1>6. g \in HeadPuts(D) /\ g \in Change /\ g \in 1..made /\ author[g] = author[h]
  BY <1>1, <1>4 DEF S, HeadPuts
<1>7. \A y \in HeadPuts(D) : author[g] = author[y] => g \notin past[y]
  <2> SUFFICES ASSUME NEW y \in HeadPuts(D), author[g] = author[y], g \in past[y] PROVE FALSE
    OBVIOUS
  <2>1. y \in S /\ y \in Change
    BY <1>1, <1>6 DEF S, HeadPuts
  <2>2. past[y] \subseteq 1..(y - 1)
    BY <1>1, <2>1 DEF Numbered
  <2>3. g <= y - 1 /\ y <= g /\ y \in Int /\ g \in Int
    BY <1>5, <2>1, <2>2, <1>6, ConstantsAssumption DEF Change
  <2> QED BY <2>3
<1>8. rec[g].asserts \in Asserted(D)
  BY <1>6, <1>7 DEF Asserted
<1>9. Reaches(rec[h].asserts, rec[g].asserts)
  <2>1. h \in HeadPuts(D) /\ h \in 1..made /\ h <= g
    BY <1>1, <1>4, <1>5 DEF HeadPuts
  <2>2. CASE h = g
    BY <2>2 DEF Reaches
  <2>3. CASE h < g
    <3>1. h \in HeadPuts(past[g])
      BY <1>1, <1>6, <2>1, <2>3 DEF OwnWrites, HeadPuts
    <3>2. g \in HeadPuts(1..made)
      BY <1>6 DEF HeadPuts
    <3> QED BY <1>1, <1>6, <3>1, <3>2 DEF HeadsFollow
  <2> QED BY <1>6, <2>1, <2>2, <2>3
<1>10. /\ Winner(D) \in Asserted(D) /\ Shown(D) = {Winner(D)}
  BY <1>1, <1>3, <1>8, OneShown
<1> DEFINE z == rec[g].asserts
<1>11. CASE z \in Shown(D) \cup Conflict(D)
  BY <1>9, <1>11 DEF Predecessors
<1>12. CASE z \notin Shown(D) \cup Conflict(D)
  <2>1. IsAncestor(z, Winner(D), D)
    BY <1>8, <1>12 DEF Conflict
  <2>2. Winner(D) \in Revisions(D)
    BY <1>3, <1>10
  <2>3. z \in History[Winner(D)]
    BY <1>1, <1>2, <2>1, <2>2, AncestorsAreHistory DEF PredecessorsLoadable
  <2>4. Reaches(z, Winner(D)) /\ z \in Change /\ Winner(D) \in Change
    BY <1>3, <1>8, <1>10, <2>3 DEF Reaches
  <2> HIDE DEF D
  <2>5. Reaches(rec[h].asserts, Winner(D))
    BY <1>1, <1>9, <2>4, ReachesTransitive
  <2> QED BY <1>10, <2>5 DEF Predecessors, D
<1> QED BY <1>11, <1>12

LEMMA HistoryIsRetained == IInv /\ TypeOK /\ HInv => Retained
BY RetainedHere DEF Retained, Reaches, Predecessors

(* In a document whose timestamps follow the order of causes nothing       *)
(* follows the revision that is shown.                                     *)
LEMMA ConflictsAreExplicit == IInv /\ TypeOK /\ HInv => ConflictsExplicit
<1> SUFFICES ASSUME IInv, TypeOK, HInv, NEW r \in Replica, OrderedClocks(doc[r])
             PROVE  Conflict(doc[r]) = {x \in Asserted(doc[r]) : Concurrent(x, Winner(doc[r]))}
  BY DEF ConflictsExplicit
<1> DEFINE D == doc[r]
<1>1. D \in SUBSET Change /\ Numbered
  BY DEF TypeOK, HInv
<1>2. HeadsLoadable /\ PredecessorsLoadable
  BY ClosedIsLoadable
<1>3. Asserted(D) \subseteq Revisions(D) /\ Revisions(D) \in SUBSET Change
  BY <1>1, <1>2 DEF HeadsLoadable, Asserted, Revisions
<1>4. CASE Asserted(D) = {}
  BY <1>4 DEF Conflict
<1>5. CASE Asserted(D) # {}
  <2> DEFINE W == Winner(D)
  <2>1. /\ W \in Asserted(D) /\ Shown(D) = {W}
        /\ \A x \in Asserted(D) : x = W \/ Before(x, W)
    BY <1>1, <1>3, <1>5, OneShown
  <2>2. \A x : IsAncestor(x, W, D) <=> x \in History[W]
    BY <1>1, <1>2, <1>3, <2>1, AncestorsAreHistory DEF PredecessorsLoadable
  <2> HIDE DEF W
  <2>3. \A y \in Revisions(D) : \A p \in History[y] : Before(p, y)
    <3> DEFINE G == {k \in Nat : k \in Revisions(D) => \A p \in History[k] : Before(p, k)}
    <3>1. \A y \in Revisions(D) : rec[y].preds \subseteq Revisions(D)
      BY <1>2 DEF PredecessorsLoadable
    <3>2. ASSUME NEW y \in Nat, \A m \in 0..(y - 1) : m \in G PROVE y \in G
      <4> SUFFICES ASSUME y \in Revisions(D), NEW x \in History[y] PROVE Before(x, y)
        OBVIOUS
      <4>1. CASE x \in rec[y].preds
        BY <4>1 DEF OrderedClocks
      <4>2. CASE x \in UNION {History[p] : p \in rec[y].preds}
        <5>1. PICK p \in rec[y].preds : x \in History[p]
          BY <4>2
        <5>2. p \in Revisions(D) /\ p \in 1..(y - 1) /\ p \in Change /\ y \in Change
          BY <1>1, <1>3, <3>1 DEF Numbered
        <5>3. Before(x, p) /\ Before(p, y)
          BY <3>2, <5>1, <5>2 DEF OrderedClocks
        <5>4. x \in Change
          BY <1>1, <5>1, <5>2, HistoryUnfolds
        <5>5. Orders(BeforePairs, Change) /\ \A a, b \in Change : <<a, b>> \in BeforePairs <=> Before(a, b)
          BY BeforeOrders
        <5> QED BY <5>2, <5>3, <5>4, <5>5 DEF Orders
      <4> QED BY <1>1, <1>3, <4>1, <4>2, HistoryUnfolds
    <3>3. \A y \in Nat : y \in G
      <4> HIDE DEF G
      <4> QED BY <3>2, NatStrongInduct
    <3> QED BY <1>3, <3>3, ConstantsAssumption DEF Change
  <2>4. \A x \in Asserted(D) : x # W => W \notin History[x]
    BY <1>3, <2>1, <2>3, BeforeOrders
  <2> QED BY <2>1, <2>2, <2>4 DEF Conflict, Concurrent, W
<1> QED BY <1>4, <1>5

-----------------------------------------------------------------------------
(* The steps keep saves following each other.                              *)

(* What heads assert, commits have planned and have stored is there.       *)
LEMMA ReferencesMade ==
    ASSUME IInv, TypeOK
    PROVE  /\ \A r \in Replica : doc[r] \subseteq 1..made
           /\ \A c \in 1..made : c \in Change /\ c # NextChange /\ past[c] \subseteq 1..made
           /\ \A h \in HeadPuts(1..made) : rec[h].asserts \in 1..made
           /\ \A e \in Editor : plan[e] \subseteq 1..made
           /\ \A e \in Editor : phase[e] = "put" => stored[e] \in 1..made
<1>1. \A r \in Replica : doc[r] \subseteq 1..made
  BY DEF IInv, Shape
<1>2. \A c \in 1..made : c \in Change /\ c # NextChange /\ past[c] \subseteq 1..made
  BY ConstantsAssumption DEF IInv, Shape, Change, NextChange
<1>3. ASSUME NEW h \in HeadPuts(1..made) PROVE rec[h].asserts \in 1..made
  <2>1. h \in 1..made /\ References(h) /\ rec[h].type \in {"head", "commit"}
    BY DEF IInv, ReferencesHeld, HeadPuts
  <2> QED BY <1>2, <2>1 DEF References, Revisions
<1>4. \A e \in Editor : plan[e] \subseteq 1..made
  BY <1>1, HomeIsReplica DEF IInv, PlanHeld, Revisions
<1>5. \A e \in Editor : phase[e] = "put" => stored[e] \in 1..made
  BY <1>1, HomeIsReplica DEF IInv, StoredLoadable, Revisions, TypeOK
<1> QED BY <1>1, <1>2, <1>3, <1>4, <1>5

(* A put leaves the histories of earlier revisions alone, and the new one  *)
(* follows its predecessors and what they follow.                          *)
LEMMA PutHistory ==
    ASSUME IInv, TypeOK, HInv, TypeOK', NEW r \in Replica, NEW record \in Record,
           Put(r, record), record.preds \subseteq doc[r]
    PROVE  /\ Numbered' /\ OwnWrites'
           /\ author'[NextChange] = r /\ \A c \in 1..made : author'[c] = author[c]
           /\ \A x, y \in 1..made : Reaches(x, y) => Reaches(x, y)'
           /\ \A p \in record.preds : \A x \in 1..made : Reaches(x, p) => x \in History'[NextChange]
<1>1. /\ NextChange \in Change /\ NextChange \notin 1..made /\ made' = NextChange
      /\ rec'[NextChange] = record
      /\ \A c \in 1..made : rec'[c] = rec[c] /\ past'[c] = past[c]
      /\ past'[NextChange] = doc[r]
      /\ doc'[r] = doc[r] \cup {NextChange}
      /\ \A q \in Replica : q # r => doc'[q] = doc[q]
  BY PutGrows
<1>2. made \in Nat /\ 1..made' = 1..made \cup {NextChange} /\ 1..made = 1..(NextChange - 1)
      /\ \A y \in 1..made : y \in Change /\ 1..(y - 1) \subseteq 1..made
  <2>1. made \in Nat /\ MaxChanges \in Nat /\ made <= MaxChanges
    BY ConstantsAssumption DEF TypeOK
  <2>2. NextChange = made + 1
    BY DEF NextChange
  <2> QED BY <1>1, <2>1, <2>2 DEF Change
<1>3. doc[r] \subseteq 1..made
  BY DEF IInv, Shape
<1>4. /\ author' = [author EXCEPT ![NextChange] = r]
      /\ past' = [past EXCEPT ![NextChange] = doc[r]]
      /\ rec' = [rec EXCEPT ![NextChange] = record]
  BY DEF Put, Docs!Write
<1>5. author'[NextChange] = r /\ \A c \in 1..made : author'[c] = author[c]
  BY <1>1, <1>2, <1>4 DEF TypeOK
<1>6. Numbered'
  <2>1. ASSUME NEW c \in Change PROVE past'[c] \cup rec'[c].preds \subseteq 1..(c - 1)
    <3>1. CASE c = NextChange
      BY <1>1, <1>2, <1>3, <3>1
    <3>2. CASE c # NextChange
      <4>1. past'[c] = past[c] /\ rec'[c] = rec[c]
        BY <1>4, <3>2 DEF TypeOK
      <4> QED BY <4>1 DEF HInv, Numbered
    <3> QED BY <3>1, <3>2
  <2> QED BY <2>1 DEF Numbered
<1>7. OwnWrites'
  <2>1. ASSUME NEW c \in 1..made PROVE c \in doc'[author'[c]]
    <3>1. c \in doc[author[c]] /\ author[c] \in Replica
      BY <1>2 DEF HInv, OwnWrites, TypeOK
    <3> QED BY <1>1, <1>5, <3>1
  <2>2. ASSUME NEW c \in 1..made, NEW d \in 1..made, author'[c] = author'[d], c < d
        PROVE  c \in past'[d]
    BY <1>1, <1>5, <2>2 DEF HInv, OwnWrites
  <2>3. ASSUME NEW c \in 1..made, author'[c] = author'[NextChange] PROVE c \in past'[NextChange]
    BY <1>1, <1>5, <2>3 DEF HInv, OwnWrites
  <2>4. \A d \in 1..made : ~(NextChange < d)
    BY <1>2 DEF NextChange
  <2> QED BY <1>1, <1>2, <1>5, <2>1, <2>2, <2>3, <2>4 DEF OwnWrites, NextChange
<1>8. /\ \A y \in Change : History'[y] = rec'[y].preds \cup UNION {History'[p] : p \in rec'[y].preds}
  <2>1. (TypeOK /\ Numbered => Unfolds)'
    BY HistoryUnfold, PTL
  <2> QED BY <1>6, <2>1 DEF Unfolds
<1>9. /\ \A y \in Change : History[y] = rec[y].preds \cup UNION {History[p] : p \in rec[y].preds}
      /\ \A y \in Change : rec[y].preds \subseteq 1..(y - 1)
  BY HistoryUnfolds DEF HInv, Numbered
<1> DEFINE G == {k \in Nat : k \in 1..made => History'[k] = History[k]}
<1>10. ASSUME NEW y \in Nat, \A m \in 0..(y - 1) : m \in G PROVE y \in G
  <2> SUFFICES ASSUME y \in 1..made PROVE History'[y] = History[y]
    OBVIOUS
  <2>1. rec'[y].preds = rec[y].preds /\ y \in Change
    BY <1>1, <1>2
  <2>2. ASSUME NEW p \in rec[y].preds PROVE History'[p] = History[p]
    <3>1. p \in 1..(y - 1)
      BY <1>9, <2>1
    <3>2. p \in 0..(y - 1) /\ p \in 1..made
      BY <1>2, <3>1
    <3> QED BY <1>10, <3>2
  <2>3. {History'[p] : p \in rec[y].preds} = {History[p] : p \in rec[y].preds}
    BY <2>2
  <2> HIDE DEF G
  <2> QED BY <1>8, <1>9, <2>1, <2>3
<1>11. \A y \in Nat : y \in G
  <2> HIDE DEF G
  <2> QED BY <1>10, NatStrongInduct
<1>12. \A y \in 1..made : History'[y] = History[y]
  BY <1>2, <1>11
<1>13. \A x, y \in 1..made : Reaches(x, y) => Reaches(x, y)'
  BY <1>12 DEF Reaches
<1>14. ASSUME NEW p \in record.preds, NEW x \in 1..made, Reaches(x, p)
       PROVE  x \in History'[NextChange]
  <2>1. History'[p] = History[p]
    BY <1>3, <1>12
  <2>2. x = p \/ x \in History'[p]
    BY <1>14, <2>1 DEF Reaches
  <2> QED BY <1>1, <1>8, <2>2
<1> QED BY <1>5, <1>6, <1>7, <1>13, <1>14

(* The heads of earlier changes still follow each other after a put.       *)
LEMMA PutHeads ==
    ASSUME IInv, TypeOK, HInv, TypeOK', NEW r \in Replica, NEW record \in Record,
           Put(r, record), record.preds \subseteq doc[r],
           record.type \in {"head", "commit"} =>
               \A h \in HeadPuts(doc[r]) : author[h] = r =>
                   record.asserts = rec[h].asserts \/ rec[h].asserts \in History'[record.asserts]
    PROVE  HeadsFollow'
<1>1. /\ NextChange \notin 1..made /\ made' = NextChange /\ rec'[NextChange] = record
      /\ \A c \in 1..made : rec'[c] = rec[c] /\ past'[c] = past[c]
      /\ past'[NextChange] = doc[r]
  BY PutGrows
<1>2. 1..made' = 1..made \cup {NextChange}
  <2>1. made \in Nat
    BY ConstantsAssumption DEF TypeOK
  <2> QED BY <1>1, <2>1 DEF NextChange
<1>3. /\ author'[NextChange] = r /\ \A c \in 1..made : author'[c] = author[c]
      /\ \A x, y \in 1..made : Reaches(x, y) => Reaches(x, y)'
  BY PutHistory
<1>4. ASSUME NEW g \in HeadPuts(1..made)', NEW h \in HeadPuts(past[g])', author'[h] = author'[g]
      PROVE  Reaches(rec[h].asserts, rec[g].asserts)'
  <2>1. CASE g \in 1..made
    <3>1. g \in HeadPuts(1..made) /\ past'[g] = past[g]
      BY <1>1, <2>1 DEF HeadPuts
    <3>2. past[g] \subseteq 1..made
      BY <2>1, ReferencesMade
    <3>3. h \in HeadPuts(past[g]) /\ h \in 1..made /\ rec'[h] = rec[h] /\ rec'[g] = rec[g]
      BY <1>1, <3>1, <3>2, <2>1 DEF HeadPuts
    <3>4. author[h] = author[g] /\ h \in HeadPuts(1..made)
      BY <1>3, <1>4, <2>1, <3>2, <3>3 DEF HeadPuts
    <3>5. Reaches(rec[h].asserts, rec[g].asserts)
      BY <3>1, <3>3, <3>4 DEF HInv, HeadsFollow
    <3>6. rec[h].asserts \in 1..made /\ rec[g].asserts \in 1..made
      BY <3>1, <3>4, ReferencesMade
    <3>7. Reaches(rec[h].asserts, rec[g].asserts)' <=> (rec'[h].asserts = rec'[g].asserts
                                                        \/ rec'[h].asserts \in History'[rec'[g].asserts])
      BY DEF Reaches
    <3>8. rec[h].asserts = rec[g].asserts \/ rec[h].asserts \in History'[rec[g].asserts]
      BY <1>3, <3>5, <3>6 DEF Reaches
    <3> QED BY <3>3, <3>7, <3>8
  <2>2. CASE g = NextChange
    <3>1. record.type \in {"head", "commit"} /\ rec'[g] = record /\ past'[g] = doc[r]
      BY <1>1, <2>2 DEF HeadPuts
    <3>2. h \in 1..made /\ h \in HeadPuts(doc[r]) /\ rec'[h] = rec[h]
      BY <1>1, <3>1, ReferencesMade DEF HeadPuts
    <3>3. author[h] = r
      BY <1>3, <1>4, <2>2, <3>2
    <3>4. rec'[h].asserts = record.asserts \/ rec'[h].asserts \in History'[record.asserts]
      BY <3>1, <3>2, <3>3
    <3> QED BY <3>1, <3>4 DEF Reaches
  <2> QED BY <1>2, <2>1, <2>2 DEF HeadPuts
<1> QED BY <1>4 DEF HeadsFollow

LEMMA PutRevisionFollows ==
    ASSUME IInv, TypeOK, HInv, TypeOK', NEW e \in Editor, NEW wall \in Nat, PutRevision(e, wall)
    PROVE  HInv'
<1> DEFINE r == Home[e]  time == Ticked(clock[r], wall)
           record == Revision("revision", e, time, plan[e])
<1>1. r \in Replica
  BY HomeIsReplica
<1>2. time \in Time
  BY <1>1, TickedTime DEF TypeOK
<1>3. /\ phase[e] = "loaded" /\ Put(r, record)
      /\ plan' = [plan EXCEPT ![e] = {}]
      /\ \/ phase' = [phase EXCEPT ![e] = "put"] /\ stored' = [stored EXCEPT ![e] = NextChange]
         \/ phase' = [phase EXCEPT ![e] = "idle"] /\ stored' = stored
  BY DEF PutRevision, Goto
<1>4. NextChange \in Change
  BY <1>1, <1>3, PutGrows
<1>5. /\ record \in Record /\ record.type = "revision" /\ record.preds = plan[e]
  <2>1. plan[e] \in SUBSET Change
    BY DEF TypeOK
  <2> QED BY <1>2, <1>4, <2>1, RevisionType DEF Revision
<1>6. record.preds \subseteq doc[r]
  BY <1>5 DEF IInv, PlanHeld, Revisions
<1> HIDE DEF record, time
<1>7. /\ Numbered' /\ OwnWrites'
      /\ author'[NextChange] = r /\ \A c \in 1..made : author'[c] = author[c]
      /\ \A x, y \in 1..made : Reaches(x, y) => Reaches(x, y)'
      /\ \A p \in record.preds : \A x \in 1..made : Reaches(x, p) => x \in History'[NextChange]
  BY <1>1, <1>3, <1>5, <1>6, PutHistory
<1>8. HeadsFollow'
  BY <1>1, <1>3, <1>5, <1>6, PutHeads
<1>9. OneCommit'
  <2>1. \A x \in Editor : Committing(x)' => Committing(x)
    BY <1>3 DEF Committing, TypeOK
  <2> QED BY <2>1 DEF HInv, OneCommit
<1>10. ASSUME NEW x \in Editor, NEW h \in HeadPuts(doc[Home[x]])', author'[h] = Home[x]
       PROVE  /\ phase'[x] = "loaded" => \E y \in plan'[x] : Reaches(rec[h].asserts, y)'
              /\ phase'[x] = "put" => Reaches(rec[h].asserts, stored[x])'
  <2>1. /\ rec'[NextChange] = record
        /\ \A c \in 1..made : rec'[c] = rec[c]
        /\ doc'[r] = doc[r] \cup {NextChange}
        /\ \A q \in Replica : q # r => doc'[q] = doc[q]
    BY <1>1, <1>3, PutGrows
  <2>2. h \in doc[Home[x]] /\ h \in 1..made /\ rec'[h] = rec[h] /\ h \in HeadPuts(doc[Home[x]])
    BY <1>5, <2>1, HomeIsReplica, ReferencesMade DEF HeadPuts
  <2>3. author[h] = Home[x] /\ rec[h].asserts \in 1..made
    BY <1>7, <1>10, <2>2, ReferencesMade DEF HeadPuts
  <2>4. /\ phase[x] = "loaded" => \E y \in plan[x] : Reaches(rec[h].asserts, y)
        /\ phase[x] = "put" => Reaches(rec[h].asserts, stored[x])
    BY <2>2, <2>3 DEF HInv, CommitFollows
  <2>5. CASE x = e
    <3>1. \E y \in plan[e] : Reaches(rec[h].asserts, y)
      BY <1>3, <2>4, <2>5
    <3>2. rec'[h].asserts \in History'[NextChange]
      BY <1>5, <1>7, <2>2, <2>3, <3>1
    <3>3. phase'[x] # "loaded" /\ (phase'[x] = "put" => stored'[x] = NextChange)
      BY <1>3, <2>5 DEF TypeOK
    <3> QED BY <3>2, <3>3 DEF Reaches
  <2>6. CASE x # e
    <3>1. phase'[x] = phase[x] /\ plan'[x] = plan[x] /\ stored'[x] = stored[x]
      BY <1>3, <2>6 DEF TypeOK
    <3>2. plan[x] \subseteq 1..made /\ (phase[x] = "put" => stored[x] \in 1..made)
      BY ReferencesMade
    <3>3. \A y \in 1..made : Reaches(rec[h].asserts, y) => Reaches(rec[h].asserts, y)'
      BY <1>7, <2>2, <2>3 DEF Reaches
    <3>4. phase[x] = "put" /\ Reaches(rec[h].asserts, stored[x]) => Reaches(rec[h].asserts, stored[x])'
      BY <3>1, <3>2, <3>3 DEF Reaches
    <3> QED BY <2>4, <3>1, <3>2, <3>3, <3>4
  <2> QED BY <2>5, <2>6
<1>11. CommitFollows'
  BY <1>10 DEF CommitFollows
<1> QED BY <1>7, <1>8, <1>9, <1>11 DEF HInv

(* A put after which its replica has no commit under way disturbs no       *)
(* commit elsewhere.                                                       *)
LEMMA PutEndsCommit ==
    ASSUME IInv, TypeOK, HInv, TypeOK', NEW r \in Replica, NEW record \in Record,
           Put(r, record), record.preds \subseteq doc[r],
           record.type \in {"head", "commit"} =>
               \A h \in HeadPuts(doc[r]) : author[h] = r =>
                   record.asserts = rec[h].asserts \/ rec[h].asserts \in History'[record.asserts],
           \A x \in Editor : Home[x] = r => ~Committing(x)',
           \A x \in Editor : Home[x] # r => /\ phase'[x] = phase[x] /\ plan'[x] = plan[x]
                                            /\ stored'[x] = stored[x]
    PROVE  HInv'
<1>1. /\ Numbered' /\ OwnWrites'
      /\ author'[NextChange] = r /\ \A c \in 1..made : author'[c] = author[c]
      /\ \A x, y \in 1..made : Reaches(x, y) => Reaches(x, y)'
  BY PutHistory
<1>2. HeadsFollow'
  BY PutHeads
<1>3. OneCommit'
  <2>1. \A x \in Editor : Committing(x)' => Committing(x) /\ Home[x] # r
    BY DEF Committing
  <2> QED BY <2>1 DEF HInv, OneCommit
<1>4. ASSUME NEW x \in Editor, NEW h \in HeadPuts(doc[Home[x]])', author'[h] = Home[x], Home[x] # r
      PROVE  /\ phase'[x] = "loaded" => \E y \in plan'[x] : Reaches(rec[h].asserts, y)'
             /\ phase'[x] = "put" => Reaches(rec[h].asserts, stored[x])'
  <2>1. /\ \A c \in 1..made : rec'[c] = rec[c]
        /\ \A q \in Replica : q # r => doc'[q] = doc[q]
    BY PutGrows
  <2>2. h \in doc[Home[x]] /\ h \in 1..made /\ rec'[h] = rec[h] /\ h \in HeadPuts(doc[Home[x]])
    BY <1>4, <2>1, HomeIsReplica, ReferencesMade DEF HeadPuts
  <2>3. author[h] = Home[x] /\ rec[h].asserts \in 1..made
    BY <1>1, <1>4, <2>2, ReferencesMade DEF HeadPuts
  <2>4. /\ phase[x] = "loaded" => \E y \in plan[x] : Reaches(rec[h].asserts, y)
        /\ phase[x] = "put" => Reaches(rec[h].asserts, stored[x])
    BY <2>2, <2>3 DEF HInv, CommitFollows
  <2>5. plan[x] \subseteq 1..made /\ (phase[x] = "put" => stored[x] \in 1..made)
    BY ReferencesMade
  <2>6. \A y \in 1..made : Reaches(rec[h].asserts, y) => Reaches(rec[h].asserts, y)'
    BY <1>1, <2>2, <2>3 DEF Reaches
  <2>7. phase[x] = "put" /\ Reaches(rec[h].asserts, stored[x]) => Reaches(rec[h].asserts, stored[x])'
    BY <1>4, <2>5, <2>6 DEF Reaches
  <2> QED BY <1>4, <2>4, <2>5, <2>6, <2>7
<1>5. CommitFollows'
  BY <1>4 DEF CommitFollows, Committing
<1> QED BY <1>1, <1>2, <1>3, <1>5 DEF HInv

LEMMA SetHeadFollows ==
    ASSUME IInv, TypeOK, HInv, TypeOK', NEW e \in Editor, SetHead(e)
    PROVE  HInv'
<1> DEFINE r == Home[e]  record == HeadRecord(stored[e])
<1>1. r \in Replica
  BY HomeIsReplica
<1>2. /\ phase[e] = "put" /\ Put(r, record)
      /\ phase' = [phase EXCEPT ![e] = "idle"]
      /\ stored' = [stored EXCEPT ![e] = None]
      /\ UNCHANGED <<plan>>
  BY DEF SetHead, Goto
<1>3. record \in Record /\ record.preds = {} /\ record.type = "head" /\ record.asserts = stored[e]
  <2>1. stored[e] \in Change \cup {None}
    BY DEF TypeOK
  <2> QED BY <2>1, ConstantsAssumption DEF HeadRecord, Record, StartClock, Time
<1> HIDE DEF record
<1>4. ASSUME NEW h \in HeadPuts(doc[r]), author[h] = r
      PROVE  record.asserts = rec[h].asserts \/ rec[h].asserts \in History'[record.asserts]
  <2>1. Reaches(rec[h].asserts, stored[e])
    BY <1>2, <1>4 DEF HInv, CommitFollows
  <2>2. h \in 1..made /\ h \in HeadPuts(1..made) /\ stored[e] \in 1..made
    BY <1>1, <1>2, ReferencesMade DEF HeadPuts
  <2>3. rec[h].asserts \in 1..made
    BY <2>2, ReferencesMade
  <2>4. Reaches(rec[h].asserts, stored[e]) =>
            rec[h].asserts = stored[e] \/ rec[h].asserts \in History'[stored[e]]
    <3>1. \A x, y \in 1..made : Reaches(x, y) => Reaches(x, y)'
      BY <1>1, <1>2, <1>3, PutHistory
    <3> QED BY <2>2, <2>3, <3>1 DEF Reaches
  <2> QED BY <1>3, <2>1, <2>4
<1>5. \A x \in Editor : Home[x] = r => ~Committing(x)'
  <2>1. \A x \in Editor : Home[x] = r /\ Committing(x) => x = e
    BY <1>2 DEF HInv, OneCommit, Committing
  <2>2. \A x \in Editor : phase'[x] = IF x = e THEN "idle" ELSE phase[x]
    BY <1>2 DEF TypeOK
  <2> QED BY <2>1, <2>2 DEF Committing
<1>6. \A x \in Editor : Home[x] # r => /\ phase'[x] = phase[x] /\ plan'[x] = plan[x]
                                       /\ stored'[x] = stored[x]
  BY <1>2 DEF TypeOK
<1>7. record.preds \subseteq doc[r]
  BY <1>3
<1> QED BY <1>1, <1>2, <1>3, <1>4, <1>5, <1>6, <1>7, PutEndsCommit

(* The browser's predecessors are what it shows and its conflicts: what it *)
(* asserted before is among them or followed by one.                       *)
LEMMA BrowserCommitFollows ==
    ASSUME IInv, TypeOK, HInv, TypeOK', NEW e \in Editor, NEW wall \in Nat, BrowserCommit(e, wall)
    PROVE  /\ HInv'
           /\ \A h \in HeadPuts(doc[Home[e]]) : rec[h].asserts \in History'[NextChange]
<1> DEFINE r == Home[e]  time == BrowserTime(doc[r], wall)
           record == Revision("commit", e, time, Predecessors(doc[r]))
<1>1. r \in Replica /\ r \in Browser
  BY HomeIsReplica DEF BrowserCommit
<1>2. time \in Time
  <2>1. doc[r] \in SUBSET Change
    BY <1>1 DEF TypeOK
  <2> QED BY <2>1, BrowserTimeLater
<1>3. /\ phase[e] = "read" /\ Put(r, record)
      /\ phase' = [phase EXCEPT ![e] = "idle"]
      /\ UNCHANGED <<plan, stored>>
  BY DEF BrowserCommit, Goto
<1>4. NextChange \in Change
  BY <1>1, <1>3, PutGrows
<1>5. /\ record \in Record /\ record.type = "commit"
      /\ record.preds = Predecessors(doc[r]) /\ record.asserts = NextChange
  <2>1. Predecessors(doc[r]) \in SUBSET Change
    BY <1>1, PredecessorsType
  <2> QED BY <1>2, <1>4, <2>1, RevisionType DEF Revision
<1>6. record.preds \subseteq doc[r]
  BY <1>1, <1>5, PredecessorsStored DEF Revisions
<1> HIDE DEF record, time
<1>7. ASSUME NEW h \in HeadPuts(doc[r]) PROVE rec[h].asserts \in History'[NextChange]
  <2>1. PICK y \in Predecessors(doc[r]) : Reaches(rec[h].asserts, y)
    BY <1>1, RetainedHere
  <2>2. h \in HeadPuts(1..made)
    BY <1>1, ReferencesMade DEF HeadPuts
  <2>3. rec[h].asserts \in 1..made
    BY <2>2, ReferencesMade
  <2> QED BY <1>1, <1>3, <1>5, <1>6, <2>1, <2>3, PutHistory
<1>8. \A h \in HeadPuts(doc[r]) : rec[h].asserts \in History'[record.asserts]
  BY <1>5, <1>7
<1>9. \A x \in Editor : Home[x] = r => ~Committing(x)'
  <2>1. \A x \in Editor : Home[x] = r => ~Committing(x)
    BY <1>1 DEF HInv, OneCommit
  <2>2. \A x \in Editor : phase'[x] = IF x = e THEN "idle" ELSE phase[x]
    BY <1>3 DEF TypeOK
  <2> QED BY <2>1, <2>2 DEF Committing
<1>10. \A x \in Editor : Home[x] # r => /\ phase'[x] = phase[x] /\ plan'[x] = plan[x]
                                        /\ stored'[x] = stored[x]
  BY <1>3 DEF TypeOK
<1>11. HInv'
  BY <1>1, <1>3, <1>5, <1>6, <1>8, <1>9, <1>10, PutEndsCommit
<1> QED BY <1>7, <1>11

(* Steps that put no record and only extend documents: what matters is     *)
(* what the commits under way have planned and stored.                     *)
LEMMA UnputFollows ==
    ASSUME IInv, TypeOK, HInv, UNCHANGED <<made, author, past, rec>>,
           \A q \in Replica : doc[q] \subseteq doc'[q] /\ doc'[q] \subseteq 1..made,
           \A x \in Editor :
               \/ ~Committing(x)'
               \/ phase'[x] = phase[x] /\ plan'[x] = plan[x] /\ stored'[x] = stored[x]
               \/ /\ phase'[x] = "loaded" /\ plan'[x] = Predecessors(doc[Home[x]])
                  /\ Home[x] \notin Browser /\ Free(Home[x])
                  /\ \A y \in Editor : y # x => phase'[y] = phase[y]
    PROVE  HInv'
<1>1. Numbered'
  BY DEF HInv, Numbered
<1>2. OwnWrites'
  <2>1. \A c \in 1..made : author[c] \in Replica
    BY ReferencesMade DEF TypeOK
  <2> QED BY <2>1 DEF HInv, OwnWrites
<1>3. History' = History
  BY DEF History
<1>5. HeadsFollow'
  BY <1>3 DEF HInv, HeadsFollow, HeadPuts, Reaches
<1>6. OneCommit'
  BY DEF HInv, OneCommit, Committing, Free
<1>7. ASSUME NEW x \in Editor, NEW h \in HeadPuts(doc[Home[x]])', author'[h] = Home[x]
      PROVE  /\ phase'[x] = "loaded" => \E y \in plan'[x] : Reaches(rec[h].asserts, y)'
             /\ phase'[x] = "put" => Reaches(rec[h].asserts, stored[x])'
  <2>1. h \in doc'[Home[x]] /\ rec[h].type \in {"head", "commit"} /\ author[h] = Home[x]
    BY <1>7 DEF HeadPuts
  <2>2. h \in doc[Home[x]]
    BY <2>1, HomeIsReplica DEF HInv, OwnWrites
  <2>3. h \in HeadPuts(doc[Home[x]])
    BY <2>1, <2>2 DEF HeadPuts
  <2>4. CASE phase'[x] = phase[x] /\ plan'[x] = plan[x] /\ stored'[x] = stored[x]
    BY <1>3, <2>1, <2>3, <2>4 DEF HInv, CommitFollows, Reaches
  <2>5. CASE phase'[x] = "loaded" /\ plan'[x] = Predecessors(doc[Home[x]])
    <3>1. \E y \in Predecessors(doc[Home[x]]) : Reaches(rec[h].asserts, y)
      BY <2>3, RetainedHere, HomeIsReplica
    <3> QED BY <1>3, <2>5, <3>1 DEF Reaches
  <2> QED BY <2>4, <2>5 DEF Committing
<1>8. CommitFollows'
  BY <1>7 DEF CommitFollows
<1> QED BY <1>1, <1>2, <1>5, <1>6, <1>8 DEF HInv

LEMMA OtherFollows ==
    ASSUME IInv, TypeOK, HInv,
           \/ \E e \in Editor : Read(e) \/ Load(e)
           \/ \E r \in Replica : Merge(r) \/ Crash(r)
           \/ UNCHANGED vars
    PROVE  HInv'
<1>0. \A q \in Replica : doc[q] \subseteq 1..made
  BY ReferencesMade
<1>1. CASE UNCHANGED vars
  BY <1>0, <1>1, UnputFollows DEF vars, docVars, editVars
<1>2. ASSUME NEW e \in Editor, Read(e) PROVE HInv'
  <2>1. \A x \in Editor : \/ phase'[x] = phase[x] /\ plan'[x] = plan[x] /\ stored'[x] = stored[x]
                          \/ ~Committing(x)'
    BY <1>2 DEF Read, Goto, TypeOK, Committing
  <2> QED BY <1>0, <1>2, <2>1, UnputFollows DEF Read, docVars
<1>3. ASSUME NEW e \in Editor, Load(e) PROVE HInv'
  <2>1. UNCHANGED <<made, author, past, rec, doc, stored>>
    BY <1>3 DEF Load, docVars
  <2>2. ASSUME NEW x \in Editor
        PROVE  \/ ~Committing(x)'
               \/ phase'[x] = phase[x] /\ plan'[x] = plan[x] /\ stored'[x] = stored[x]
               \/ /\ phase'[x] = "loaded" /\ plan'[x] = Predecessors(doc[Home[x]])
                  /\ Home[x] \notin Browser /\ Free(Home[x])
                  /\ \A y \in Editor : y # x => phase'[y] = phase[y]
    BY <1>3, <2>1 DEF Load, Goto, TypeOK, Committing
  <2> QED BY <1>0, <2>1, <2>2, UnputFollows
<1>4. ASSUME NEW r \in Replica, Merge(r) PROVE HInv'
  <2>1. PICK q \in Replica : \E c \in doc[q] \ doc[r] : Docs!Merge(r, past[c] \cup {c})
    BY <1>4 DEF Merge
  <2>2. PICK c \in doc[q] \ doc[r] : Docs!Merge(r, past[c] \cup {c})
    BY <2>1
  <2>3. past[c] \cup {c} \subseteq 1..made
    BY <1>0, <2>2, ReferencesMade
  <2>4. doc' = [doc EXCEPT ![r] = @ \cup (past[c] \cup {c})]
        /\ UNCHANGED <<made, author, past, rec, phase, plan, stored>>
    BY <1>4, <2>2 DEF Merge, Docs!Merge, editVars
  <2>5. \A p \in Replica : doc[p] \subseteq doc'[p] /\ doc'[p] \subseteq 1..made
    BY <1>0, <2>3, <2>4 DEF TypeOK
  <2> QED BY <2>4, <2>5, UnputFollows
<1>5. ASSUME NEW r \in Replica, Crash(r) PROVE HInv'
  <2>1. \A x \in Editor : \/ phase'[x] = phase[x] /\ plan'[x] = plan[x] /\ stored'[x] = stored[x]
                          \/ ~Committing(x)'
    BY <1>5 DEF Crash, Committing
  <2> QED BY <1>0, <1>5, <2>1, UnputFollows DEF Crash, docVars
<1> QED BY <1>1, <1>2, <1>3, <1>4, <1>5

LEMMA InitFollows == Init => HInv
<1> SUFFICES ASSUME Init PROVE HInv
  OBVIOUS
<1>1. 1..made = {} /\ \A r \in Replica : doc[r] = {}
  BY DEF Init
<1>2. Numbered
  BY DEF Init, Numbered, Blank
<1>3. OwnWrites /\ HeadsFollow /\ CommitFollows
  BY <1>1, HomeIsReplica DEF OwnWrites, HeadsFollow, CommitFollows, HeadPuts
<1>4. OneCommit
  BY DEF Init, OneCommit, Committing
<1> QED BY <1>2, <1>3, <1>4 DEF HInv

LEMMA NextFollows == IInv /\ TypeOK /\ HInv /\ [Next]_vars => HInv'
<1> SUFFICES ASSUME IInv, TypeOK, HInv, [Next]_vars PROVE HInv'
  OBVIOUS
<1>1. TypeOK'
  BY NextTypes
<1>2. ASSUME NEW e \in Editor, SetHead(e) PROVE HInv'
  BY <1>1, <1>2, SetHeadFollows
<1>3. ASSUME NEW e \in Editor, NEW wall \in 1..budget.wall,
             PutRevision(e, wall) \/ BrowserCommit(e, wall)
      PROVE  HInv'
  <2>1. wall \in Nat
    BY DEF TypeOK
  <2> QED BY <1>1, <1>3, <2>1, PutRevisionFollows, BrowserCommitFollows
<1> QED BY <1>2, <1>3, OtherFollows DEF Next

AllInv == IInv /\ TypeOK /\ HInv

LEMMA AllInvHolds == Spec => []AllInv
<1>1. Init => AllInv
  BY InitIInv, InitTypes, InitFollows DEF AllInv
<1>2. AllInv /\ [Next]_vars => AllInv'
  BY NextIInv, NextTypes, NextFollows DEF AllInv
<1> QED BY <1>1, <1>2, PTL DEF Spec

(* No finished save is dropped: whatever a replica ever asserted is shown, *)
(* reported as a conflict, or followed by what is (resolve_heads looks at  *)
(* the current heads only).                                                *)
THEOREM SavesRetained == Spec => []Retained
BY AllInvHolds, HistoryIsRetained, PTL DEF AllInv

(* While timestamps follow the order of causes, the conflicts reported are *)
(* exactly the asserted revisions concurrent with the one that is shown    *)
(* (resolve_heads, is_ancestor).                                           *)
THEOREM ConflictsExact == Spec => []ConflictsExplicit
BY AllInvHolds, ConflictsAreExplicit, PTL DEF AllInv

-----------------------------------------------------------------------------
(* What a browser saves wins.                                              *)

Asymmetric == \A x, y \in Change : Before(x, y) => ~Before(y, x)

LEMMA BeforeAsymmetric == TypeOK => Asymmetric
BY BeforeOrders DEF Asymmetric

LoadableAncestors ==
    \A r \in Replica : \A y \in Revisions(doc[r]) : \A x \in History[y] : IsAncestor(x, y, doc[r])

LEMMA HistoryIsAncestry == AllInv => LoadableAncestors
<1> SUFFICES ASSUME AllInv, NEW r \in Replica, NEW y \in Revisions(doc[r]), NEW x \in History[y]
             PROVE  IsAncestor(x, y, doc[r])
  BY DEF LoadableAncestors
<1>1. doc[r] \in SUBSET Change /\ PredecessorsLoadable /\ Numbered /\ TypeOK
  BY ClosedIsLoadable DEF AllInv, TypeOK, HInv
<1> QED BY <1>1, AncestorsAreHistory DEF PredecessorsLoadable

LEMMA BrowserWins ==
    ASSUME AllInv, AllInv', NEW e \in Editor, NEW wall \in Nat, BrowserCommit(e, wall)
    PROVE  Settled(Home[e])' \/ rec'[made'].time.tick = MaxTick
<1> USE DEF AllInv
<1> DEFINE r == Home[e]
<1>0. PICK n, D, D2 : n = NextChange /\ D = doc[r] /\ D2 = D \cup {n}
  OBVIOUS
<1> DEFINE time == BrowserTime(D, wall)
           record == Revision("commit", e, time, Predecessors(D))
<1>1. r \in Replica
  BY HomeIsReplica
<1>2. D \in SUBSET Change /\ D \subseteq 1..made
  BY <1>0, <1>1, ReferencesMade DEF TypeOK
<1>3. Put(r, record)
  BY <1>0 DEF BrowserCommit
<1>4. /\ n \in Change /\ n \notin 1..made /\ made' = n /\ rec'[n] = record
      /\ \A c \in 1..made : rec'[c] = rec[c] /\ past'[c] = past[c] /\ c \in Change
      /\ past'[n] = D /\ doc'[r] = D2
  BY <1>0, <1>1, <1>3, PutGrows, ReferencesMade
<1>5. /\ rec'[n].type = "commit" /\ rec'[n].asserts = n /\ rec'[n].time = time
      /\ rec'[n].preds = Predecessors(D)
  BY <1>0, <1>4 DEF Revision
<1>6. \A c \in 1..made : author'[c] = author[c]
  BY DEF TypeOK, BrowserCommit, Put, Docs!Write, NextChange
<1>7. time \in Time /\ (time.tick # MaxTick => \A x \in Revisions(D) : Later(time, rec[x].time))
  BY <1>2, BrowserTimeLater
<1> SUFFICES ASSUME time.tick # MaxTick PROVE Settled(r)'
  BY <1>4, <1>5
<1> HIDE DEF time, record
<1>8. HeadPuts(D2)' = HeadPuts(D) \cup {n}
  BY <1>0, <1>2, <1>4, <1>5 DEF HeadPuts
<1>9. n \in Asserted(D2)'
  <2>1. \A y \in HeadPuts(D2)' : n \notin past'[y]
    BY <1>2, <1>4, <1>8, ReferencesMade DEF HeadPuts
  <2>2. n \in HeadPuts(D2)'
    BY <1>8
  <2> QED BY <1>5, <2>1, <2>2 DEF Asserted
<1>10. ASSUME NEW x \in Asserted(D2)', x # n
       PROVE  x \in Revisions(D) /\ x \in 1..made /\ x \in History'[n]
  <2>1. PICK h \in HeadPuts(D2)' : rec'[h].asserts = x
    BY <1>10 DEF Asserted
  <2>2. h \in HeadPuts(D) /\ h \in 1..made /\ rec[h].asserts = x
    BY <1>2, <1>4, <1>5, <1>8, <1>10, <2>1 DEF HeadPuts
  <2>3. x \in Revisions(D)
    BY <1>0, <1>1, <2>2, ClosedIsLoadable DEF HeadsLoadable
  <2>4. x \in History'[n]
    BY <1>0, <2>2, BrowserCommitFollows DEF AllInv
  <2> QED BY <1>2, <2>3, <2>4 DEF Revisions
<1>11. ASSUME NEW x \in Asserted(D2)', x # n PROVE Before(x, n)'
  <2>1. Later(time, rec[x].time) /\ rec'[x] = rec[x]
    BY <1>4, <1>7, <1>10, <1>11
  <2>2. Later(rec'[n].time, rec'[x].time)
    BY <1>5, <2>1
  <2> QED BY <2>2 DEF Before, Later
<1>12. ASSUME NEW x \in Asserted(D2)', x # n PROVE ~Before(n, x)'
  <2>1. (TypeOK => Asymmetric)'
    BY BeforeAsymmetric, PTL
  <2>2. x \in Change /\ n \in Change
    BY <1>4, <1>10, <1>12
  <2> QED BY <1>11, <1>12, <2>1, <2>2 DEF Asymmetric
<1>13. Shown(D2)' = {n}
  BY <1>9, <1>11, <1>12 DEF Shown
<1>14. Winner(D2)' = n
  BY <1>13 DEF Winner
<1>15. Conflict(D2)' = {}
  <2>1. (AllInv => LoadableAncestors)'
    BY HistoryIsAncestry, PTL
  <2>2. \A x \in Asserted(D2)' : x # n => IsAncestor(x, n, D2)'
    <3>1. n \in Revisions(doc[r])'
      BY <1>0, <1>4, <1>5 DEF Revisions
    <3>2. \A x \in History'[n] : IsAncestor(x, n, doc[r])'
      BY <1>1, <2>1, <3>1 DEF LoadableAncestors
    <3>3. \A x \in History'[n] : IsAncestor(x, n, D2)'
      BY <1>4, <3>2 DEF IsAncestor, Revisions
    <3> QED BY <1>10, <3>3
  <2> QED BY <1>13, <1>14, <2>2 DEF Conflict
<1>16. Shown(doc[r])' = {made'} /\ Conflict(doc[r])' = {}
  <2>1. Asserted(doc[r])' = Asserted(D2)'
    BY <1>4 DEF Asserted, HeadPuts
  <2>2. Shown(doc[r])' = Shown(D2)'
    BY <2>1 DEF Shown
  <2>3. Winner(doc[r])' = Winner(D2)'
    BY <2>2 DEF Winner
  <2>4. \A x, y : IsAncestor(x, y, doc[r])' <=> IsAncestor(x, y, D2)'
    BY <1>4 DEF IsAncestor, Revisions
  <2>5. Conflict(doc[r])' = Conflict(D2)'
    BY <2>1, <2>2, <2>3, <2>4 DEF Conflict
  <2> QED BY <1>4, <1>13, <1>15, <2>2, <2>5
<1> QED BY <1>16 DEF Settled

(* What a browser saves is what its replica shows next, without conflicts, *)
(* whatever clocks the others have (mutateNote, WorkspaceRecords'          *)
(* next_timestamp), unless the timestamp's counter is used up (hlc.rs).    *)
THEOREM BrowserSavesWin == Spec => BrowserSaveWins
<1>1. AllInv /\ AllInv' /\ [Next]_vars =>
         [\A e \in Editor, wall \in 1..budget.wall :
             BrowserCommit(e, wall) => Settled(Home[e])' \/ rec'[made'].time.tick = MaxTick]_vars
  <2> SUFFICES ASSUME AllInv, AllInv', NEW e \in Editor, NEW wall \in 1..budget.wall,
                      BrowserCommit(e, wall)
               PROVE  Settled(Home[e])' \/ rec'[made'].time.tick = MaxTick
    OBVIOUS
  <2>1. wall \in Nat
    BY DEF AllInv, TypeOK
  <2> QED BY <2>1, BrowserWins
<1> QED BY <1>1, AllInvHolds, PTL DEF Spec, BrowserSaveWins

-----------------------------------------------------------------------------
(* Notes that are saved in browsers.                                       *)

(* A browser's clock has observed what its revision follows, whoever wrote *)
(* that, unless the counter of its timestamp is used up.                   *)
BrowserSave(c) == rec[c].type \in {"revision", "commit"} /\ author[c] \in Browser
                  /\ rec[c].time.tick # MaxTick
BrowsersObserve == \A c \in 1..made : BrowserSave(c) =>
                      \A p \in rec[c].preds : Later(rec[c].time, rec[p].time)

LEMMA PutObserves ==
    ASSUME AllInv, BrowsersObserve, NEW r \in Replica, NEW record \in Record, Put(r, record),
           record.preds \subseteq Revisions(doc[r]),
           record.type # "head" /\ r \in Browser /\ record.time.tick # MaxTick
             => \A p \in record.preds : Later(record.time, rec[p].time)
    PROVE  BrowsersObserve'
<1> USE DEF AllInv
<1>0. PICK n : n = NextChange OBVIOUS
<1>1. /\ n \in Change /\ n \notin 1..made /\ made' = n
      /\ rec'[n] = record /\ \A c \in 1..made : rec'[c] = rec[c]
  BY <1>0, PutGrows
<1>2. /\ author'[n] = r /\ \A c \in 1..made : author'[c] = author[c] /\ c \in Change
  <2>1. author' = [author EXCEPT ![n] = r] BY <1>0 DEF Put, Docs!Write
  <2>2. \A c \in 1..made : c \in Change /\ c # n BY <1>0, ReferencesMade
  <2> QED BY <1>1, <2>1, <2>2 DEF TypeOK
<1>3. 1..made' = 1..made \cup {n}
  <2>1. made \in Nat BY ConstantsAssumption DEF TypeOK
  <2> QED BY <1>0, <1>1, <2>1 DEF NextChange
<1>4. \A p \in Revisions(doc[r]) : p \in 1..made BY ReferencesMade DEF Revisions
<1>5. ASSUME NEW c \in 1..made, BrowserSave(c)', NEW p \in rec'[c].preds
      PROVE  Later(rec'[c].time, rec'[p].time)
  <2>1. rec'[c] = rec[c] /\ p \in rec[c].preds /\ BrowserSave(c) BY <1>1, <1>2, <1>5 DEF BrowserSave
  <2>2. p \in 1..(c - 1) BY <1>2, <2>1 DEF HInv, Numbered
  <2>3. p \in 1..made
    <3>1. c \in Nat /\ made \in Nat BY ConstantsAssumption DEF TypeOK
    <3> QED BY <2>2, <3>1
  <2> QED BY <1>1, <2>1, <2>3 DEF BrowsersObserve
<1>6. ASSUME BrowserSave(n)', NEW p \in record.preds PROVE Later(record.time, rec'[p].time)
  <2>1. record.type # "head" /\ r \in Browser /\ record.time.tick # MaxTick
    BY <1>1, <1>2, <1>6 DEF BrowserSave
  <2> QED BY <1>1, <1>4, <1>6, <2>1
<1> QED BY <1>1, <1>3, <1>5, <1>6 DEF BrowsersObserve

LEMMA StepsObserve == AllInv /\ BrowsersObserve /\ [Next]_vars => BrowsersObserve'
<1> SUFFICES ASSUME AllInv, BrowsersObserve, [Next]_vars PROVE BrowsersObserve'
  OBVIOUS
<1>1. \A r \in Replica : doc[r] \in SUBSET Change BY DEF AllInv, TypeOK
<1>2. ASSUME UNCHANGED <<made, author, rec>> PROVE BrowsersObserve'
  BY <1>2 DEF BrowsersObserve, BrowserSave
<1>3. ASSUME NEW e \in Editor, SetHead(e) PROVE BrowsersObserve'
  <2>1. Put(Home[e], HeadRecord(stored[e])) /\ phase[e] = "put" BY <1>3 DEF SetHead
  <2>2. HeadRecord(stored[e]) \in Record
    <3>1. stored[e] \in Change \cup {None} /\ 0 \in 0..MaxTick
      BY ConstantsAssumption DEF AllInv, TypeOK
    <3> QED BY <3>1 DEF HeadRecord, Record, StartClock, Time
  <2>3. HeadRecord(stored[e]).type = "head" /\ HeadRecord(stored[e]).preds = {} BY DEF HeadRecord
  <2> QED BY <2>1, <2>2, <2>3, HomeIsReplica, PutObserves
<1>4. ASSUME NEW e \in Editor, NEW wall \in Nat, PutRevision(e, wall) PROVE BrowsersObserve'
  <2> DEFINE r == Home[e]  time == Ticked(clock[r], wall)
             record == Revision("revision", e, time, plan[e])
  <2>1. Put(r, record) /\ phase[e] = "loaded" /\ r \in Replica BY <1>4, HomeIsReplica DEF PutRevision
  <2>2. r \notin Browser BY <2>1 DEF AllInv, HInv, OneCommit, Committing
  <2>3. plan[e] \subseteq Revisions(doc[r]) BY DEF AllInv, IInv, PlanHeld
  <2>4. record \in Record /\ record.preds = plan[e]
    <3>1. time \in Time BY <2>1, TickedTime DEF AllInv, TypeOK
    <3>2. plan[e] \in SUBSET Change BY DEF AllInv, TypeOK
    <3> HIDE DEF time
    <3>3. NextChange \in Change BY <2>1, PutGrows DEF AllInv
    <3>4. record \in Record BY <3>1, <3>2, <3>3, RevisionType
    <3> QED BY <3>4 DEF Revision
  <2> HIDE DEF record
  <2> QED BY <2>1, <2>2, <2>3, <2>4, PutObserves
<1>5. ASSUME NEW e \in Editor, NEW wall \in Nat, BrowserCommit(e, wall) PROVE BrowsersObserve'
  <2> DEFINE r == Home[e]  time == BrowserTime(doc[r], wall)
             record == Revision("commit", e, time, Predecessors(doc[r]))
  <2>1. Put(r, record) /\ r \in Replica BY <1>5, HomeIsReplica DEF BrowserCommit
  <2>2. time \in Time /\ (time.tick # MaxTick => \A x \in Revisions(doc[r]) : Later(time, rec[x].time))
    BY <1>1, <2>1, BrowserTimeLater DEF AllInv
  <2>3. Predecessors(doc[r]) \subseteq Revisions(doc[r])
    BY <2>1, ClosedIsLoadable, PredecessorsStored DEF AllInv
  <2>4. Predecessors(doc[r]) \in SUBSET Change BY <1>1, <2>1, <2>3 DEF Revisions
  <2>5. NextChange \in Change BY <2>1, PutGrows DEF AllInv
  <2> HIDE DEF time
  <2>6. record \in Record /\ record.preds = Predecessors(doc[r]) /\ record.time = time
    <3>1. record \in Record BY <2>2, <2>4, <2>5, RevisionType
    <3> QED BY <3>1 DEF Revision
  <2> HIDE DEF record, r
  <2> QED BY <2>1, <2>2, <2>3, <2>6, PutObserves
<1>6. \A wall \in 1..budget.wall : wall \in Nat BY DEF AllInv, TypeOK
<1>7. CASE UNCHANGED vars BY <1>2, <1>7 DEF vars, docVars
<1>8. ASSUME NEW e \in Editor, Read(e) \/ Load(e) PROVE BrowsersObserve'
  BY <1>2, <1>8 DEF Read, Load, docVars
<1>9. ASSUME NEW r \in Replica, Merge(r) \/ Crash(r) PROVE BrowsersObserve'
  BY <1>2, <1>9 DEF Merge, Crash, docVars, Docs!Merge
<1> QED BY <1>3, <1>4, <1>5, <1>6, <1>7, <1>8, <1>9 DEF Next

SavedInBrowsers(D) == \A c \in Revisions(D) : BrowserSave(c)

LEMMA BrowsersKeepOrder ==
    ASSUME AllInv, BrowsersObserve, NEW r \in Replica, SavedInBrowsers(doc[r])
    PROVE  \A x \in Conflict(doc[r]) : Concurrent(x, Winner(doc[r]))
<1>1. OrderedClocks(doc[r])
  <2> SUFFICES ASSUME NEW c \in Revisions(doc[r]), NEW p \in rec[c].preds PROVE Before(p, c)
    BY DEF OrderedClocks
  <2>1. BrowserSave(c) /\ c \in 1..made BY ReferencesMade DEF SavedInBrowsers, Revisions, AllInv
  <2>2. Later(rec[c].time, rec[p].time) BY <2>1 DEF BrowsersObserve
  <2> QED BY <2>2 DEF Later, Before
<1>2. ConflictsExplicit BY ConflictsAreExplicit DEF AllInv
<1> QED BY <1>1, <1>2 DEF ConflictsExplicit

(* "Concurrent revisions remain explicit conflicts" (docs/architecture.md) *)
(* of the notes that browsers save, unless a timestamp's counter is used   *)
(* up: only a native session or the server, whose clocks do not observe    *)
(* what they merge, makes a conflict of a revision that was replaced.      *)
THEOREM BrowserConflictsAreConcurrent ==
    Spec => []((\A r \in Replica : SavedInBrowsers(doc[r])) => ConflictsAreConcurrent)
<1>1. Init => BrowsersObserve
  <2>1. Init => 1..made = {} BY DEF Init
  <2> QED BY <2>1 DEF BrowsersObserve
<1>2. AllInv /\ BrowsersObserve => ((\A r \in Replica : SavedInBrowsers(doc[r])) => ConflictsAreConcurrent)
  BY BrowsersKeepOrder DEF ConflictsAreConcurrent
<1> QED BY <1>1, <1>2, StepsObserve, AllInvHolds, PTL DEF Spec
=============================================================================
