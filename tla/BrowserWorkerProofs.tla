------------------------ MODULE BrowserWorkerProofs ------------------------
(***************************************************************************)
(* The browser's worker: theorems about BrowserWorker, for every number of *)
(* sockets and every budget. With any number of tabs the types hold and    *)
(* each queue awaits one transaction; with one tab the replicas stored,    *)
(* written and in memory follow each other, so that answered edits stay.   *)
(***************************************************************************)
EXTENDS BrowserWorker, Induction

-----------------------------------------------------------------------------
\* The first changes are numbered one by one, each of another workspace and actor.
LEMMA Numbering ==
    /\ Len(Beginnings) \in Nat /\ Firsts \subseteq Nat
    /\ \A c \in Firsts : /\ Beginnings[c].ws \in Nat /\ Beginnings[c].actor \in Nat
                         /\ Beginnings[c].ws # 0 /\ Beginnings[c].seq = 1
    /\ \A c, d \in Firsts :
         Beginnings[c].ws = Beginnings[d].ws /\ Beginnings[c].actor = Beginnings[d].actor => c = d
<1> DEFINE W == 1 .. Workspaces
           A == 0 .. MaxActors
           S == [ws : W, actor : A, seq : {1}, past : {{}}]
           g == [x \in W \X A |-> [ws |-> x[1], actor |-> x[2], seq |-> 1, past |-> {}]]
<1>1. IsFiniteSet(W \X A)
  <2>1. Workspaces \in Nat /\ MaxActors \in Nat BY ConstantsAssumption
  <2>2. IsFiniteSet(W) /\ IsFiniteSet(A) BY <2>1, FS_Interval
  <2> QED BY <2>2, FS_Product
<1>2. g \in Surjection(W \X A, S)
  <2>1. g \in [W \X A -> S] OBVIOUS
  <2>2. ASSUME NEW r \in S PROVE \E x \in W \X A : g[x] = r
    <3>1. <<r.ws, r.actor>> \in W \X A /\ r.seq = 1 /\ r.past = {} OBVIOUS
    <3>2. g[<<r.ws, r.actor>>] = r BY <3>1
    <3> QED BY <3>1, <3>2
  <2> QED BY <2>1, <2>2 DEF Surjection
<1>3. IsFiniteSet(S) BY <1>1, <1>2, FS_Surjection
<1>4. PICK n \in Nat : n = Cardinality(S) BY <1>3, FS_CardinalityType
<1>5. \E f : f \in [1 .. n -> S] /\ IsInjective(f)
  <2>1. ExistsBijection(1 .. n, S) BY <1>3, <1>4, FS_CardinalityType
  <2> QED BY <2>1 DEF ExistsBijection, Bijection, Injection
<1>6. Beginnings \in [1 .. n -> S] /\ IsInjective(Beginnings)
  BY <1>4, <1>5 DEF Beginnings, SetToSeq
<1>7. Len(Beginnings) = n BY <1>6
<1>8. \A c \in Firsts : Beginnings[c] \in S BY <1>6, <1>7 DEF Firsts
<1>9. ASSUME NEW c \in Firsts, NEW d \in Firsts,
             Beginnings[c].ws = Beginnings[d].ws, Beginnings[c].actor = Beginnings[d].actor
      PROVE  c = d
  <2>1. ASSUME NEW x \in S, NEW y \in S, x.ws = y.ws, x.actor = y.actor PROVE x = y
    BY <2>1
  <2> HIDE DEF S
  <2>2. Beginnings[c] = Beginnings[d] BY <1>8, <1>9, <2>1
  <2> QED BY <1>6, <1>7, <2>2 DEF IsInjective, Firsts
<1>10. \A c \in Firsts : /\ Beginnings[c].ws \in Nat /\ Beginnings[c].actor \in Nat
                          /\ Beginnings[c].ws # 0 /\ Beginnings[c].seq = 1
  BY <1>8
<1> QED BY <1>7, <1>9, <1>10 DEF Firsts

-----------------------------------------------------------------------------
(* Types.                                                                  *)

Docs == SUBSET (1 .. made)
Snapshots == [ws : Nat, doc : Docs]
SettingsKept == [named : BOOLEAN, dirty : BOOLEAN, actor : Nat]
SyncStates == [heard : BOOLEAN, theirs : SUBSET Nat, said : BOOLEAN, last : SUBSET Nat,
               flying : BOOLEAN]
Syncs == [type : {"sync"}, heads : SUBSET Nat, changes : Docs]
FramesUp == Syncs \cup [type : {"hello"}, heads : SUBSET Nat, changes : Docs]
FramesDown == [on : Socket, msg : Syncs \cup [type : {"hello"}, ws : Nat]]

RequestStages == {"idle", "name", "replica", "settings"}
SocketStages == {"idle", "merged", "clean", "adopt", "adopted"}
WorkerPages ==
    [running : BOOLEAN, token : BOOLEAN, settings : SettingsKept, replica : Snapshots,
     sync : SyncStates, current : 0 .. dialled, connection : {"offline", "connecting", "connected"},
     timer : BOOLEAN, queue : Seq(FramesDown), socketAt : SocketStages, socketOn : 0 .. MaxSockets,
     requestAt : RequestStages, requestFor : 0 .. made]

WorkerQueues == {"request", "socket"}
SettingsPuts == [tab : Tab, store : {"settings"}, value : SettingsKept, by : WorkerQueues]
ReplicaPuts == [tab : Tab, store : {"replica"}, value : Snapshots, by : WorkerQueues]
Puts == SettingsPuts \cup ReplicaPuts
Databases == [settings : SettingsKept, replica : Snapshots]

Phases == {"unused", "connecting", "open", "closing", "closed"}
Peers == [at : {"waiting", "serving", "ended"}, sync : SyncStates]

SocketTypes ==
    /\ phase \in [Socket -> Phases] /\ up \in [Socket -> Seq(FramesUp)]
    /\ peer \in [Socket -> Peers]

\* A change keeps the workspace it was written in.
InfoTypes == info = [c \in Change |-> info[c]] /\ \A c \in Change : info[c].ws \in Nat

WorkerTypes ==
    /\ made \in 0 .. MaxChanges /\ Len(Beginnings) <= made
    /\ dialled \in 0 .. MaxSockets /\ drawn \in Nat
    /\ page \in [Tab -> WorkerPages] /\ db \in Databases /\ tx \in Seq(Puts)
    /\ SocketTypes
    /\ srv \in Snapshots /\ InfoTypes
    /\ acked \subseteq 1 .. made /\ refused \subseteq 1 .. made /\ budget \in Budget

\* A document begun, or merged into, holds changes that were made.
LEMMA BegunDocs ==
    ASSUME WorkerTypes
    PROVE  \A w, a : Begins(w, a) \in Docs
<1>1. Len(Beginnings) \in Nat /\ made \in Nat BY Numbering, ConstantsAssumption DEF WorkerTypes
<1>2. Firsts \subseteq 1 .. made BY <1>1 DEF Firsts, WorkerTypes
<1> QED BY <1>2 DEF Begins, Docs

LEMMA MergedDocs ==
    ASSUME NEW old \in Docs, NEW new \in Docs, NEW doc \in Applied(old, new)
    PROVE  doc \in Docs /\ old \subseteq doc /\ doc \subseteq old \cup new
<1>1. old \subseteq doc /\ doc \subseteq old \cup new BY DEF Applied, Fitting
<1> QED BY <1>1 DEF Docs

\* What has its type keeps it while changes and sockets are added.
LEMMA LongerSeq == ASSUME NEW S, NEW T, S \subseteq T, NEW s \in Seq(S) PROVE s \in Seq(T)
OBVIOUS

Grows == /\ made <= made' /\ made' \in 0 .. MaxChanges
         /\ dialled <= dialled' /\ dialled' \in 0 .. MaxSockets

LEMMA TypesGrow ==
    ASSUME WorkerTypes, Grows
    PROVE  /\ Docs \subseteq Docs' /\ Snapshots \subseteq Snapshots' /\ Syncs \subseteq Syncs'
           /\ FramesUp \subseteq FramesUp' /\ FramesDown \subseteq FramesDown'
           /\ WorkerPages \subseteq WorkerPages' /\ Puts \subseteq Puts'
           /\ Databases \subseteq Databases'
<1>1. made \in Nat /\ made' \in Nat /\ dialled \in Nat /\ dialled' \in Nat /\ MaxSockets \in Nat
      /\ made <= made' /\ dialled <= dialled'
  BY ConstantsAssumption DEF WorkerTypes, Grows
<1>2. Docs \subseteq Docs' /\ 0 .. made \subseteq 0 .. made' /\ 0 .. dialled \subseteq 0 .. dialled'
  BY <1>1 DEF Docs
<1> HIDE DEF Docs
<1>3. Snapshots \subseteq Snapshots' BY <1>2 DEF Snapshots
<1>4. Syncs \subseteq Syncs' BY <1>2 DEF Syncs
<1>5. FramesUp \subseteq FramesUp' BY <1>2, <1>4 DEF FramesUp
<1>6. FramesDown \subseteq FramesDown' BY <1>4 DEF FramesDown
<1>7. Puts \subseteq Puts' BY <1>3 DEF Puts, ReplicaPuts, SettingsPuts
<1>8. Databases \subseteq Databases' BY <1>3 DEF Databases
<1>9. WorkerPages \subseteq WorkerPages'
  <2>1. Seq(FramesDown) \subseteq Seq(FramesDown)' BY <1>6, LongerSeq
  <2> QED BY <1>2, <1>3, <2>1 DEF WorkerPages
<1> QED BY <1>2, <1>3, <1>4, <1>5, <1>6, <1>7, <1>8, <1>9

LEMMA ValuesGrow ==
    ASSUME WorkerTypes, Grows
    PROVE  /\ page \in [Tab -> WorkerPages'] /\ db \in Databases' /\ tx \in Seq(Puts)'
           /\ up \in [Socket -> Seq(FramesUp)'] /\ srv \in Snapshots'
           /\ acked \subseteq 1 .. made' /\ refused \subseteq 1 .. made'
<1>1. Seq(Puts) \subseteq Seq(Puts)' /\ Seq(FramesUp) \subseteq Seq(FramesUp)'
  BY TypesGrow, LongerSeq
<1>2. made \in Nat /\ made' \in Nat /\ made <= made' BY ConstantsAssumption DEF WorkerTypes, Grows
<1>3. 1 .. made \subseteq 1 .. made' BY <1>2
<1> QED BY <1>1, <1>3, TypesGrow DEF WorkerTypes, SocketTypes

-----------------------------------------------------------------------------
\* What is left of a sequence.
LEMMA Joined ==
    ASSUME NEW S, NEW s \in Seq(S), NEW u \in Seq(S)
    PROVE  s \o u \in Seq(S) /\ Len(s \o u) = Len(s) + Len(u)
OBVIOUS

\* What is left without its n-th element.
LEMMA WithoutOne ==
    ASSUME NEW S, NEW s \in Seq(S), NEW n \in 1 .. Len(s)
    PROVE  /\ Without(s, n) \in Seq(S) /\ Len(Without(s, n)) = Len(s) - 1
           /\ \A m \in 1 .. (n - 1) : m \in 1 .. Len(s) /\ Without(s, n)[m] = s[m]
           /\ \A m \in n .. (Len(s) - 1) : m + 1 \in 1 .. Len(s) /\ Without(s, n)[m] = s[m + 1]
<1> DEFINE a == SubSeq(s, 1, n - 1)
           b == SubSeq(s, n + 1, Len(s))
<1>1. Len(s) \in Nat /\ n \in Nat OBVIOUS
<1>2. a \in Seq(S) /\ Len(a) = n - 1 /\ \A m \in 1 .. (n - 1) : a[m] = s[m]
  BY <1>1
<1>3. b \in Seq(S) /\ Len(b) = Len(s) - n /\ \A m \in 1 .. (Len(s) - n) : b[m] = s[n + m]
  BY <1>1
<1>4. Without(s, n) = a \o b BY DEF Without
<1> HIDE DEF a, b
<1>5. Without(s, n) \in Seq(S) /\ Len(Without(s, n)) = Len(s) - 1
  <2>1. a \o b \in Seq(S) /\ Len(a \o b) = Len(a) + Len(b) BY <1>2, <1>3, Joined
  <2>2. (n - 1) + (Len(s) - n) = Len(s) - 1 BY <1>1
  <2> QED BY <1>2, <1>3, <1>4, <2>1, <2>2
<1>6. ASSUME NEW m \in 1 .. (n - 1) PROVE m \in 1 .. Len(s) /\ Without(s, n)[m] = s[m]
  BY <1>1, <1>2, <1>3, <1>4
<1>7. ASSUME NEW m \in n .. (Len(s) - 1) PROVE m + 1 \in 1 .. Len(s) /\ Without(s, n)[m] = s[m + 1]
  <2>1. Without(s, n)[m] = b[m - (n - 1)] /\ m - (n - 1) \in 1 .. (Len(s) - n)
    BY <1>1, <1>2, <1>3, <1>4
  <2>2. n + (m - (n - 1)) = m + 1 BY <1>1
  <2> QED BY <1>1, <1>3, <2>1, <2>2
<1> QED BY <1>5, <1>6, <1>7

\* z is what is left of s without its n-th element, in the same order.
Left(f, z, s, n) ==
    /\ \A m \in 1 .. Len(z) : f[m] \in 1 .. Len(s) /\ f[m] # n /\ z[m] = s[f[m]]
    /\ \A l, m \in 1 .. Len(z) : l < m => f[l] < f[m]
    /\ \A j \in (1 .. Len(s)) \ {n} : \E m \in 1 .. Len(z) : f[m] = j

LEMMA WithoutKeeps ==
    ASSUME NEW S, NEW s \in Seq(S), NEW n \in 1 .. Len(s)
    PROVE  Len(Without(s, n)) \in Nat /\ \E f : Left(f, Without(s, n), s, n)
<1> DEFINE w == Without(s, n)
           f == [m \in 1 .. Len(w) |-> IF m < n THEN m ELSE m + 1]
<1>1. Len(s) \in Nat /\ n \in Nat /\ Len(w) = Len(s) - 1 BY WithoutOne
<1>2. \A m \in 1 .. Len(w) : IF m < n THEN m \in 1 .. (n - 1) ELSE m \in n .. (Len(s) - 1)
  BY <1>1
<1>3. ASSUME NEW m \in 1 .. Len(w) PROVE w[m] = s[f[m]]
  <2>1. CASE m < n BY <1>2, <2>1, WithoutOne
  <2>2. CASE ~ (m < n) BY <1>2, <2>2, WithoutOne
  <2> QED BY <2>1, <2>2
<1> HIDE DEF w
<1>4. \A m \in 1 .. Len(w) : f[m] \in 1 .. Len(s) /\ f[m] # n BY <1>1
<1>5. \A l, m \in 1 .. Len(w) : l < m => f[l] < f[m] BY <1>1
<1>6. ASSUME NEW j \in (1 .. Len(s)) \ {n} PROVE \E m \in 1 .. Len(w) : f[m] = j
  <2>1. CASE j < n
    <3>1. j \in 1 .. Len(w) /\ f[j] = j BY <1>1, <2>1
    <3> QED BY <3>1
  <2>2. CASE j > n
    <3>1. j - 1 \in 1 .. Len(w) /\ f[j - 1] = j BY <1>1, <2>2
    <3> QED BY <3>1
  <2> QED BY <1>1, <2>1, <2>2
<1> HIDE DEF f
<1>7. Left(f, w, s, n) BY <1>3, <1>4, <1>5, <1>6 DEF Left
<1> QED BY <1>1, <1>7 DEF w

LEMMA Appended ==
    ASSUME NEW S, NEW s \in Seq(S), NEW w \in S
    PROVE  /\ Append(s, w) \in Seq(S) /\ Len(Append(s, w)) = Len(s) + 1
           /\ Append(s, w)[Len(s) + 1] = w
           /\ \A i \in 1 .. Len(s) : Append(s, w)[i] = s[i]
           /\ \A i \in 1 .. (Len(s) + 1) : i \in 1 .. Len(s) \/ i = Len(s) + 1
OBVIOUS

-----------------------------------------------------------------------------
\* One replica is behind another; an edit was kept or its workspace given up.
Leq(X, Y) == X.ws < Y.ws \/ (X.ws = Y.ws /\ X.doc \subseteq Y.doc)
Keeps(X, c, ws) == ws < X.ws \/ (ws = X.ws /\ c \in X.doc)

\* The replica stored, those on their way there in their order, and the one in memory.
Chain(d, s, r) ==
    /\ Leq(d, r)
    /\ \A i \in 1 .. Len(s) : s[i].store = "replica" => Leq(d, s[i].value) /\ Leq(s[i].value, r)
    /\ \A i, j \in 1 .. Len(s) : i < j /\ s[i].store = "replica" /\ s[j].store = "replica"
                                   => Leq(s[i].value, s[j].value)

Replicas == [ws : Nat, doc : SUBSET Nat]
AnyPuts == [tab : Tab, store : {"settings"}, value : SettingsKept, by : WorkerQueues]
             \cup [tab : Tab, store : {"replica"}, value : Replicas, by : WorkerQueues]

LEMMA LeqOrders ==
    /\ \A X \in Replicas : Leq(X, X)
    /\ \A X, Y, Z \in Replicas : Leq(X, Y) /\ Leq(Y, Z) => Leq(X, Z)
BY DEF Leq, Replicas

LEMMA ChainGrows ==
    ASSUME NEW d \in Replicas, NEW s \in Seq(AnyPuts), NEW r \in Replicas, NEW q \in Replicas,
           Chain(d, s, r), Leq(r, q)
    PROVE  Chain(d, s, q)
<1>1. \A i \in 1 .. Len(s) : s[i] \in AnyPuts /\ (s[i].store = "replica" => s[i].value \in Replicas)
  BY DEF AnyPuts
<1> QED BY <1>1, LeqOrders DEF Chain

LEMMA ChainAppends ==
    ASSUME NEW d \in Replicas, NEW s \in Seq(AnyPuts), NEW r \in Replicas, Chain(d, s, r),
           NEW w \in AnyPuts, w.store = "replica" => w.value = r
    PROVE  Chain(d, Append(s, w), r)
<1>1. Leq(r, r) BY LeqOrders
<1>2. Len(s) \in Nat OBVIOUS
<1> HIDE DEF Leq
<1> QED BY <1>1, <1>2, Appended DEF Chain

LEMMA ChainLoses ==
    ASSUME NEW d \in Replicas, NEW s \in Seq(AnyPuts), NEW r \in Replicas, Chain(d, s, r),
           NEW n \in 1 .. Len(s)
    PROVE  Chain(d, Without(s, n), r)
<1>0. PICK f : Left(f, Without(s, n), s, n) BY WithoutKeeps
<1>1. /\ \A m \in 1 .. Len(Without(s, n)) :
            f[m] \in 1 .. Len(s) /\ f[m] # n /\ Without(s, n)[m] = s[f[m]]
      /\ \A l, m \in 1 .. Len(Without(s, n)) : l < m => f[l] < f[m]
  BY <1>0 DEF Left
<1>2. \A m \in 1 .. Len(Without(s, n)) : f[m] \in 1 .. Len(s) /\ Without(s, n)[m] = s[f[m]]
  BY <1>1
<1> HIDE DEF Leq
<1>3. Leq(d, r) BY DEF Chain
<1>4. ASSUME NEW m \in 1 .. Len(Without(s, n)), Without(s, n)[m].store = "replica"
      PROVE  Leq(d, Without(s, n)[m].value) /\ Leq(Without(s, n)[m].value, r)
  BY <1>2, <1>4 DEF Chain
<1>5. ASSUME NEW l \in 1 .. Len(Without(s, n)), NEW m \in 1 .. Len(Without(s, n)), l < m,
             Without(s, n)[l].store = "replica", Without(s, n)[m].store = "replica"
      PROVE  Leq(Without(s, n)[l].value, Without(s, n)[m].value)
  <2>1. f[l] \in 1 .. Len(s) /\ f[m] \in 1 .. Len(s) /\ f[l] < f[m]
        /\ s[f[l]].store = "replica" /\ s[f[m]].store = "replica"
    BY <1>1, <1>5
  <2>2. Leq(s[f[l]].value, s[f[m]].value) BY <2>1 DEF Chain
  <2> QED BY <1>1, <2>2
<1> QED BY <1>3, <1>4, <1>5 DEF Chain

LEMMA ChainCommits ==
    ASSUME NEW d \in Replicas, NEW s \in Seq(AnyPuts), NEW r \in Replicas, Chain(d, s, r),
           NEW n \in 1 .. Len(s), s[n].store = "replica",
           \A j \in 1 .. (n - 1) : s[j].store # "replica"
    PROVE  Chain(s[n].value, Without(s, n), r) /\ Leq(d, s[n].value)
<1>0. PICK f : Left(f, Without(s, n), s, n) BY WithoutKeeps
<1>1. /\ \A m \in 1 .. Len(Without(s, n)) :
            f[m] \in 1 .. Len(s) /\ f[m] # n /\ Without(s, n)[m] = s[f[m]]
      /\ \A l, m \in 1 .. Len(Without(s, n)) : l < m => f[l] < f[m]
  BY <1>0 DEF Left
<1>2. ASSUME NEW m \in 1 .. Len(Without(s, n)), Without(s, n)[m].store = "replica"
      PROVE  n < f[m]
  <2>1. f[m] \in 1 .. Len(s) /\ f[m] # n /\ s[f[m]].store = "replica" BY <1>1, <1>2
  <2>2. f[m] \notin 1 .. (n - 1) BY <2>1
  <2> QED BY <2>1, <2>2
<1>3. \A m \in 1 .. Len(Without(s, n)) : f[m] \in 1 .. Len(s) /\ Without(s, n)[m] = s[f[m]]
  BY <1>1
<1> HIDE DEF Leq
<1>4. Leq(s[n].value, r) /\ Leq(d, s[n].value) BY DEF Chain
<1>5. ASSUME NEW m \in 1 .. Len(Without(s, n)), Without(s, n)[m].store = "replica"
      PROVE  Leq(s[n].value, Without(s, n)[m].value) /\ Leq(Without(s, n)[m].value, r)
  <2>1. n < f[m] /\ f[m] \in 1 .. Len(s) /\ s[f[m]].store = "replica" BY <1>2, <1>3, <1>5
  <2> QED BY <1>3, <2>1 DEF Chain
<1>6. ASSUME NEW l \in 1 .. Len(Without(s, n)), NEW m \in 1 .. Len(Without(s, n)), l < m,
             Without(s, n)[l].store = "replica", Without(s, n)[m].store = "replica"
      PROVE  Leq(Without(s, n)[l].value, Without(s, n)[m].value)
  <2>1. f[l] \in 1 .. Len(s) /\ f[m] \in 1 .. Len(s) /\ f[l] < f[m]
        /\ s[f[l]].store = "replica" /\ s[f[m]].store = "replica"
    BY <1>1, <1>6
  <2>2. Leq(s[f[l]].value, s[f[m]].value) BY <2>1 DEF Chain
  <2> QED BY <1>1, <2>2
<1> QED BY <1>4, <1>5, <1>6 DEF Chain

-----------------------------------------------------------------------------
\* The hellos of a queue name workspaces from lo to hi, in that order.
HelloAt(q, i) == q[i].msg.type = "hello"
HostsIn(q, lo, hi) ==
    /\ lo <= hi
    /\ \A i \in 1 .. Len(q) : HelloAt(q, i) => lo <= q[i].msg.ws /\ q[i].msg.ws <= hi
    /\ \A i, j \in 1 .. Len(q) : i < j /\ HelloAt(q, i) /\ HelloAt(q, j) => q[i].msg.ws <= q[j].msg.ws

AnyFrames == [on : Socket, msg : [type : {"sync"}, heads : SUBSET Nat, changes : SUBSET Nat]
                                   \cup [type : {"hello"}, ws : Nat]]

LEMMA HelloWs ==
    ASSUME NEW q \in Seq(AnyFrames), NEW i \in 1 .. Len(q), HelloAt(q, i)
    PROVE  q[i].msg.ws \in Nat
<1>1. \A f \in AnyFrames : f.msg.type = "hello" => f.msg.ws \in Nat BY DEF AnyFrames
<1>2. q[i] \in AnyFrames OBVIOUS
<1> QED BY <1>1, <1>2 DEF HelloAt

LEMMA HostsPrefix ==
    ASSUME NEW q \in Seq(AnyFrames), NEW lo \in Nat, NEW hi \in Nat, HostsIn(q, lo, hi),
           NEW n \in 0 .. Len(q)
    PROVE  HostsIn(SubSeq(q, 1, n), lo, hi) /\ SubSeq(q, 1, n) \in Seq(AnyFrames)
<1>1. SubSeq(q, 1, n) \in Seq(AnyFrames) /\ Len(SubSeq(q, 1, n)) = n
      /\ \A i \in 1 .. n : SubSeq(q, 1, n)[i] = q[i] /\ i \in 1 .. Len(q)
  OBVIOUS
<1> QED BY <1>1 DEF HostsIn, HelloAt

LEMMA HostsTail ==
    ASSUME NEW q \in Seq(AnyFrames), NEW lo \in Nat, NEW hi \in Nat, HostsIn(q, lo, hi), q # <<>>
    PROVE  /\ HostsIn(Tail(q), lo, hi) /\ Tail(q) \in Seq(AnyFrames)
           /\ Head(q).msg.type = "hello" =>
                /\ Head(q).msg.ws \in Nat /\ lo <= Head(q).msg.ws
                /\ HostsIn(Tail(q), Head(q).msg.ws, hi)
<1>1. /\ Tail(q) \in Seq(AnyFrames) /\ Len(Tail(q)) = Len(q) - 1 /\ Len(q) \in Nat /\ 1 \in 1 .. Len(q)
      /\ \A i \in 1 .. Len(Tail(q)) : Tail(q)[i] = q[i + 1] /\ i + 1 \in 1 .. Len(q) /\ 1 < i + 1
      /\ Head(q) = q[1]
  OBVIOUS
<1>2. HostsIn(Tail(q), lo, hi) BY <1>1 DEF HostsIn, HelloAt
<1>3. ASSUME Head(q).msg.type = "hello"
      PROVE  Head(q).msg.ws \in Nat /\ lo <= Head(q).msg.ws /\ HostsIn(Tail(q), Head(q).msg.ws, hi)
  <2>1. HelloAt(q, 1) BY <1>1, <1>3 DEF HelloAt
  <2>2. q[1].msg.ws \in Nat BY <1>1, <2>1, HelloWs
  <2> QED BY <1>1, <2>1, <2>2 DEF HostsIn, HelloAt
<1> QED BY <1>1, <1>2, <1>3

LEMMA HostsAppend ==
    ASSUME NEW q \in Seq(AnyFrames), NEW lo \in Nat, NEW hi \in Nat, HostsIn(q, lo, hi),
           NEW f \in AnyFrames, f.msg.type = "hello" => f.msg.ws = hi
    PROVE  HostsIn(Append(q, f), lo, hi) /\ Append(q, f) \in Seq(AnyFrames)
<1>1. Len(q) \in Nat OBVIOUS
<1> QED BY <1>1, Appended DEF HostsIn, HelloAt

-----------------------------------------------------------------------------
\* Each queue of each page awaits one transaction while it is busy, none when it is idle.
Busy(p, b) == IF b = "request" THEN p.requestAt # "idle" ELSE p.socketAt # "idle"
Entry(w, t, b) == w.tab = t /\ w.by = b
PageOK(p) ==
    /\ ~p.running => p = Blank
    /\ p.requestAt \in {"replica", "settings"} => p.requestFor # 0

Awaits(pg, s) ==
    /\ \A i, j \in 1 .. Len(s) : s[i].tab = s[j].tab /\ s[i].by = s[j].by => i = j
    /\ \A t \in Tab, b \in WorkerQueues : Busy(pg[t], b) <=> \E i \in 1 .. Len(s) : Entry(s[i], t, b)
    /\ \A t \in Tab : PageOK(pg[t])

\* The page of t is another, and the queues other than b are as busy as they were.
Turns(pg, qg, t, b) ==
    /\ \A u \in Tab \ {t} : qg[u] = pg[u]
    /\ \A c \in WorkerQueues \ {b} : Busy(qg[t], c) <=> Busy(pg[t], c)
    /\ PageOK(qg[t])

LEMMA AwaitsStill ==
    ASSUME NEW pg, NEW qg, NEW s, NEW t \in Tab, Awaits(pg, s), Turns(pg, qg, t, "none")
    PROVE  Awaits(qg, s)
<1>1. \A b \in WorkerQueues : Busy(qg[t], b) <=> Busy(pg[t], b) BY DEF Turns, WorkerQueues
<1>2. \A u \in Tab, b \in WorkerQueues : Busy(qg[u], b) <=> Busy(pg[u], b)
  BY <1>1 DEF Turns
<1>3. \A u \in Tab : PageOK(qg[u]) BY DEF Turns, Awaits
<1> QED BY <1>2, <1>3 DEF Awaits

LEMMA AwaitsBegins ==
    ASSUME NEW pg, NEW qg, NEW S, NEW s \in Seq(S), NEW t \in Tab, NEW b \in WorkerQueues, NEW w \in S,
           Awaits(pg, s), Turns(pg, qg, t, b), Entry(w, t, b), ~Busy(pg[t], b), Busy(qg[t], b)
    PROVE  Awaits(qg, Append(s, w))
<1> DEFINE z == Append(s, w)
<1>1. /\ Len(z) = Len(s) + 1 /\ z[Len(s) + 1] = w /\ Len(s) \in Nat
      /\ \A i \in 1 .. Len(s) : z[i] = s[i] /\ i \in 1 .. Len(z)
      /\ \A i \in 1 .. Len(z) : i \in 1 .. Len(s) \/ i = Len(s) + 1
      /\ Len(s) + 1 \in 1 .. Len(z)
  BY Appended
<1> HIDE DEF z
<1>2. \A i \in 1 .. Len(s) : ~Entry(s[i], t, b) BY DEF Awaits
<1>3. ASSUME NEW i \in 1 .. Len(z), NEW j \in 1 .. Len(z), z[i].tab = z[j].tab, z[i].by = z[j].by
      PROVE  i = j
  <2>1. CASE i \in 1 .. Len(s) /\ j \in 1 .. Len(s) BY <1>1, <1>3, <2>1 DEF Awaits
  <2>2. CASE i = Len(s) + 1 /\ j \in 1 .. Len(s) BY <1>1, <1>2, <1>3, <2>2 DEF Entry
  <2>3. CASE j = Len(s) + 1 /\ i \in 1 .. Len(s) BY <1>1, <1>2, <1>3, <2>3 DEF Entry
  <2> QED BY <1>1, <2>1, <2>2, <2>3
<1>4. ASSUME NEW u \in Tab, NEW c \in WorkerQueues
      PROVE  Busy(qg[u], c) <=> \E i \in 1 .. Len(z) : Entry(z[i], u, c)
  <2>1. CASE u = t /\ c = b BY <1>1, <2>1
  <2>2. CASE ~(u = t /\ c = b)
    <3>1. Busy(qg[u], c) <=> Busy(pg[u], c) BY <2>2 DEF Turns
    <3>2. ~Entry(w, u, c) BY <2>2 DEF Entry
    <3>3. (\E i \in 1 .. Len(z) : Entry(z[i], u, c)) <=> \E i \in 1 .. Len(s) : Entry(s[i], u, c)
      BY <1>1, <3>2
    <3> QED BY <3>1, <3>3 DEF Awaits
  <2> QED BY <2>1, <2>2
<1>5. \A u \in Tab : PageOK(qg[u]) BY DEF Turns, Awaits
<1> QED BY <1>3, <1>4, <1>5 DEF Awaits, z

LEMMA AwaitsEnds ==
    ASSUME NEW pg, NEW qg, NEW S, NEW s \in Seq(S), NEW t \in Tab, NEW b \in WorkerQueues,
           NEW n \in 1 .. Len(s), Awaits(pg, s), Turns(pg, qg, t, b), Entry(s[n], t, b), ~Busy(qg[t], b)
    PROVE  Awaits(qg, Without(s, n))
<1> DEFINE z == Without(s, n)
<1> HIDE DEF z
<1>1. PICK f : Left(f, z, s, n) BY WithoutKeeps DEF z
<1>2. Len(z) \in Nat BY WithoutKeeps DEF z
<1>3. /\ \A m \in 1 .. Len(z) : f[m] \in 1 .. Len(s) /\ f[m] # n /\ z[m] = s[f[m]]
      /\ \A l, m \in 1 .. Len(z) : l < m => f[l] < f[m]
      /\ \A j \in (1 .. Len(s)) \ {n} : \E m \in 1 .. Len(z) : f[m] = j
  BY <1>1 DEF Left
<1>4. ASSUME NEW i \in 1 .. Len(z), NEW j \in 1 .. Len(z), z[i].tab = z[j].tab, z[i].by = z[j].by
      PROVE  i = j
  <2>1. f[i] = f[j]
    <3>1. s[f[i]].tab = s[f[j]].tab /\ s[f[i]].by = s[f[j]].by BY <1>3, <1>4
    <3> QED BY <1>3, <3>1 DEF Awaits
  <2>2. ~(i < j) /\ ~(j < i) BY <1>3, <2>1
  <2> QED BY <1>2, <2>2
<1>5. ASSUME NEW u \in Tab, NEW c \in WorkerQueues
      PROVE  Busy(qg[u], c) <=> \E i \in 1 .. Len(z) : Entry(z[i], u, c)
  <2>1. CASE u = t /\ c = b
    <3>1. ASSUME NEW i \in 1 .. Len(z), Entry(z[i], t, b) PROVE FALSE
      <4>1. Entry(s[f[i]], t, b) BY <1>3, <3>1
      <4>2. f[i] = n
        <5>1. s[f[i]].tab = s[n].tab /\ s[f[i]].by = s[n].by BY <4>1 DEF Entry
        <5>2. f[i] \in 1 .. Len(s) BY <1>3
        <5> QED BY <5>1, <5>2 DEF Awaits
      <4> QED BY <1>3, <4>2
    <3> QED BY <2>1, <3>1
  <2>2. CASE ~(u = t /\ c = b)
    <3>1. Busy(qg[u], c) <=> Busy(pg[u], c) BY <2>2 DEF Turns
    <3>2. ~Entry(s[n], u, c) BY <2>2 DEF Entry
    <3>3. (\E i \in 1 .. Len(z) : Entry(z[i], u, c)) <=> \E i \in 1 .. Len(s) : Entry(s[i], u, c)
      BY <1>3, <3>2
    <3> QED BY <3>1, <3>3 DEF Awaits
  <2> QED BY <2>1, <2>2
<1>6. \A u \in Tab : PageOK(qg[u]) BY DEF Turns, Awaits
<1> QED BY <1>4, <1>5, <1>6 DEF Awaits, z

\* A queue that awaits its next transaction.
LEMMA AwaitsGoesOn ==
    ASSUME NEW pg, NEW qg, NEW S, NEW s \in Seq(S), NEW t \in Tab, NEW b \in WorkerQueues, NEW w \in S,
           NEW n \in 1 .. Len(s), Awaits(pg, s), Turns(pg, qg, t, b), Entry(s[n], t, b),
           Entry(w, t, b), Busy(qg[t], b), pg[t] \in WorkerPages
    PROVE  Awaits(qg, Append(Without(s, n), w))
<1> DEFINE p == IF b = "request" THEN [pg[t] EXCEPT !.requestAt = "idle"]
                                 ELSE [pg[t] EXCEPT !.socketAt = "idle"]
           rg == [u \in Tab |-> IF u = t THEN p ELSE pg[u]]
<1>1. PageOK(pg[t]) BY DEF Awaits
<1>2. /\ ~Busy(p, b) /\ \A c \in WorkerQueues \ {b} : Busy(p, c) <=> Busy(pg[t], c)
      /\ PageOK(p)
  <2>1. p \in WorkerPages /\ p.running = pg[t].running /\ p.requestFor = pg[t].requestFor
        /\ p.requestAt = (IF b = "request" THEN "idle" ELSE pg[t].requestAt)
        /\ p.socketAt = (IF b = "request" THEN pg[t].socketAt ELSE "idle")
    <3>1. CASE b = "request" BY <3>1 DEF WorkerPages, RequestStages
    <3>2. CASE b # "request" BY <3>2 DEF WorkerPages, SocketStages
    <3> QED BY <3>1, <3>2
  <2>2. pg[t].running
    <3>1. Busy(pg[t], b) BY DEF Awaits
    <3>2. Blank.requestAt = "idle" /\ Blank.socketAt = "idle" BY DEF Blank
    <3> QED BY <1>1, <3>1, <3>2 DEF PageOK, Busy
  <2> HIDE DEF p
  <2> QED BY <1>1, <2>1, <2>2 DEF Busy, PageOK, WorkerQueues
<1> HIDE DEF p
<1>3. rg[t] = p /\ \A u \in Tab \ {t} : rg[u] = pg[u] OBVIOUS
<1> HIDE DEF rg
<1>4. Turns(pg, rg, t, b) BY <1>2, <1>3 DEF Turns
<1>5. Awaits(rg, Without(s, n)) BY <1>2, <1>3, <1>4, AwaitsEnds
<1>6. Turns(rg, qg, t, b) BY <1>2, <1>3 DEF Turns
<1>7. Without(s, n) \in Seq(S) BY WithoutOne
<1> QED BY <1>2, <1>3, <1>5, <1>6, <1>7, AwaitsBegins

-----------------------------------------------------------------------------
(* What one tab's answered edits rest on.  d is the replica stored, s the  *)
(* transactions, p the page, h the workspace the server hosts.             *)

Answered(d, s, p, ack, of) ==
    /\ \A c \in ack : Keeps(d, c, of[c].ws)
    /\ p.requestAt = "settings" => Keeps(d, p.requestFor, of[p.requestFor].ws)
    /\ p.requestAt = "replica" =>
         \A i \in 1 .. Len(s) : s[i].by = "request" =>
             s[i].store = "replica" /\ Keeps(s[i].value, p.requestFor, of[p.requestFor].ws)

Safe(d, s, p, h, ack, of) ==
    /\ d.ws <= h
    /\ HostsIn(p.queue, p.replica.ws, h)
    /\ p.running => Chain(d, s, p.replica)
    /\ Answered(d, s, p, ack, of)

OneTab == \E t : Tab = {t}
Kept == \A t \in Tab : Safe(db.replica, tx, page[t], srv.ws, acked, info)

WorkerIInv == WorkerTypes /\ Awaits(page, tx) /\ (OneTab => Kept)

-----------------------------------------------------------------------------
\* A step of one page: what it has to show.
LEMMA Stepped ==
    ASSUME WorkerIInv, Grows, NEW t \in Tab, NEW q \in WorkerPages', page' = [page EXCEPT ![t] = q],
           db' \in Databases', tx' \in Seq(Puts)', SocketTypes', srv' \in Snapshots',
           InfoTypes', acked' \subseteq 1 .. made',
           refused' \subseteq 1 .. made', budget' \in Budget, drawn' \in Nat, Awaits(page', tx'),
           OneTab /\ Safe(db.replica, tx, page[t], srv.ws, acked, info)
             => Safe(db.replica', tx', q, srv.ws', acked', info')
    PROVE  WorkerIInv'
<1>1. page \in [Tab -> WorkerPages'] BY ValuesGrow DEF WorkerIInv
<1>2. page' \in [Tab -> WorkerPages'] /\ page'[t] = q BY <1>1
<1>3. WorkerTypes'
  <2>1. Len(Beginnings) <= made'
    BY Numbering, ConstantsAssumption DEF WorkerIInv, WorkerTypes, Grows
  <2> QED BY <1>2, <2>1 DEF WorkerTypes, Grows
<1>4. ASSUME OneTab PROVE Kept'
  <2>1. Tab = {t} BY <1>4 DEF OneTab
  <2>2. Safe(db.replica, tx, page[t], srv.ws, acked, info) BY <1>4 DEF WorkerIInv, Kept
  <2>3. Safe(db.replica', tx', page'[t], srv.ws', acked', info') BY <1>2, <1>4, <2>2
  <2> QED BY <2>1, <2>3 DEF Kept
<1> QED BY <1>3, <1>4 DEF WorkerIInv, OneTab

\* Puts, replicas and frames without regard to how many changes there are.
LEMMA AnyTypes ==
    ASSUME WorkerTypes
    PROVE  /\ Snapshots \subseteq Replicas /\ Puts \subseteq AnyPuts /\ FramesDown \subseteq AnyFrames
           /\ Seq(Puts) \subseteq Seq(AnyPuts) /\ Seq(FramesDown) \subseteq Seq(AnyFrames)
<1>1. made \in Nat BY ConstantsAssumption DEF WorkerTypes
<1>2. Docs \subseteq SUBSET Nat BY <1>1 DEF Docs
<1> HIDE DEF Docs
<1>3. Snapshots \subseteq Replicas BY <1>2 DEF Snapshots, Replicas
<1>4. Puts \subseteq AnyPuts BY <1>3 DEF Puts, AnyPuts, SettingsPuts, ReplicaPuts
<1>5. FramesDown \subseteq AnyFrames
  <2>1. Syncs \subseteq [type : {"sync"}, heads : SUBSET Nat, changes : SUBSET Nat] BY <1>2 DEF Syncs
  <2> QED BY <2>1 DEF FramesDown, AnyFrames
<1> QED BY <1>3, <1>4, <1>5, LongerSeq

\* What a page looks like to the transactions and to the edits answered.
SameCore(p, q) ==
    /\ q.running = p.running /\ q.replica = p.replica
    /\ q.requestAt = p.requestAt /\ q.requestFor = p.requestFor

LEMMA SafeMoves ==
    ASSUME NEW d, NEW s, NEW p, NEW q, NEW h, NEW ack, NEW of, Safe(d, s, p, h, ack, of),
           SameCore(p, q), HostsIn(q.queue, q.replica.ws, h)
    PROVE  Safe(d, s, q, h, ack, of)
BY DEF Safe, SameCore, Answered

-----------------------------------------------------------------------------
\* pumpSync changes what the page knows of the server, and the wire.
LEMMA PumpedPage ==
    ASSUME WorkerTypes, NEW p \in WorkerPages, NEW k
    PROVE  /\ Pumped(p, k) \in WorkerPages /\ SameCore(p, Pumped(p, k))
           /\ Pumped(p, k).queue = p.queue /\ Pumped(p, k).socketAt = p.socketAt
<1>1. made \in Nat BY ConstantsAssumption DEF WorkerTypes
<1>2. p.replica.doc \in SUBSET Nat BY <1>1 DEF WorkerPages, Snapshots, Docs
<1>3. Generated(p.sync, p.replica.doc) \in SyncStates
  BY <1>2 DEF WorkerPages, SyncStates, Generated
<1> HIDE DEF Generated
<1> QED BY <1>3 DEF Pumped, SameCore, WorkerPages

LEMMA SentType ==
    ASSUME WorkerTypes, NEW st, NEW doc \in Docs
    PROVE  SyncMsg(st, doc) \in Syncs
<1>1. made \in Nat BY ConstantsAssumption DEF WorkerTypes
<1>2. Missing(st, doc) \subseteq doc BY DEF Missing
<1>3. doc \in SUBSET Nat /\ Missing(st, doc) \in Docs
  <2>1. doc \in SUBSET (1 .. made) BY DEF Docs
  <2>2. 1 .. made \subseteq Nat BY <1>1
  <2> QED BY <1>2, <2>1, <2>2 DEF Docs
<1> QED BY <1>3 DEF SyncMsg, Syncs

LEMMA WireType ==
    ASSUME WorkerTypes, NEW p \in WorkerPages, NEW k \in 0 .. MaxSockets
    PROVE  WireAfter(p, k) \in [Socket -> Seq(FramesUp)]
<1>1. CASE Pumps(p, k)
  <2>1. k \in Socket BY <1>1 DEF Pumps, Socket
  <2>2. p.replica.doc \in Docs BY DEF WorkerPages, Snapshots
  <2>3. SyncMsg(p.sync, p.replica.doc) \in FramesUp BY <2>2, SentType DEF FramesUp
  <2>4. up[k] \in Seq(FramesUp) BY <2>1 DEF WorkerTypes, SocketTypes
  <2>5. Append(up[k], SyncMsg(p.sync, p.replica.doc)) \in Seq(FramesUp) BY <2>3, <2>4
  <2> HIDE DEF SyncMsg
  <2> QED BY <1>1, <2>1, <2>5 DEF WireAfter, WorkerTypes, SocketTypes
<1>2. CASE ~Pumps(p, k) BY <1>2 DEF WireAfter, WorkerTypes, SocketTypes
<1> QED BY <1>1, <1>2

LEMMA ReceivedType ==
    ASSUME NEW st \in SyncStates, NEW doc, NEW m, m.heads \in SUBSET Nat
    PROVE  Received(st, doc, m) \in SyncStates
BY DEF SyncStates, Received

\* What connectNow makes of the page and the sockets.
LEMMA Connects ==
    ASSUME WorkerTypes, NEW t \in Tab, NEW p \in WorkerPages, ConnectNow(t, p), made' = made
    PROVE  /\ Grows /\ SocketTypes'
           /\ \E q \in WorkerPages' : /\ page' = [page EXCEPT ![t] = q] /\ SameCore(p, q)
                                      /\ q.queue = p.queue /\ q.socketAt = p.socketAt
<1>0. /\ dialled \in Nat /\ made \in Nat /\ MaxSockets \in Nat
      /\ made \in 0 .. MaxChanges /\ dialled \in 0 .. MaxSockets
  BY ConstantsAssumption DEF WorkerTypes
<1>1. CASE UNCHANGED sockets
  <2>1. Grows BY <1>0, <1>1 DEF Grows, sockets
  <2>2. SocketTypes'
    <3>1. Seq(FramesUp)' = Seq(FramesUp) BY DEF FramesUp, Syncs, Docs
    <3> QED BY <1>1, <3>1 DEF SocketTypes, WorkerTypes, sockets, Peers, SyncStates
  <2>3. p \in WorkerPages' BY <2>1, TypesGrow
  <2>4. [p EXCEPT !.timer = FALSE, !.connection = "offline"] \in WorkerPages'
    BY <2>3 DEF WorkerPages
  <2>5. PICK q \in WorkerPages' : /\ page' = [page EXCEPT ![t] = q]
                                  /\ q = p \/ q = [p EXCEPT !.timer = FALSE, !.connection = "offline"]
    BY <1>0, <1>1, <2>3, <2>4 DEF ConnectNow, sockets
  <2>6. SameCore(p, q) /\ q.queue = p.queue /\ q.socketAt = p.socketAt
    <3>1. CASE q = p BY <3>1 DEF SameCore
    <3>2. CASE q = [p EXCEPT !.timer = FALSE, !.connection = "offline"]
      BY <3>2 DEF SameCore, WorkerPages
    <3> QED BY <2>5, <3>1, <3>2
  <2>7. \E r \in WorkerPages' : /\ page' = [page EXCEPT ![t] = r] /\ SameCore(p, r)
                                 /\ r.queue = p.queue /\ r.socketAt = p.socketAt
    BY <2>5, <2>6
  <2> QED BY <2>1, <2>2, <2>7
<1>2. CASE /\ dialled < MaxSockets /\ dialled' = dialled + 1
           /\ phase' = [phase EXCEPT ![dialled + 1] = "connecting"]
           /\ page' = [page EXCEPT ![t] = [p EXCEPT !.timer = FALSE, !.connection = "connecting",
                                                    !.current = dialled + 1]]
           /\ UNCHANGED <<up, peer>>
  <2>1. Grows BY <1>0, <1>2 DEF Grows
  <2>2. SocketTypes'
    <3>1. Seq(FramesUp)' = Seq(FramesUp) BY DEF FramesUp, Syncs, Docs
    <3> QED BY <1>2, <3>1 DEF SocketTypes, WorkerTypes, Peers, SyncStates, Phases
  <2>3. p \in WorkerPages' BY <2>1, TypesGrow
  <2>4. PICK q : q = [p EXCEPT !.timer = FALSE, !.connection = "connecting", !.current = dialled + 1]
    OBVIOUS
  <2>5. dialled + 1 \in 0 .. dialled' BY <1>0, <1>2
  <2>6. q \in WorkerPages' BY <2>3, <2>4, <2>5 DEF WorkerPages
  <2>7. SameCore(p, q) /\ q.queue = p.queue /\ q.socketAt = p.socketAt
    BY <2>4 DEF SameCore, WorkerPages
  <2>8. page' = [page EXCEPT ![t] = q] BY <1>2, <2>4
  <2>9. \E r \in WorkerPages' : /\ page' = [page EXCEPT ![t] = r] /\ SameCore(p, r)
                                 /\ r.queue = p.queue /\ r.socketAt = p.socketAt
    BY <2>6, <2>7, <2>8
  <2> QED BY <2>1, <2>2, <2>9
<1> QED BY <1>1, <1>2 DEF ConnectNow

\* A socket that closes takes the last frames of the queue with it.
LEMMA Closes ==
    ASSUME WorkerTypes, NEW t \in Tab, NEW p \in WorkerPages, NEW k, Close(t, p, k),
           UNCHANGED <<made, dialled>>
    PROVE  /\ Grows /\ phase' \in [Socket -> Phases]
           /\ \E q \in WorkerPages' : \E n \in 0 .. Len(p.queue) :
                  /\ page' = [page EXCEPT ![t] = q] /\ SameCore(p, q)
                  /\ q.queue = SubSeq(p.queue, 1, n) /\ q.socketAt = p.socketAt
<1>1. Grows BY ConstantsAssumption DEF WorkerTypes, Grows
<1>2. PICK n \in 0 .. Len(p.queue) :
          /\ page' = [page EXCEPT ![t] = [p EXCEPT !.queue = SubSeq(p.queue, 1, n)]]
          /\ phase' = [phase EXCEPT ![k] = "closing"]
  BY DEF Close
<1>3. phase' \in [Socket -> Phases] BY <1>2 DEF WorkerTypes, SocketTypes, Phases
<1>4. p \in WorkerPages' BY <1>1, TypesGrow
<1>5. SubSeq(p.queue, 1, n) \in Seq(FramesDown)'
  <2>1. p.queue \in Seq(FramesDown)' BY <1>4 DEF WorkerPages
  <2>2. \A S : \A s \in Seq(S) : \A m \in 0 .. Len(s) : SubSeq(s, 1, m) \in Seq(S) OBVIOUS
  <2> QED BY <2>1, <2>2
<1>6. PICK q : q = [p EXCEPT !.queue = SubSeq(p.queue, 1, n)] OBVIOUS
<1>7. /\ q \in WorkerPages' /\ SameCore(p, q) /\ q.socketAt = p.socketAt
      /\ q.queue = SubSeq(p.queue, 1, n)
  BY <1>4, <1>5, <1>6 DEF WorkerPages, SameCore
<1>8. page' = [page EXCEPT ![t] = q] BY <1>2, <1>6
<1>9. \E r \in WorkerPages' : \E m \in 0 .. Len(p.queue) :
                  /\ page' = [page EXCEPT ![t] = r] /\ SameCore(p, r)
                  /\ r.queue = SubSeq(p.queue, 1, m) /\ r.socketAt = p.socketAt
  BY <1>7, <1>8
<1> QED BY <1>1, <1>3, <1>9

LEMMA WholePrefix == ASSUME NEW S, NEW s \in Seq(S) PROVE Len(s) \in 0 .. Len(s) /\ SubSeq(s, 1, Len(s)) = s
OBVIOUS

LEMMA Fails ==
    ASSUME WorkerTypes, NEW t \in Tab, NEW p \in WorkerPages, NEW k, HandlerFails(t, p, k),
           UNCHANGED <<made, dialled>>
    PROVE  /\ Grows /\ phase' \in [Socket -> Phases]
           /\ \E q \in WorkerPages' : \E n \in 0 .. Len(p.queue) :
                  /\ page' = [page EXCEPT ![t] = q] /\ SameCore(p, q)
                  /\ q.queue = SubSeq(p.queue, 1, n) /\ q.socketAt = "idle"
<1>1. PICK p1 : p1 = [p EXCEPT !.socketAt = "idle", !.socketOn = 0] OBVIOUS
<1>2. p1 \in WorkerPages /\ SameCore(p, p1) /\ p1.queue = p.queue /\ p1.socketAt = "idle"
  <2>1. 0 \in 0 .. MaxSockets BY ConstantsAssumption
  <2> QED BY <1>1, <2>1 DEF WorkerPages, SameCore, SocketStages
<1>3. CASE Close(t, p1, k)
  <2>1. PICK q \in WorkerPages', n \in 0 .. Len(p1.queue) :
                  /\ page' = [page EXCEPT ![t] = q] /\ SameCore(p1, q)
                  /\ q.queue = SubSeq(p1.queue, 1, n) /\ q.socketAt = p1.socketAt
    BY <1>2, <1>3, Closes
  <2>2. SameCore(p, q) /\ q.queue = SubSeq(p.queue, 1, n) /\ n \in 0 .. Len(p.queue) /\ q.socketAt = "idle"
    BY <1>2, <2>1 DEF SameCore
  <2>3. \E r \in WorkerPages' : \E m \in 0 .. Len(p.queue) :
                  /\ page' = [page EXCEPT ![t] = r] /\ SameCore(p, r)
                  /\ r.queue = SubSeq(p.queue, 1, m) /\ r.socketAt = "idle"
    BY <2>1, <2>2
  <2>4. Grows /\ phase' \in [Socket -> Phases] BY <1>2, <1>3, Closes
  <2> QED BY <2>3, <2>4
<1>4. CASE page' = [page EXCEPT ![t] = p1] /\ UNCHANGED phase
  <2>1. Grows BY ConstantsAssumption DEF WorkerTypes, Grows
  <2>2. p1 \in WorkerPages' BY <1>2, <2>1, TypesGrow
  <2>3. Len(p.queue) \in 0 .. Len(p.queue) /\ SubSeq(p.queue, 1, Len(p.queue)) = p.queue
    BY WholePrefix DEF WorkerPages
  <2>4. \E r \in WorkerPages' : \E m \in 0 .. Len(p.queue) :
                  /\ page' = [page EXCEPT ![t] = r] /\ SameCore(p, r)
                  /\ r.queue = SubSeq(p.queue, 1, m) /\ r.socketAt = "idle"
    BY <1>2, <1>4, <2>2, <2>3
  <2>5. phase' \in [Socket -> Phases] BY <1>4 DEF WorkerTypes, SocketTypes
  <2> QED BY <2>1, <2>4, <2>5
<1> QED BY <1>1, <1>3, <1>4 DEF HandlerFails

-----------------------------------------------------------------------------
\* A page whose replica at most grew, and whose requests are where they were.
Advances(p, q) ==
    /\ q.running = p.running /\ q.replica.ws = p.replica.ws /\ p.replica.doc \subseteq q.replica.doc
    /\ q.requestAt = p.requestAt /\ q.requestFor = p.requestFor

LEMMA SafeAdvances ==
    ASSUME WorkerTypes, NEW p \in WorkerPages, NEW q \in WorkerPages, Advances(p, q),
           Safe(db.replica, tx, p, srv.ws, acked, info), HostsIn(q.queue, q.replica.ws, srv.ws)
    PROVE  Safe(db.replica, tx, q, srv.ws, acked, info)
<1>1. /\ db.replica \in Replicas /\ tx \in Seq(AnyPuts)
      /\ p.replica \in Replicas /\ q.replica \in Replicas
  BY AnyTypes DEF WorkerTypes, Databases, WorkerPages
<1>2. Leq(p.replica, q.replica) BY DEF Leq, Advances
<1>3. q.running => Chain(db.replica, tx, q.replica) BY <1>1, <1>2, ChainGrows DEF Safe, Advances
<1>4. Answered(db.replica, tx, q, acked, info) BY DEF Safe, Answered, Advances
<1> QED BY <1>3, <1>4 DEF Safe

\* A page that goes on as its transactions know it.
LEMMA Continues ==
    ASSUME WorkerIInv, Grows, SocketTypes', NEW t \in Tab, page[t].running, NEW q \in WorkerPages,
           page' = [page EXCEPT ![t] = q], Advances(page[t], q),
           q.socketAt = "idle" <=> page[t].socketAt = "idle",
           OneTab /\ HostsIn(page[t].queue, page[t].replica.ws, srv.ws)
             => HostsIn(q.queue, q.replica.ws, srv.ws),
           UNCHANGED <<db, tx, srv, info, acked, drawn>>, budget' \in Budget,
           refused' \subseteq 1 .. made'
    PROVE  WorkerIInv'
<1>1. WorkerTypes /\ Awaits(page, tx) /\ page[t] \in WorkerPages BY DEF WorkerIInv, WorkerTypes
<1>2. PageOK(page[t]) /\ page[t].running BY <1>1 DEF Awaits
<1>3. q \in WorkerPages' BY <1>1, TypesGrow
<1>4. page' \in [Tab -> WorkerPages'] /\ page'[t] = q /\ \A u \in Tab \ {t} : page'[u] = page[u]
  BY <1>1, <1>3, ValuesGrow DEF WorkerTypes
<1>5. Turns(page, page', t, "none")
  BY <1>2, <1>4 DEF Turns, Busy, PageOK, Advances
<1>6. Awaits(page', tx') BY <1>1, <1>5, AwaitsStill
<1>7. OneTab /\ Safe(db.replica, tx, page[t], srv.ws, acked, info)
             => Safe(db.replica', tx', q, srv.ws', acked', info')
  BY <1>1, SafeAdvances DEF Safe
<1>8. /\ db' \in Databases' /\ tx' \in Seq(Puts)' /\ srv' \in Snapshots' /\ drawn' \in Nat
      /\ InfoTypes' /\ acked' \subseteq 1 .. made'
  BY <1>1, ValuesGrow DEF WorkerTypes, InfoTypes
<1> QED BY <1>3, <1>6, <1>7, <1>8, Stepped

LEMMA Quietly ==
    ASSUME WorkerIInv, Grows, SocketTypes', NEW t \in Tab, page[t].running, NEW q \in WorkerPages',
           page' = [page EXCEPT ![t] = q], SameCore(page[t], q),
           q.socketAt = "idle" <=> page[t].socketAt = "idle",
           OneTab /\ HostsIn(page[t].queue, page[t].replica.ws, srv.ws)
             => HostsIn(q.queue, q.replica.ws, srv.ws),
           UNCHANGED <<db, tx, srv, info, acked, refused, drawn>>, budget' \in Budget
    PROVE  WorkerIInv'
<1>1. WorkerTypes /\ Awaits(page, tx) BY DEF WorkerIInv
<1>2. PageOK(page[t]) /\ page[t].running BY <1>1 DEF Awaits
<1>3. page' \in [Tab -> WorkerPages'] /\ page'[t] = q /\ \A u \in Tab \ {t} : page'[u] = page[u]
  BY <1>1, ValuesGrow DEF WorkerTypes
<1>4. Turns(page, page', t, "none")
  BY <1>2, <1>3 DEF Turns, Busy, PageOK, SameCore
<1>5. Awaits(page', tx') BY <1>1, <1>4, AwaitsStill
<1>6. OneTab /\ Safe(db.replica, tx, page[t], srv.ws, acked, info)
             => Safe(db.replica', tx', q, srv.ws', acked', info')
  BY SafeMoves DEF Safe
<1>7. /\ db' \in Databases' /\ tx' \in Seq(Puts)' /\ srv' \in Snapshots' /\ drawn' \in Nat
      /\ InfoTypes' /\ acked' \subseteq 1 .. made' /\ refused' \subseteq 1 .. made'
  BY <1>1, ValuesGrow DEF WorkerTypes, InfoTypes
<1> QED BY <1>5, <1>6, <1>7, Stepped

LEMMA SocketsKept ==
    ASSUME WorkerTypes, UNCHANGED <<made, up, peer>>, phase' \in [Socket -> Phases]
    PROVE  SocketTypes'
<1>1. Seq(FramesUp)' = Seq(FramesUp) BY DEF FramesUp, Syncs, Docs
<1> QED BY <1>1 DEF SocketTypes, WorkerTypes, Peers, SyncStates

LEMMA SameGrows == ASSUME WorkerTypes, UNCHANGED <<made, dialled>> PROVE Grows
BY ConstantsAssumption DEF WorkerTypes, Grows

LEMMA HostsStay ==
    ASSUME WorkerTypes, NEW t \in Tab
    PROVE  /\ page[t] \in WorkerPages /\ page[t].queue \in Seq(AnyFrames)
           /\ page[t].replica.ws \in Nat /\ srv.ws \in Nat
           /\ HostsIn(page[t].queue, page[t].replica.ws, srv.ws) =>
                \A n \in 0 .. Len(page[t].queue) :
                    HostsIn(SubSeq(page[t].queue, 1, n), page[t].replica.ws, srv.ws)
<1>1. page[t] \in WorkerPages BY DEF WorkerTypes
<1>2. page[t].queue \in Seq(FramesDown) /\ page[t].replica \in Snapshots BY <1>1 DEF WorkerPages
<1>3. page[t].replica.ws \in Nat /\ srv.ws \in Nat BY <1>2 DEF Snapshots, WorkerTypes
<1>4. page[t].queue \in Seq(AnyFrames) BY <1>2, AnyTypes
<1> QED BY <1>1, <1>3, <1>4, HostsPrefix

LEMMA ConnectSteps ==
    ASSUME WorkerIInv, NEW t \in Tab,
           \/ SetAccessToken(t)
           \/ ReconnectTimer(t)
           \/ RefreshSync(t) /\ ~Live(page[t].current)
    PROVE  WorkerIInv'
<1>1. PICK p \in {page[t], [page[t] EXCEPT !.token = TRUE], [page[t] EXCEPT !.timer = FALSE]} :
         /\ page[t].running /\ ConnectNow(t, p)
         /\ UNCHANGED <<db, tx, srv, history, ghosts, drawn, budget>>
  BY DEF SetAccessToken, ReconnectTimer, RefreshSync, Ready
<1>2. WorkerTypes /\ page[t] \in WorkerPages BY DEF WorkerIInv, WorkerTypes
<1>3. p \in WorkerPages /\ SameCore(page[t], p) /\ p.queue = page[t].queue /\ p.socketAt = page[t].socketAt
  BY <1>1, <1>2 DEF WorkerPages, SameCore
<1>4. /\ Grows /\ SocketTypes'
      /\ \E q \in WorkerPages' : /\ page' = [page EXCEPT ![t] = q] /\ SameCore(p, q)
                                 /\ q.queue = p.queue /\ q.socketAt = p.socketAt
  BY <1>1, <1>2, <1>3, Connects DEF history
<1>5. PICK q \in WorkerPages' : /\ page' = [page EXCEPT ![t] = q] /\ SameCore(p, q)
                                /\ q.queue = p.queue /\ q.socketAt = p.socketAt
  BY <1>4
<1>6. SameCore(page[t], q) /\ q.queue = page[t].queue /\ q.socketAt = page[t].socketAt
  BY <1>3, <1>5 DEF SameCore
<1>7. HostsIn(page[t].queue, page[t].replica.ws, srv.ws) => HostsIn(q.queue, q.replica.ws, srv.ws)
  BY <1>6 DEF SameCore
<1>8. budget' \in Budget BY <1>1, <1>2 DEF WorkerTypes
<1> QED BY <1>1, <1>4, <1>5, <1>6, <1>7, <1>8, Quietly DEF history, ghosts

LEMMA PumpSteps ==
    ASSUME WorkerIInv, NEW t \in Tab,
           HelloKnown(t) \/ (RefreshSync(t) /\ Live(page[t].current))
    PROVE  WorkerIInv'
<1>1. WorkerTypes /\ page[t] \in WorkerPages BY DEF WorkerIInv, WorkerTypes
<1>2. PICK p \in WorkerPages, k \in 0 .. MaxSockets :
         /\ page[t].running /\ page' = [page EXCEPT ![t] = Pumped(p, k)] /\ up' = WireAfter(p, k)
         /\ SameCore(page[t], p) /\ p.socketAt = page[t].socketAt
         /\ p.queue = page[t].queue \/ (page[t].queue # <<>> /\ p.queue = Tail(page[t].queue))
         /\ UNCHANGED <<db, tx, phase, peer, dialled, srv, history, ghosts, drawn, budget>>
  <2>1. CASE RefreshSync(t) /\ Live(page[t].current)
    <3>1. page[t].current \in 0 .. MaxSockets
      <4>1. dialled \in 0 .. MaxSockets /\ MaxSockets \in Nat BY <1>1, ConstantsAssumption DEF WorkerTypes
      <4>2. page[t].current \in 0 .. dialled BY <1>1 DEF WorkerPages
      <4> QED BY <4>1, <4>2
    <3>2. /\ page[t].running /\ page' = [page EXCEPT ![t] = Pumped(page[t], page[t].current)]
          /\ up' = WireAfter(page[t], page[t].current)
          /\ UNCHANGED <<db, tx, phase, peer, dialled, srv, history, ghosts, drawn, budget>>
      BY <2>1 DEF RefreshSync, Ready
    <3>3. SameCore(page[t], page[t]) BY DEF SameCore
    <3> QED BY <1>1, <3>1, <3>2, <3>3
  <2>2. CASE HelloKnown(t)
    <3> DEFINE k == Frame(t).on
               p == Greeted([Popped(t) EXCEPT !.sync = NewSync])
    <3>1. page[t].running /\ page[t].socketAt = "idle" /\ page[t].queue # <<>>
      BY <2>2 DEF HelloKnown, Handles
    <3>2. Head(page[t].queue) \in FramesDown /\ Tail(page[t].queue) \in Seq(FramesDown)
      BY <1>1, <3>1 DEF WorkerPages
    <3>3. k \in 0 .. MaxSockets BY <3>2, ConstantsAssumption DEF Frame, FramesDown, Socket
    <3>4. NewSync \in SyncStates BY DEF NewSync, SyncStates
    <3>5. /\ p \in WorkerPages /\ SameCore(page[t], p) /\ p.socketAt = "idle"
          /\ p.queue = Tail(page[t].queue)
      <4>1. 0 \in 0 .. MaxSockets BY ConstantsAssumption
      <4> QED BY <1>1, <3>2, <3>4, <4>1 DEF WorkerPages, SameCore, Greeted, Popped, SocketStages
    <3>6. /\ page' = [page EXCEPT ![t] = Pumped(p, k)] /\ up' = WireAfter(p, k)
          /\ UNCHANGED <<db, tx, phase, peer, dialled, srv, history, ghosts, drawn, budget>>
      BY <2>2 DEF HelloKnown
    <3> HIDE DEF k, p
    <3> QED BY <3>1, <3>3, <3>5, <3>6
  <2> QED BY <2>1, <2>2
<1>3. Grows BY <1>1, <1>2, SameGrows DEF history
<1>4. SocketTypes'
  <2>1. up' \in [Socket -> Seq(FramesUp)] BY <1>1, <1>2, WireType
  <2>2. Seq(FramesUp)' = Seq(FramesUp) BY <1>2 DEF FramesUp, Syncs, Docs, history
  <2> QED BY <1>1, <1>2, <2>1, <2>2 DEF SocketTypes, WorkerTypes, Peers, SyncStates
<1>5. PICK q : q = Pumped(p, k) OBVIOUS
<1>6. /\ q \in WorkerPages /\ SameCore(p, q) /\ q.queue = p.queue /\ q.socketAt = p.socketAt
  BY <1>1, <1>5, PumpedPage
<1>7. q \in WorkerPages' BY <1>1, <1>3, <1>6, TypesGrow
<1>8. SameCore(page[t], q) /\ q.socketAt = page[t].socketAt BY <1>2, <1>6 DEF SameCore
<1>9. HostsIn(page[t].queue, page[t].replica.ws, srv.ws) => HostsIn(q.queue, q.replica.ws, srv.ws)
  <2>1. page[t].queue \in Seq(AnyFrames) /\ page[t].replica.ws \in Nat /\ srv.ws \in Nat
    BY <1>1, HostsStay
  <2>2. q.replica.ws = page[t].replica.ws BY <1>8 DEF SameCore
  <2> QED BY <1>2, <1>6, <2>1, <2>2, HostsTail
<1>10. page' = [page EXCEPT ![t] = q] BY <1>2, <1>5
<1>11. budget' \in Budget BY <1>1, <1>2 DEF WorkerTypes
<1> QED BY <1>2, <1>3, <1>4, <1>7, <1>8, <1>9, <1>10, <1>11, Quietly DEF history, ghosts

-----------------------------------------------------------------------------
\* What happens elsewhere: sockets, the server, other clients.
LEMMA HostsRaise ==
    ASSUME NEW q \in Seq(AnyFrames), NEW lo \in Nat, NEW hi \in Nat, NEW top \in Nat,
           HostsIn(q, lo, hi), hi <= top
    PROVE  HostsIn(q, lo, top)
<1>1. \A i \in 1 .. Len(q) : HelloAt(q, i) => q[i].msg.ws \in Nat BY HelloWs
<1> QED BY <1>1 DEF HostsIn

InfoKept == InfoTypes' /\ \A c \in 1 .. made : info'[c] = info[c]

LEMMA SafeElsewhere ==
    ASSUME WorkerTypes, NEW t \in Tab, PageOK(page[t]), InfoKept, srv' \in Snapshots', srv.ws <= srv'.ws,
           NEW q, SameCore(page[t], q), HostsIn(q.queue, q.replica.ws, srv'.ws),
           Safe(db.replica, tx, page[t], srv.ws, acked, info)
    PROVE  Safe(db.replica, tx, q, srv'.ws, acked, info')
<1>1. page[t].requestFor \in 0 .. made /\ made \in Nat
  BY ConstantsAssumption DEF WorkerTypes, WorkerPages
<1>2. page[t].requestAt \in {"replica", "settings"} => info'[page[t].requestFor] = info[page[t].requestFor]
  BY <1>1 DEF PageOK, InfoKept
<1>3. \A c \in acked : info'[c] = info[c] BY DEF WorkerTypes, InfoKept
<1>4. Answered(db.replica, tx, q, acked, info')
  BY <1>2, <1>3 DEF Safe, Answered, SameCore
<1>5. db.replica.ws <= srv'.ws
  <2>1. db.replica.ws \in Nat /\ srv.ws \in Nat /\ srv'.ws \in Nat
    BY DEF WorkerTypes, Databases, Snapshots
  <2> QED BY <2>1 DEF Safe
<1> QED BY <1>4, <1>5 DEF Safe, SameCore

LEMMA Elsewhere ==
    ASSUME WorkerIInv, Grows, SocketTypes', UNCHANGED <<page, db, tx, acked, drawn>>, InfoKept,
           srv' \in Snapshots', srv.ws <= srv'.ws, refused' \subseteq 1 .. made', budget' \in Budget
    PROVE  WorkerIInv'
<1>1. WorkerTypes /\ Awaits(page, tx) BY DEF WorkerIInv
<1>2. WorkerTypes'
  BY <1>1, ValuesGrow DEF WorkerTypes, Grows, InfoKept
<1>3. Awaits(page', tx') BY <1>1
<1>4. ASSUME OneTab PROVE Kept'
  <2>1. ASSUME NEW t \in Tab PROVE Safe(db'.replica, tx', page'[t], srv'.ws, acked', info')
    <3>1. Safe(db.replica, tx, page[t], srv.ws, acked, info) BY <1>4 DEF WorkerIInv, Kept
    <3>2. SameCore(page[t], page[t]) BY DEF SameCore
    <3>3. HostsIn(page[t].queue, page[t].replica.ws, srv'.ws)
      <4>1. srv'.ws \in Nat BY DEF Snapshots
      <4> QED BY <1>1, <3>1, <4>1, HostsStay, HostsRaise DEF Safe
    <3>4. PageOK(page[t]) BY <1>1 DEF Awaits
    <3> QED BY <1>1, <3>1, <3>2, <3>3, <3>4, SafeElsewhere
  <2> QED BY <2>1 DEF Kept
<1> QED BY <1>2, <1>3, <1>4 DEF WorkerIInv, OneTab

LEMMA SocketSteps ==
    ASSUME WorkerIInv, NEW k \in Socket,
           SocketOpens(k) \/ (SocketClosed(k) /\ UNCHANGED page) \/ ServerReceives(k) \/ ServerEnds(k)
    PROVE  WorkerIInv'
<1>1. WorkerTypes BY DEF WorkerIInv
<1>2. /\ phase \in [Socket -> Phases] /\ up \in [Socket -> Seq(FramesUp)] /\ peer \in [Socket -> Peers]
      /\ made \in Nat /\ srv \in Snapshots
  BY <1>1, ConstantsAssumption DEF WorkerTypes, SocketTypes
<1>3. UNCHANGED <<page, db, tx, acked, drawn, made, dialled, info, budget>>
  BY DEF SocketOpens, SocketClosed, ServerReceives, ServerEnds, history, ghosts
<1>4. Grows BY <1>1, <1>3, SameGrows
<1>5. InfoKept BY <1>1, <1>3 DEF InfoKept, WorkerTypes, InfoTypes
<1>6. /\ Seq(FramesUp)' = Seq(FramesUp) /\ Peers' = Peers /\ Phases' = Phases /\ Snapshots' = Snapshots
  BY <1>3 DEF FramesUp, Syncs, Docs, Peers, SyncStates, Phases, Snapshots
<1>7. NewSync \in SyncStates BY DEF NewSync, SyncStates
<1>8. /\ phase' \in [Socket -> Phases] /\ up' \in [Socket -> Seq(FramesUp)] /\ peer' \in [Socket -> Peers]
      /\ srv' \in Snapshots /\ srv.ws <= srv'.ws /\ refused' \subseteq 1 .. made
  <2>0. srv.ws \in Nat /\ srv.doc \in Docs BY <1>2 DEF Snapshots
  <2>1. CASE SocketOpens(k)
    <3>1. ClientHello \in FramesUp BY DEF ClientHello, FramesUp, Docs
    <3>2. Append(up[k], ClientHello) \in Seq(FramesUp) BY <1>2, <3>1
    <3> QED BY <1>1, <1>2, <2>0, <2>1, <3>2 DEF SocketOpens, Phases, WorkerTypes, ghosts
  <2>2. CASE SocketClosed(k) /\ UNCHANGED page
    BY <1>1, <1>2, <2>0, <2>2 DEF SocketClosed, Phases, WorkerTypes, ghosts
  <2>3. CASE ServerEnds(k)
    <3>1. Ended \in Peers BY <1>7 DEF Ended, Peers
    <3> QED BY <1>1, <1>2, <2>0, <2>3, <3>1 DEF ServerEnds, WorkerTypes, ghosts
  <2>4. CASE ServerReceives(k)
    <3> DEFINE m == Head(up[k])
    <3>1. up[k] # <<>> /\ m \in FramesUp /\ Tail(up[k]) \in Seq(FramesUp)
      BY <1>2, <2>4 DEF ServerReceives
    <3>2. m.changes \in Docs /\ m.heads \in SUBSET Nat BY <3>1 DEF FramesUp, Syncs
    <3>3. PICK doc \in Applied(srv.doc, m.changes) :
            /\ srv' = [srv EXCEPT !.doc = doc]
            /\ \/ /\ refused' = refused \cup m.changes /\ peer' = [peer EXCEPT ![k] = Ended]
                  /\ up' = [up EXCEPT ![k] = <<>>]
                  /\ phase' = [phase EXCEPT ![k] = IF Live(k) THEN "closing" ELSE @]
               \/ /\ peer' = [peer EXCEPT ![k].sync = Received(@, doc, m)]
                  /\ up' = [up EXCEPT ![k] = Tail(@)] /\ UNCHANGED <<phase, refused>>
      BY <2>4 DEF ServerReceives
    <3>4. doc \in Docs BY <2>0, <3>2, MergedDocs
    <3>5. srv' \in Snapshots /\ srv'.ws = srv.ws BY <1>2, <3>3, <3>4 DEF Snapshots
    <3>6. refused' \subseteq 1 .. made BY <1>1, <3>2, <3>3 DEF WorkerTypes, Docs
    <3> HIDE DEF m
    <3>7. CASE /\ peer' = [peer EXCEPT ![k] = Ended] /\ up' = [up EXCEPT ![k] = <<>>]
               /\ phase' = [phase EXCEPT ![k] = IF Live(k) THEN "closing" ELSE @]
      <4>1. Ended \in Peers BY <1>7 DEF Ended, Peers
      <4> HIDE DEF Ended
      <4> QED BY <1>2, <2>0, <3>5, <3>6, <3>7, <4>1 DEF Phases
    <3>8. CASE /\ peer' = [peer EXCEPT ![k].sync = Received(@, doc, m)]
               /\ up' = [up EXCEPT ![k] = Tail(@)] /\ UNCHANGED <<phase, refused>>
      <4>1. Received(peer[k].sync, doc, m) \in SyncStates
        BY <1>2, <3>2, <3>4, ReceivedType DEF Peers
      <4>2. peer' \in [Socket -> Peers] BY <1>2, <3>8, <4>1 DEF Peers
      <4>3. up' \in [Socket -> Seq(FramesUp)] BY <1>2, <3>1, <3>8
      <4> QED BY <1>2, <2>0, <3>5, <3>6, <3>8, <4>2, <4>3
    <3> QED BY <3>3, <3>7, <3>8
  <2> QED BY <2>1, <2>2, <2>3, <2>4
<1>9. SocketTypes' BY <1>6, <1>8 DEF SocketTypes
<1>10. budget' \in Budget BY <1>1, <1>3 DEF WorkerTypes
<1> QED BY <1>3, <1>4, <1>5, <1>6, <1>8, <1>9, <1>10, Elsewhere

\* What may happen in a behaviour is spent one at a time.
LEMMA Spends ==
    ASSUME NEW b \in Budget
    PROVE  /\ b.puts > 0 => [b EXCEPT !.puts = @ - 1] \in Budget
           /\ b.foreign > 0 => [b EXCEPT !.foreign = @ - 1] \in Budget
           /\ b.unloads > 0 => [b EXCEPT !.unloads = @ - 1] \in Budget
           /\ b.failures > 0 => [b EXCEPT !.failures = @ - 1] \in Budget
           /\ b.drops > 0 => [b EXCEPT !.drops = @ - 1] \in Budget
           /\ b.rehosts > 0 => [b EXCEPT !.rehosts = @ - 1] \in Budget
           /\ b.wipes > 0 => [b EXCEPT !.wipes = @ - 1] \in Budget
<1>1. \A n \in Nat : n > 0 => n - 1 \in Nat OBVIOUS
<1>2. /\ b.puts \in Nat /\ b.foreign \in Nat /\ b.unloads \in Nat /\ b.failures \in Nat
      /\ b.drops \in Nat /\ b.rehosts \in Nat /\ b.wipes \in Nat
  BY DEF Budget
<1>3. b.puts > 0 => [b EXCEPT !.puts = @ - 1] \in Budget BY <1>1, <1>2 DEF Budget
<1>4. b.foreign > 0 => [b EXCEPT !.foreign = @ - 1] \in Budget BY <1>1, <1>2 DEF Budget
<1>5. b.unloads > 0 => [b EXCEPT !.unloads = @ - 1] \in Budget BY <1>1, <1>2 DEF Budget
<1>6. b.failures > 0 => [b EXCEPT !.failures = @ - 1] \in Budget BY <1>1, <1>2 DEF Budget
<1>7. b.drops > 0 => [b EXCEPT !.drops = @ - 1] \in Budget BY <1>1, <1>2 DEF Budget
<1>8. b.rehosts > 0 => [b EXCEPT !.rehosts = @ - 1] \in Budget BY <1>1, <1>2 DEF Budget
<1>9. b.wipes > 0 => [b EXCEPT !.wipes = @ - 1] \in Budget BY <1>1, <1>2 DEF Budget
<1> QED BY <1>3, <1>4, <1>5, <1>6, <1>7, <1>8, <1>9

LEMMA InfoAdds ==
    ASSUME WorkerTypes, made < MaxChanges, NEW v, v.ws \in Nat, info' = [info EXCEPT ![made + 1] = v]
    PROVE  InfoKept
<1>1. made \in Nat /\ MaxChanges \in Nat BY ConstantsAssumption DEF WorkerTypes
<1>2. \A c \in 1 .. made : c # made + 1 /\ c \in Change BY <1>1 DEF Change
<1> QED BY <1>2 DEF InfoKept, InfoTypes, WorkerTypes

LEMMA ServerSteps == ASSUME WorkerIInv, ForeignChange \/ Rehost PROVE WorkerIInv'
<1>1. WorkerTypes BY DEF WorkerIInv
<1>2. /\ phase \in [Socket -> Phases] /\ up \in [Socket -> Seq(FramesUp)] /\ peer \in [Socket -> Peers]
      /\ made \in Nat /\ made \in 0 .. MaxChanges /\ MaxChanges \in Nat /\ dialled \in 0 .. MaxSockets
      /\ MaxSockets \in Nat /\ srv.ws \in Nat /\ srv.doc \in Docs /\ srv \in Snapshots
      /\ budget \in Budget /\ refused \subseteq 1 .. made
  BY <1>1, ConstantsAssumption DEF WorkerTypes, SocketTypes, Snapshots
<1>3. CASE ForeignChange
  <2>1. /\ made' = made + 1 /\ made < MaxChanges /\ budget.foreign > 0
        /\ info' = [info EXCEPT ![made + 1] = Written(srv.doc, srv.ws, Foreign)]
        /\ srv' = [srv EXCEPT !.doc = @ \cup {made + 1}]
        /\ budget' = [budget EXCEPT !.foreign = @ - 1]
        /\ UNCHANGED <<page, db, tx, phase, up, peer, dialled, acked, refused, drawn>>
    BY <1>3 DEF ForeignChange, NextChange, sockets, ghosts
  <2>2. Grows BY <1>2, <2>1 DEF Grows
  <2>3. InfoKept
    <3>1. InfoTypes /\ Written(srv.doc, srv.ws, Foreign).ws \in Nat BY <1>1, <1>2 DEF WorkerTypes, Written
    <3> QED BY <1>1, <2>1, <3>1, InfoAdds DEF NextChange
  <2>4. srv' \in Snapshots' /\ srv'.ws = srv.ws
    <3>1. srv.doc \cup {made + 1} \in SUBSET (1 .. made') BY <1>2, <2>1 DEF Docs
    <3> QED BY <1>2, <2>1, <3>1 DEF Snapshots, Docs
  <2>5. budget' \in Budget BY <1>2, <2>1, Spends
  <2>6. up' \in [Socket -> Seq(FramesUp)'] BY <1>1, <2>1, <2>2, ValuesGrow
  <2>7. SocketTypes'
    <3>1. phase' \in [Socket -> Phases] /\ peer' \in [Socket -> Peers] BY <1>2, <2>1
    <3>2. Phases' = Phases /\ Peers' = Peers BY DEF Phases, Peers, SyncStates
    <3> QED BY <2>6, <3>1, <3>2 DEF SocketTypes
  <2>8. refused' \subseteq 1 .. made' BY <1>1, <2>1, <2>2, ValuesGrow
  <2> QED BY <1>2, <2>1, <2>2, <2>3, <2>4, <2>5, <2>7, <2>8, Elsewhere
<1>4. CASE Rehost
  <2>1. /\ srv' = [ws |-> srv.ws + 1, doc |-> Begins(srv.ws + 1, Foreign)] /\ budget.rehosts > 0
        /\ phase' = [k \in Socket |-> IF Live(k) THEN "closing" ELSE phase[k]]
        /\ peer' = [k \in Socket |-> IF peer[k].at = "serving" THEN Ended ELSE peer[k]]
        /\ up' = [k \in Socket |-> <<>>] /\ budget' = [budget EXCEPT !.rehosts = @ - 1]
        /\ UNCHANGED <<page, db, tx, dialled, made, info, acked, refused, drawn>>
    BY <1>4 DEF Rehost, history, ghosts
  <2>2. Grows BY <1>1, <2>1, SameGrows
  <2>3. InfoKept BY <1>1, <2>1 DEF InfoKept, WorkerTypes, InfoTypes
  <2>4. srv' \in Snapshots' /\ srv.ws <= srv'.ws
    <3>1. srv' \in Snapshots /\ srv'.ws = srv.ws + 1 BY <1>1, <1>2, <2>1, BegunDocs DEF Snapshots
    <3> QED BY <1>2, <2>1, <3>1 DEF Snapshots, Docs
  <2>5. budget' \in Budget BY <1>2, <2>1, Spends
  <2>6. Ended \in Peers BY DEF Ended, Peers, NewSync, SyncStates
  <2>7. phase' \in [Socket -> Phases] /\ peer' \in [Socket -> Peers] /\ up' \in [Socket -> Seq(FramesUp)']
    BY <1>2, <2>1, <2>6 DEF Phases
  <2>8. Phases' = Phases /\ Peers' = Peers BY DEF Phases, Peers, SyncStates
  <2>9. SocketTypes' BY <2>7, <2>8 DEF SocketTypes
  <2>10. refused' \subseteq 1 .. made' BY <1>2, <2>1
  <2> QED BY <2>1, <2>2, <2>3, <2>4, <2>5, <2>9, <2>10, Elsewhere
<1> QED BY <1>3, <1>4

LEMMA CloseSteps ==
    ASSUME WorkerIInv, NEW t \in Tab, NEW k \in Socket,
           SocketBreaks(t, k) \/ (SocketClosed(k) /\ Owns(t, k) /\ Disconnected(t, k))
    PROVE  WorkerIInv'
<1>1. WorkerTypes /\ page[t] \in WorkerPages BY DEF WorkerIInv, WorkerTypes
<1>2. CASE SocketBreaks(t, k)
  <2>1. /\ page[t].running /\ budget.drops > 0 /\ Close(t, page[t], k)
        /\ budget' = [budget EXCEPT !.drops = @ - 1]
        /\ UNCHANGED <<db, tx, up, peer, dialled, srv, made, info, acked, refused, drawn>>
    BY <1>2 DEF SocketBreaks, Owns, history, ghosts
  <2>2. /\ Grows /\ phase' \in [Socket -> Phases]
        /\ \E q \in WorkerPages' : \E n \in 0 .. Len(page[t].queue) :
                  /\ page' = [page EXCEPT ![t] = q] /\ SameCore(page[t], q)
                  /\ q.queue = SubSeq(page[t].queue, 1, n) /\ q.socketAt = page[t].socketAt
    BY <1>1, <2>1, Closes
  <2>3. PICK q \in WorkerPages', n \in 0 .. Len(page[t].queue) :
                  /\ page' = [page EXCEPT ![t] = q] /\ SameCore(page[t], q)
                  /\ q.queue = SubSeq(page[t].queue, 1, n) /\ q.socketAt = page[t].socketAt
    BY <2>2
  <2>4. HostsIn(page[t].queue, page[t].replica.ws, srv.ws) => HostsIn(q.queue, q.replica.ws, srv.ws)
    BY <1>1, <2>3, HostsStay DEF SameCore
  <2>5. SocketTypes' BY <1>1, <2>1, <2>2, SocketsKept
  <2>6. budget' \in Budget
    <3>1. budget \in Budget BY <1>1 DEF WorkerTypes
    <3> QED BY <2>1, <3>1, Spends
  <2> QED BY <2>1, <2>2, <2>3, <2>4, <2>5, <2>6, Quietly
<1>3. CASE SocketClosed(k) /\ Owns(t, k) /\ Disconnected(t, k)
  <2>1. /\ page[t].running /\ phase' = [phase EXCEPT ![k] = "closed"] /\ Disconnected(t, k)
        /\ UNCHANGED <<db, tx, up, peer, dialled, srv, made, info, acked, refused, drawn, budget>>
    BY <1>3 DEF SocketClosed, Owns, history, ghosts
  <2>2. PICK q : q = [page[t] EXCEPT !.current = 0, !.connection = "offline",
                                     !.timer = @ \/ page[t].settings.named]
    OBVIOUS
  <2>3. Grows BY <1>1, <2>1, SameGrows
  <2>4. page[t] \in WorkerPages' BY <1>1, <2>3, TypesGrow
  <2>5. 0 \in 0 .. dialled' /\ (page[t].timer \/ page[t].settings.named) \in BOOLEAN
    BY <2>3, ConstantsAssumption DEF Grows
  <2>6. /\ q \in WorkerPages' /\ SameCore(page[t], q) /\ q.socketAt = page[t].socketAt
        /\ q.queue = page[t].queue
    BY <2>2, <2>4, <2>5 DEF WorkerPages, SameCore
  <2>7. page' = [page EXCEPT ![t] = q] BY <1>1, <2>1, <2>2 DEF Disconnected, WorkerTypes
  <2>8. phase' \in [Socket -> Phases] BY <1>1, <2>1 DEF WorkerTypes, SocketTypes, Phases
  <2>9. SocketTypes' BY <1>1, <2>1, <2>8, SocketsKept
  <2>10. HostsIn(page[t].queue, page[t].replica.ws, srv.ws) => HostsIn(q.queue, q.replica.ws, srv.ws)
    BY <2>6 DEF SameCore
  <2>11. budget' \in Budget BY <1>1, <2>1 DEF WorkerTypes
  <2> QED BY <2>1, <2>3, <2>6, <2>7, <2>9, <2>10, <2>11, Quietly
<1> QED BY <1>2, <1>3

-----------------------------------------------------------------------------
\* Frames of the server that reach a page.
LEMMA HostsJoin ==
    ASSUME NEW q \in Seq(AnyFrames), NEW z \in Seq(AnyFrames), NEW lo \in Nat, NEW hi \in Nat,
           HostsIn(q, lo, hi), \A i \in 1 .. Len(z) : HelloAt(z, i) => z[i].msg.ws = hi
    PROVE  HostsIn(q \o z, lo, hi)
<1> DEFINE a == q \o z
<1>1. /\ Len(q) \in Nat /\ Len(z) \in Nat /\ Len(a) = Len(q) + Len(z)
      /\ \A i \in 1 .. Len(q) : a[i] = q[i]
      /\ \A i \in (Len(q) + 1) .. Len(a) : a[i] = z[i - Len(q)] /\ i - Len(q) \in 1 .. Len(z)
      /\ \A i \in 1 .. Len(a) : i \in 1 .. Len(q) \/ i \in (Len(q) + 1) .. Len(a)
  OBVIOUS
<1> HIDE DEF a
<1>2. \A i \in 1 .. Len(q) : HelloAt(q, i) => q[i].msg.ws \in Nat BY HelloWs
<1>3. \A i \in 1 .. Len(q) : HelloAt(a, i) => HelloAt(q, i) /\ a[i] = q[i] BY <1>1 DEF HelloAt
<1>4. \A i \in (Len(q) + 1) .. Len(a) : HelloAt(a, i) => a[i].msg.ws = hi BY <1>1 DEF HelloAt
<1>5. \A i \in 1 .. Len(a) : HelloAt(a, i) => lo <= a[i].msg.ws /\ a[i].msg.ws <= hi
  BY <1>1, <1>3, <1>4 DEF HostsIn
<1>6. ASSUME NEW i \in 1 .. Len(a), NEW j \in 1 .. Len(a), i < j, HelloAt(a, i), HelloAt(a, j)
      PROVE  a[i].msg.ws <= a[j].msg.ws
  <2>1. CASE j \in 1 .. Len(q)
    <3>1. i \in 1 .. Len(q) BY <1>1, <1>6, <2>1
    <3> QED BY <1>3, <1>6, <2>1, <3>1 DEF HostsIn
  <2>2. CASE j \in (Len(q) + 1) .. Len(a)
    <3>1. a[j].msg.ws = hi BY <1>4, <1>6, <2>2
    <3> QED BY <1>5, <1>6, <3>1
  <2> QED BY <1>1, <2>1, <2>2
<1> QED BY <1>5, <1>6 DEF HostsIn, a

LEMMA Delivered ==
    ASSUME WorkerIInv, NEW k \in Socket, NEW msgs, Deliver(k, msgs), SocketTypes',
           NEW z \in Seq(FramesDown), z = [i \in 1 .. Len(msgs) |-> [on |-> k, msg |-> msgs[i]]],
           \A i \in 1 .. Len(z) : HelloAt(z, i) => z[i].msg.ws = srv.ws,
           UNCHANGED <<db, tx, dialled, srv, made, info, acked, refused, drawn, budget>>
    PROVE  WorkerIInv'
<1>1. WorkerTypes /\ Awaits(page, tx) BY DEF WorkerIInv
<1>2. Grows BY <1>1, SameGrows
<1>3. \A t \in Tab : page[t] \in WorkerPages /\ page[t].queue \in Seq(FramesDown)
  BY <1>1 DEF WorkerTypes, WorkerPages
<1>4. ASSUME NEW t \in Tab
      PROVE  /\ page'[t] \in WorkerPages /\ page'[t].socketAt = page[t].socketAt
             /\ SameCore(page[t], page'[t]) /\ PageOK(page'[t])
             /\ page'[t].queue = page[t].queue \/ page'[t].queue = page[t].queue \o z
  <2>1. PageOK(page[t]) BY <1>1 DEF Awaits
  <2>2. CASE Owns(t, k) /\ phase[k] = "open"
    <3>1. page'[t] = [page[t] EXCEPT !.queue = @ \o z] BY <2>2 DEF Deliver
    <3>2. page[t].queue \o z \in Seq(FramesDown) BY <1>3, Joined
    <3>3. page[t].running BY <2>2 DEF Owns
    <3> QED BY <1>3, <2>1, <3>1, <3>2, <3>3 DEF WorkerPages, SameCore, PageOK
  <2>3. CASE ~(Owns(t, k) /\ phase[k] = "open")
    <3>1. page'[t] = page[t] BY <2>3 DEF Deliver
    <3> QED BY <1>3, <2>1, <3>1 DEF SameCore
  <2> QED BY <2>2, <2>3
<1>5. WorkerTypes'
  <2>1. /\ db' \in Databases' /\ tx' \in Seq(Puts)' /\ srv' \in Snapshots'
        /\ acked' \subseteq 1 .. made' /\ refused' \subseteq 1 .. made'
    BY <1>1, <1>2, ValuesGrow
  <2>2. page' \in [Tab -> WorkerPages']
    <3>1. \A t \in Tab : page'[t] \in WorkerPages' BY <1>1, <1>2, <1>4, TypesGrow
    <3>2. page' = [t \in Tab |-> page'[t]] BY DEF Deliver
    <3> QED BY <3>1, <3>2
  <2>3. /\ drawn' \in Nat /\ InfoTypes' /\ budget' \in Budget
        /\ Len(Beginnings) <= made'
    BY <1>1 DEF WorkerTypes, InfoTypes
  <2> QED BY <1>2, <2>1, <2>2, <2>3 DEF WorkerTypes, Grows
<1>6. Awaits(page', tx')
  <2>1. \A t \in Tab, b \in WorkerQueues : Busy(page'[t], b) <=> Busy(page[t], b)
    BY <1>4 DEF Busy, SameCore
  <2> QED BY <1>1, <1>4, <2>1 DEF Awaits
<1>7. ASSUME OneTab PROVE Kept'
  <2>1. ASSUME NEW t \in Tab PROVE Safe(db.replica, tx, page'[t], srv.ws, acked, info)
    <3>1. Safe(db.replica, tx, page[t], srv.ws, acked, info) BY <1>7 DEF WorkerIInv, Kept
    <3>2. HostsIn(page'[t].queue, page'[t].replica.ws, srv.ws)
      <4>1. /\ page[t].queue \in Seq(AnyFrames) /\ z \in Seq(AnyFrames)
            /\ page[t].replica.ws \in Nat /\ srv.ws \in Nat
        BY <1>1, AnyTypes, HostsStay
      <4>2. HostsIn(page[t].queue, page[t].replica.ws, srv.ws) BY <3>1 DEF Safe
      <4>3. HostsIn(page[t].queue \o z, page[t].replica.ws, srv.ws) BY <4>1, <4>2, HostsJoin
      <4> QED BY <1>4, <4>2, <4>3 DEF SameCore
    <3> QED BY <1>4, <3>1, <3>2, SafeMoves
  <2> QED BY <2>1 DEF Kept
<1> QED BY <1>5, <1>6, <1>7 DEF WorkerIInv, OneTab

LEMMA DeliverSteps ==
    ASSUME WorkerIInv, NEW k \in Socket, ServerGreets(k) \/ ServerSends(k)
    PROVE  WorkerIInv'
<1>1. WorkerTypes BY DEF WorkerIInv
<1>2. /\ phase \in [Socket -> Phases] /\ up \in [Socket -> Seq(FramesUp)] /\ peer \in [Socket -> Peers]
      /\ srv.ws \in Nat /\ srv.doc \in Docs /\ peer[k].sync \in SyncStates
      /\ NewSync \in SyncStates /\ made \in Nat
  BY <1>1, ConstantsAssumption DEF WorkerTypes, SocketTypes, Snapshots, Peers, NewSync, SyncStates
<1>3. srv.doc \in SUBSET Nat BY <1>2 DEF Docs
<1>4. Seq(FramesUp)' = Seq(FramesUp) /\ Peers' = Peers /\ Phases' = Phases
  BY DEF ServerGreets, ServerSends, history, FramesUp, Syncs, Docs, Peers, SyncStates, Phases
<1>5. \A st \in SyncStates : SyncMsg(st, srv.doc) \in Syncs /\ Generated(st, srv.doc) \in SyncStates
  <2>1. ASSUME NEW st \in SyncStates PROVE Generated(st, srv.doc) \in SyncStates
    BY <1>3 DEF Generated, SyncStates
  <2> QED BY <1>1, <1>2, <2>1, SentType
<1>6. \A m \in Syncs : m.type = "sync" BY DEF Syncs
<1> HIDE DEF SyncMsg, Generated
<1>7. CASE ServerGreets(k)
  <2> DEFINE hello == [type |-> "hello", ws |-> srv.ws]
             msgs == <<hello, SyncMsg(NewSync, srv.doc)>>
  <2>1. /\ up' = [up EXCEPT ![k] = Tail(@)] /\ up[k] # <<>>
        /\ peer' = [peer EXCEPT ![k] = [at |-> "serving", sync |-> Generated(NewSync, srv.doc)]]
        /\ Deliver(k, msgs)
        /\ UNCHANGED <<db, tx, phase, dialled, srv, made, info, acked, refused, drawn, budget>>
    BY <1>7 DEF ServerGreets, history, ghosts
  <2>2. /\ [on |-> k, msg |-> hello] \in FramesDown
        /\ [on |-> k, msg |-> SyncMsg(NewSync, srv.doc)] \in FramesDown
    BY <1>2, <1>5 DEF FramesDown
  <2>3. PICK z : z = <<[on |-> k, msg |-> hello], [on |-> k, msg |-> SyncMsg(NewSync, srv.doc)]>>
    OBVIOUS
  <2>4. z \in Seq(FramesDown) /\ Len(z) = 2 /\ z[1].msg = hello /\ z[2].msg = SyncMsg(NewSync, srv.doc)
    BY <2>2, <2>3
  <2>5. z = [i \in 1 .. Len(msgs) |-> [on |-> k, msg |-> msgs[i]]]
    <3>1. Len(msgs) = 2 /\ msgs[1] = hello /\ msgs[2] = SyncMsg(NewSync, srv.doc) OBVIOUS
    <3>2. z = [i \in 1 .. 2 |-> z[i]] BY <2>3
    <3>3. \A i \in 1 .. 2 : z[i] = [on |-> k, msg |-> msgs[i]]
      <4>1. \A i \in 1 .. 2 : i = 1 \/ i = 2 OBVIOUS
      <4> QED BY <2>3, <3>1, <4>1
    <3> HIDE DEF msgs
    <3> QED BY <3>1, <3>2, <3>3
  <2>6. \A i \in 1 .. Len(z) : HelloAt(z, i) => z[i].msg.ws = srv.ws
    <3>1. \A i \in 1 .. 2 : i = 1 \/ i = 2 OBVIOUS
    <3>2. SyncMsg(NewSync, srv.doc).type = "sync" /\ hello.ws = srv.ws BY <1>2, <1>5, <1>6
    <3> HIDE DEF hello
    <3> QED BY <2>4, <3>1, <3>2 DEF HelloAt
  <2>7. SocketTypes'
    <3>1. [at |-> "serving", sync |-> Generated(NewSync, srv.doc)] \in Peers
      BY <1>2, <1>5 DEF Peers
    <3>2. Tail(up[k]) \in Seq(FramesUp) BY <1>2, <2>1
    <3> QED BY <1>2, <1>4, <2>1, <3>1, <3>2 DEF SocketTypes
  <2> HIDE DEF msgs
  <2> QED BY <2>1, <2>4, <2>5, <2>6, <2>7, Delivered
<1>8. CASE ServerSends(k)
  <2> DEFINE m == SyncMsg(peer[k].sync, srv.doc)
             msgs == <<m>>
  <2>1. /\ peer' = [peer EXCEPT ![k].sync = Generated(@, srv.doc)] /\ Deliver(k, msgs)
        /\ UNCHANGED <<db, tx, phase, up, dialled, srv, made, info, acked, refused, drawn, budget>>
    BY <1>8 DEF ServerSends, history, ghosts
  <2>2. m \in Syncs /\ Generated(peer[k].sync, srv.doc) \in SyncStates BY <1>2, <1>5
  <2>3. [on |-> k, msg |-> m] \in FramesDown /\ m.type = "sync" BY <1>6, <2>2 DEF FramesDown
  <2> HIDE DEF m
  <2>4. PICK z : z = <<[on |-> k, msg |-> m]>> OBVIOUS
  <2>5. z \in Seq(FramesDown) /\ Len(z) = 1 /\ z[1].msg = m BY <2>3, <2>4
  <2>6. z = [i \in 1 .. Len(msgs) |-> [on |-> k, msg |-> msgs[i]]] BY <2>4
  <2>7. \A i \in 1 .. Len(z) : HelloAt(z, i) => z[i].msg.ws = srv.ws BY <2>3, <2>5 DEF HelloAt
  <2>8. SocketTypes' BY <1>2, <1>4, <2>1, <2>2 DEF SocketTypes, Peers
  <2> HIDE DEF msgs
  <2> QED BY <2>1, <2>5, <2>6, <2>7, <2>8, Delivered
<1> QED BY <1>7, <1>8

-----------------------------------------------------------------------------
\* A queue begins its transaction.
LEMMA KeepsOn ==
    ASSUME NEW X \in Replicas, NEW Y \in Replicas, Leq(X, Y), NEW c, NEW ws \in Nat, Keeps(X, c, ws)
    PROVE  Keeps(Y, c, ws)
BY DEF Replicas, Leq, Keeps

LEMMA Undertakes ==
    ASSUME WorkerIInv, Grows, SocketTypes', NEW t \in Tab, page[t].running, NEW q \in WorkerPages',
           page' = [page EXCEPT ![t] = q], NEW b \in WorkerQueues, NEW w \in Puts', tx' = Append(tx, w),
           Entry(w, t, b), ~Busy(page[t], b), Busy(q, b), q.running,
           \A c \in WorkerQueues \ {b} : Busy(q, c) <=> Busy(page[t], c), PageOK(q),
           InfoKept, UNCHANGED <<db, srv, acked, refused, drawn>>, budget' \in Budget,
           w.store = "replica" => w.value = q.replica,
           HostsIn(page[t].queue, page[t].replica.ws, srv.ws) =>
             HostsIn(q.queue, q.replica.ws, srv.ws) /\ Leq(page[t].replica, q.replica),
           b = "socket" => q.requestAt = page[t].requestAt /\ q.requestFor = page[t].requestFor,
           b = "request" => /\ q.requestAt # "settings"
                            /\ q.requestAt = "replica" =>
                                 /\ w.store = "replica"
                                 /\ Keeps(w.value, q.requestFor, info'[q.requestFor].ws)
    PROVE  WorkerIInv'
<1>1. WorkerTypes /\ Awaits(page, tx) /\ page[t] \in WorkerPages BY DEF WorkerIInv, WorkerTypes
<1>2. tx \in Seq(Puts') /\ page \in [Tab -> WorkerPages'] BY <1>1, ValuesGrow
<1>3. page'[t] = q /\ \A u \in Tab \ {t} : page'[u] = page[u] BY <1>2
<1>4. Turns(page, page', t, b) BY <1>3 DEF Turns
<1>5. Awaits(page', tx') BY <1>1, <1>2, <1>3, <1>4, AwaitsBegins
<1>6. ASSUME OneTab, Safe(db.replica, tx, page[t], srv.ws, acked, info)
      PROVE  Safe(db.replica', tx', q, srv.ws', acked', info')
  <2>1. Chain(db.replica, tx', q.replica)
    <3>1. /\ db.replica \in Replicas /\ page[t].replica \in Replicas /\ tx \in Seq(AnyPuts)
      BY <1>1, AnyTypes DEF WorkerTypes, Databases, WorkerPages
    <3>2. q.replica \in Replicas /\ w \in AnyPuts
      <4>1. made' \in Nat BY ConstantsAssumption DEF Grows
      <4>2. Snapshots' \subseteq Replicas BY <4>1 DEF Snapshots, Replicas, Docs
      <4>3. q.replica \in Snapshots' BY DEF WorkerPages
      <4> HIDE DEF Snapshots
      <4>4. w \in AnyPuts
        <5>1. CASE w \in SettingsPuts' BY <5>1 DEF SettingsPuts, AnyPuts
        <5>2. CASE w \in ReplicaPuts' BY <4>2, <5>2 DEF ReplicaPuts, AnyPuts
        <5> QED BY <5>1, <5>2 DEF Puts
      <4> QED BY <4>2, <4>3, <4>4
    <3>3. Chain(db.replica, tx, page[t].replica) BY <1>6 DEF Safe
    <3>4. Chain(db.replica, tx, q.replica)
      <4>1. Leq(page[t].replica, q.replica) BY <1>6 DEF Safe
      <4> QED BY <3>1, <3>2, <3>3, <4>1, ChainGrows
    <3> QED BY <3>1, <3>2, <3>4, ChainAppends
  <2>2. Answered(db.replica, tx', q, acked, info')
    <3>1. /\ \A c \in acked : info'[c] = info[c]
          /\ page[t].requestAt \in {"replica", "settings"} =>
               info'[page[t].requestFor] = info[page[t].requestFor]
      <4>1. PageOK(page[t]) /\ page[t].requestFor \in 0 .. made /\ made \in Nat
        BY <1>1, ConstantsAssumption DEF Awaits, WorkerPages, WorkerTypes
      <4> QED BY <1>1, <4>1 DEF InfoKept, WorkerTypes, PageOK
    <3>2. Answered(db.replica, tx, page[t], acked, info) BY <1>6 DEF Safe
    <3>3. /\ Len(tx) \in Nat /\ Len(tx') = Len(tx) + 1 /\ tx'[Len(tx) + 1] = w
          /\ \A i \in 1 .. Len(tx) : tx'[i] = tx[i]
          /\ \A i \in 1 .. (Len(tx) + 1) : i \in 1 .. Len(tx) \/ i = Len(tx) + 1
      BY <1>2, Appended
    <3>4. CASE b = "socket"
      BY <3>1, <3>2, <3>3, <3>4 DEF Answered, Entry
    <3>5. CASE b = "request"
      <4>1. \A i \in 1 .. Len(tx) : tx[i].by # "request"
        <5>1. \A i \in 1 .. Len(tx) : tx[i].tab \in Tab
          <6>1. \A x \in Puts : x.tab \in Tab BY DEF Puts, SettingsPuts, ReplicaPuts
          <6> QED BY <1>1, <6>1 DEF WorkerTypes
        <5>2. \A i \in 1 .. Len(tx) : ~Entry(tx[i], t, b) BY <1>1 DEF Awaits
        <5> QED BY <1>6, <3>5, <5>1, <5>2 DEF OneTab, Entry
      <4>2. q.requestAt = "replica" =>
              \A i \in 1 .. Len(tx') : tx'[i].by = "request" =>
                 tx'[i].store = "replica" /\ Keeps(tx'[i].value, q.requestFor, info'[q.requestFor].ws)
        BY <3>3, <3>5, <4>1
      <4> QED BY <3>1, <3>2, <3>5, <4>2 DEF Answered
    <3> QED BY <3>4, <3>5 DEF WorkerQueues
  <2> QED BY <1>6, <2>1, <2>2 DEF Safe
<1>7. /\ db' \in Databases' /\ srv' \in Snapshots' /\ drawn' \in Nat
      /\ InfoTypes' /\ acked' \subseteq 1 .. made' /\ refused' \subseteq 1 .. made'
  BY <1>1, ValuesGrow DEF WorkerTypes, InfoKept
<1>8. tx' \in Seq(Puts)' BY <1>2, Appended
<1> QED BY <1>5, <1>6, <1>7, <1>8, Stepped

-----------------------------------------------------------------------------
\* A transaction ends.
LEMMA AnsweredOn ==
    ASSUME NEW d \in Replicas, NEW e \in Replicas, Leq(d, e), NEW s \in Seq(AnyPuts), NEW n \in 1 .. Len(s),
           NEW p, NEW q, NEW ack, NEW bck, NEW of, NEW C, \A c \in C : of[c].ws \in Nat, bck \subseteq C,
           p.requestAt \in {"replica", "settings"} => p.requestFor \in C,
           Answered(d, s, p, ack, of),
           \A c \in bck : c \in ack \/ (c = p.requestFor /\ p.requestAt = "settings"),
           q.requestAt \in {"replica", "settings"} => q.requestFor = p.requestFor,
           q.requestAt = "replica" => p.requestAt = "replica",
           q.requestAt = "settings" =>
             \/ p.requestAt = "settings"
             \/ p.requestAt = "replica" /\ s[n].by = "request" /\ e = s[n].value
    PROVE  Answered(e, Without(s, n), q, bck, of)
<1>1. ASSUME NEW c \in bck PROVE Keeps(e, c, of[c].ws)
  <2>1. Keeps(d, c, of[c].ws) BY DEF Answered
  <2>2. of[c].ws \in Nat OBVIOUS
  <2> QED BY <2>1, <2>2, KeepsOn
<1>2. ASSUME q.requestAt = "settings" PROVE Keeps(e, q.requestFor, of[q.requestFor].ws)
  <2>1. CASE p.requestAt = "settings"
    <3>1. Keeps(d, p.requestFor, of[p.requestFor].ws) BY <2>1 DEF Answered
    <3>2. of[p.requestFor].ws \in Nat BY <2>1
    <3> QED BY <1>2, <3>1, <3>2, KeepsOn
  <2>2. CASE p.requestAt = "replica" /\ s[n].by = "request" /\ e = s[n].value
    BY <1>2, <2>2 DEF Answered
  <2> QED BY <1>2, <2>1, <2>2
<1>3. ASSUME q.requestAt = "replica", NEW i \in 1 .. Len(Without(s, n)), Without(s, n)[i].by = "request"
      PROVE  /\ Without(s, n)[i].store = "replica"
             /\ Keeps(Without(s, n)[i].value, q.requestFor, of[q.requestFor].ws)
  <2>1. PICK f : Left(f, Without(s, n), s, n) BY WithoutKeeps
  <2>2. f[i] \in 1 .. Len(s) /\ Without(s, n)[i] = s[f[i]] BY <2>1 DEF Left
  <2> QED BY <1>3, <2>2 DEF Answered
<1> QED BY <1>1, <1>2, <1>3 DEF Answered

LEMMA Commits ==
    ASSUME WorkerTypes, NEW n \in 1 .. Len(tx), Oldest(n), NEW e, e = Committed(db, tx[n])
    PROVE  /\ e \in Databases /\ e.replica \in Replicas
           /\ tx[n].store = "replica" => e.replica = tx[n].value
           /\ \A r \in Replicas : Chain(db.replica, tx, r) =>
                Chain(e.replica, Without(tx, n), r) /\ Leq(db.replica, e.replica)
<1>1. tx[n] \in Puts /\ db \in Databases BY DEF WorkerTypes
<1>2. db.replica \in Replicas /\ tx \in Seq(AnyPuts) BY AnyTypes DEF WorkerTypes, Databases
<1>3. CASE tx[n] \in SettingsPuts
  <2>1. tx[n].store = "settings" /\ tx[n].value \in SettingsKept BY <1>3 DEF SettingsPuts
  <2>2. e = [db EXCEPT !.settings = tx[n].value] BY <2>1 DEF Committed
  <2>3. e \in Databases /\ e.replica = db.replica BY <1>1, <2>1, <2>2 DEF Databases
  <2>4. Leq(db.replica, db.replica) BY <1>2, LeqOrders
  <2> QED BY <1>2, <2>1, <2>3, <2>4, ChainLoses
<1>4. CASE tx[n] \in ReplicaPuts
  <2>1. tx[n].store = "replica" /\ tx[n].value \in Snapshots BY <1>4 DEF ReplicaPuts
  <2>2. e = [db EXCEPT !.replica = tx[n].value] BY <2>1 DEF Committed
  <2>3. e \in Databases /\ e.replica = tx[n].value BY <1>1, <2>1, <2>2 DEF Databases
  <2>4. e.replica \in Replicas BY <2>1, <2>3, AnyTypes
  <2>5. \A j \in 1 .. (n - 1) : tx[j].store # "replica" BY <2>1 DEF Oldest
  <2> QED BY <1>2, <2>1, <2>3, <2>4, <2>5, ChainCommits
<1> QED BY <1>1, <1>3, <1>4 DEF Puts

LEMMA Ends ==
    ASSUME WorkerIInv, Grows, SocketTypes', NEW n \in 1 .. Len(tx), Oldest(n), NEW t \in Tab,
           NEW b \in WorkerQueues, Entry(tx[n], t, b), db' = db \/ db' = Committed(db, tx[n]),
           NEW q \in WorkerPages', page' = [page EXCEPT ![t] = q],
           q.running = page[t].running, q.replica = page[t].replica, PageOK(q),
           \A c \in WorkerQueues \ {b} : Busy(q, c) <=> Busy(page[t], c),
           HostsIn(page[t].queue, page[t].replica.ws, srv.ws) => HostsIn(q.queue, q.replica.ws, srv.ws),
           \/ tx' = Without(tx, n) /\ ~Busy(q, b)
           \/ \E w \in SettingsPuts : /\ Entry(w, t, b) /\ Busy(q, b) /\ tx' = Append(Without(tx, n), w)
                                      /\ b = "request" => q.requestAt # "replica",
           q.requestAt \in {"replica", "settings"} => q.requestFor = page[t].requestFor,
           q.requestAt = "replica" => page[t].requestAt = "replica",
           q.requestAt = "settings" =>
             \/ page[t].requestAt = "settings"
             \/ page[t].requestAt = "replica" /\ b = "request" /\ db' = Committed(db, tx[n]),
           \/ acked' = acked
           \/ acked' = acked \cup {page[t].requestFor} /\ page[t].requestAt = "settings",
           UNCHANGED <<srv, info, refused, drawn, made>>, budget' \in Budget
    PROVE  WorkerIInv'
<1>1. WorkerTypes /\ Awaits(page, tx) /\ page[t] \in WorkerPages /\ PageOK(page[t])
  BY DEF WorkerIInv, WorkerTypes, Awaits
<1>2. page \in [Tab -> WorkerPages'] /\ page[t] \in WorkerPages' BY <1>1, ValuesGrow, TypesGrow
<1>3. page'[t] = q /\ \A u \in Tab \ {t} : page'[u] = page[u] BY <1>2
<1>4. Turns(page, page', t, b) BY <1>3 DEF Turns
<1>5. tx \in Seq(Puts) /\ Without(tx, n) \in Seq(Puts)
  <2>1. tx \in Seq(Puts) BY <1>1 DEF WorkerTypes
  <2> QED BY <2>1, WithoutOne
<1>6. SettingsPuts \subseteq Puts BY DEF Puts
<1>7. Awaits(page', tx')
  <2>1. CASE tx' = Without(tx, n) /\ ~Busy(q, b)
    BY <1>1, <1>3, <1>4, <1>5, <2>1, AwaitsEnds
  <2>2. ASSUME NEW w \in SettingsPuts, Entry(w, t, b), Busy(q, b), tx' = Append(Without(tx, n), w)
        PROVE  Awaits(page', tx')
    BY <1>1, <1>3, <1>4, <1>5, <1>6, <2>2, AwaitsGoesOn
  <2> QED BY <2>1, <2>2
<1>8. tx' \in Seq(Puts)'
  <2>1. Puts' = Puts BY DEF Puts, SettingsPuts, ReplicaPuts, Snapshots, Docs
  <2>2. \A w \in SettingsPuts : Append(Without(tx, n), w) \in Seq(Puts) BY <1>5, <1>6, Appended
  <2> QED BY <1>5, <2>1, <2>2
<1>9. PICK e : e = Committed(db, tx[n]) OBVIOUS
<1>10. e \in Databases BY <1>1, <1>9, Commits
<1>11. db' \in Databases'
  <2>1. Databases' = Databases BY DEF Databases, Snapshots, Docs
  <2>2. db \in Databases BY <1>1 DEF WorkerTypes
  <2> HIDE DEF Databases, Committed
  <2> QED BY <1>9, <1>10, <2>1, <2>2
<1>12. /\ made \in Nat /\ page[t].requestFor \in 0 .. made
       /\ page[t].requestAt \in {"replica", "settings"} => page[t].requestFor \in 1 .. made
  <2>1. made \in Nat /\ page[t].requestFor \in 0 .. made
    BY <1>1, ConstantsAssumption DEF WorkerTypes, WorkerPages
  <2>2. page[t].requestAt \in {"replica", "settings"} => page[t].requestFor # 0 BY <1>1 DEF PageOK
  <2> QED BY <2>1, <2>2
<1>13. acked' \subseteq 1 .. made BY <1>1, <1>12 DEF WorkerTypes
<1>14. ASSUME OneTab, Safe(db.replica, tx, page[t], srv.ws, acked, info)
       PROVE  Safe(db.replica', tx', q, srv.ws', acked', info')
  <2>1. /\ db.replica \in Replicas /\ page[t].replica \in Replicas /\ tx \in Seq(AnyPuts)
    BY <1>1, AnyTypes DEF WorkerTypes, Databases, WorkerPages
  <2>2. page[t].running
    <3>1. Busy(page[t], b) BY <1>1 DEF Awaits
    <3> QED BY <1>1, <3>1 DEF PageOK, Busy, Blank
  <2>3. Chain(db.replica, tx, page[t].replica) BY <1>14, <2>2 DEF Safe
  <2>4. /\ Chain(db'.replica, Without(tx, n), q.replica) /\ Leq(db.replica, db'.replica)
        /\ db'.replica \in Replicas /\ (db' = e /\ tx[n].store = "replica" => db'.replica = tx[n].value)
    <3>1. CASE db' = db
      <4>1. Chain(db.replica, Without(tx, n), page[t].replica) BY <2>1, <2>3, ChainLoses
      <4>2. Leq(db.replica, db.replica) BY <2>1, LeqOrders
      <4>3. e = db /\ tx[n].store = "replica" => e.replica = tx[n].value
        BY <1>1, <1>9, Commits
      <4> QED BY <2>1, <3>1, <4>1, <4>2, <4>3
    <3>2. CASE db' = e
      BY <1>1, <1>9, <2>1, <2>3, <3>2, Commits
    <3> QED BY <1>9, <3>1, <3>2
  <2>5. Answered(db'.replica, Without(tx, n), q, acked', info)
    <3>1. \A c \in 1 .. made : info[c].ws \in Nat
      <4>1. \A c \in 1 .. made : c \in Change BY <1>1, <1>12, ConstantsAssumption DEF Change, WorkerTypes
      <4> QED BY <1>1, <4>1 DEF WorkerTypes, InfoTypes
    <3>2. Answered(db.replica, tx, page[t], acked, info) BY <1>14 DEF Safe
    <3>3. \A c \in acked' : c \in acked \/ (c = page[t].requestFor /\ page[t].requestAt = "settings")
      OBVIOUS
    <3>4. q.requestAt = "settings" =>
             \/ page[t].requestAt = "settings"
             \/ page[t].requestAt = "replica" /\ tx[n].by = "request" /\ db'.replica = tx[n].value
      <4>1. page[t].requestAt = "replica" /\ tx[n].by = "request" => tx[n].store = "replica"
        BY <3>2 DEF Answered
      <4>2. tx[n].by = b BY DEF Entry
      <4> QED BY <1>9, <2>4, <4>1, <4>2
    <3> HIDE DEF Answered
    <3> QED BY <1>12, <1>13, <2>1, <2>4, <3>1, <3>2, <3>3, <3>4, AnsweredOn
  <2>6. Chain(db'.replica, tx', q.replica) /\ Answered(db'.replica, tx', q, acked', info)
    <3>1. CASE tx' = Without(tx, n) BY <2>4, <2>5, <3>1
    <3>2. ASSUME NEW w \in SettingsPuts, Entry(w, t, b), tx' = Append(Without(tx, n), w),
                 b = "request" => q.requestAt # "replica"
          PROVE  Chain(db'.replica, tx', q.replica) /\ Answered(db'.replica, tx', q, acked', info)
      <4>1. w.store = "settings" BY DEF SettingsPuts
      <4>2. w \in AnyPuts /\ Without(tx, n) \in Seq(AnyPuts) BY <1>1, <1>5, <1>6, AnyTypes
      <4>3. Chain(db'.replica, tx', q.replica) BY <2>1, <2>4, <3>2, <4>1, <4>2, ChainAppends
      <4>4. Answered(db'.replica, tx', q, acked', info)
        <5>1. /\ Len(tx') = Len(Without(tx, n)) + 1 /\ tx'[Len(Without(tx, n)) + 1] = w
              /\ \A i \in 1 .. Len(Without(tx, n)) : tx'[i] = Without(tx, n)[i]
              /\ \A i \in 1 .. (Len(Without(tx, n)) + 1) :
                   i \in 1 .. Len(Without(tx, n)) \/ i = Len(Without(tx, n)) + 1
          BY <3>2, <4>2, Appended
        <5>2. q.requestAt = "replica" => w.by # "request" BY <3>2 DEF Entry
        <5> QED BY <2>5, <5>1, <5>2 DEF Answered
      <4> QED BY <4>3, <4>4
    <3> QED BY <3>1, <3>2
  <2>7. db'.replica.ws <= srv.ws
    <3>1. db'.replica.ws \in Nat /\ q.replica.ws \in Nat /\ srv.ws \in Nat
      BY <1>1, <2>1, <2>4 DEF Replicas, WorkerTypes, Snapshots
    <3>2. db'.replica.ws <= q.replica.ws BY <2>4, <3>1 DEF Chain, Leq
    <3>3. q.replica.ws <= srv.ws BY <1>14 DEF Safe, HostsIn
    <3> QED BY <3>1, <3>2, <3>3
  <2> QED BY <1>14, <2>2, <2>6, <2>7 DEF Safe
<1>15. srv' \in Snapshots' /\ drawn' \in Nat /\ InfoTypes' /\ refused' \subseteq 1 .. made' /\ acked' \subseteq 1 .. made'
  BY <1>1, <1>13 DEF WorkerTypes, InfoTypes, Snapshots, Docs
<1> QED BY <1>7, <1>8, <1>11, <1>14, <1>15, Stepped

-----------------------------------------------------------------------------
\* Handlers that write.
SameReplica(p, q) == q.running = p.running /\ q.replica = p.replica

LEMMA LeqStays ==
    ASSUME WorkerTypes, NEW t \in Tab, NEW r, r = page[t].replica
    PROVE  Leq(page[t].replica, r)
<1>1. page[t].replica \in Replicas BY AnyTypes DEF WorkerTypes, WorkerPages
<1> QED BY <1>1, LeqOrders

LEMMA SetClientIdStep == ASSUME WorkerIInv, NEW t \in Tab, SetClientId(t) PROVE WorkerIInv'
<1>1. WorkerTypes /\ page[t] \in WorkerPages BY DEF WorkerIInv, WorkerTypes
<1>2. PICK s : s = [page[t].settings EXCEPT !.named = TRUE] OBVIOUS
<1>3. /\ page[t].running /\ page[t].requestAt = "idle"
      /\ page' = [page EXCEPT ![t].settings = s, ![t].requestAt = "name"]
      /\ tx' = Append(tx, Put(t, "settings", s, "request"))
      /\ UNCHANGED <<db, phase, up, peer, dialled, srv, made, info, acked, refused, drawn, budget>>
  BY <1>2 DEF SetClientId, Ready, sockets, history, ghosts
<1>4. s \in SettingsKept BY <1>1, <1>2 DEF WorkerPages, SettingsKept
<1>5. PICK q : q = [page[t] EXCEPT !.settings = s, !.requestAt = "name"] OBVIOUS
<1>6. Grows BY <1>1, <1>3, SameGrows
<1>7. /\ q \in WorkerPages /\ SameReplica(page[t], q) /\ q.requestAt = "name" /\ q.requestFor = page[t].requestFor
      /\ q.queue = page[t].queue /\ q.socketAt = page[t].socketAt
  BY <1>1, <1>4, <1>5 DEF WorkerPages, RequestStages, SameReplica
<1>8. q \in WorkerPages' BY <1>1, <1>6, <1>7, TypesGrow
<1>9. page' = [page EXCEPT ![t] = q] BY <1>1, <1>3, <1>5 DEF WorkerTypes
<1>10. PICK w : w = Put(t, "settings", s, "request") OBVIOUS
<1>11. w \in Puts' /\ Entry(w, t, "request") /\ w.store = "settings"
  BY <1>4, <1>10 DEF Put, Puts, SettingsPuts, Entry, WorkerQueues
<1>12. SocketTypes' BY <1>1, <1>3, SocketsKept DEF WorkerTypes, SocketTypes
<1>13. Leq(page[t].replica, q.replica) BY <1>1, <1>7, LeqStays DEF SameReplica
<1>14. budget' \in Budget /\ InfoKept BY <1>1, <1>3 DEF WorkerTypes, InfoKept, InfoTypes
<1>15. "request" \in WorkerQueues /\ ~Busy(page[t], "request") /\ Busy(q, "request") /\ PageOK(q)
       /\ \A c \in WorkerQueues \ {"request"} : Busy(q, c) <=> Busy(page[t], c)
  BY <1>3, <1>7 DEF WorkerQueues, Busy, PageOK, SameReplica
<1>16. HostsIn(page[t].queue, page[t].replica.ws, srv.ws) => HostsIn(q.queue, q.replica.ws, srv.ws)
  BY <1>7 DEF SameReplica
<1>17. tx' = Append(tx, w) BY <1>3, <1>10
<1>18. q.running /\ q.requestAt \notin {"replica", "settings"} BY <1>3, <1>7 DEF SameReplica
<1>19. UNCHANGED <<db, srv, acked, refused, drawn>> BY <1>3
<1> HIDE DEF Busy, Entry, PageOK, HostsIn, Leq, Keeps
<1> QED
  BY <1>3, <1>6, <1>8, <1>9, <1>11, <1>12, <1>13, <1>14, <1>15, <1>16, <1>17, <1>18, <1>19, Undertakes

LEMMA PutWritesStep == ASSUME WorkerIInv, NEW t \in Tab, PutWrites(t) PROVE WorkerIInv'
<1>1. WorkerTypes /\ page[t] \in WorkerPages BY DEF WorkerIInv, WorkerTypes
<1>2. PICK r : r = [page[t].replica EXCEPT !.doc = @ \cup {made + 1}] OBVIOUS
<1>3. PICK v : v = Written(page[t].replica.doc, page[t].replica.ws, page[t].settings.actor) OBVIOUS
<1>4. /\ page[t].running /\ page[t].requestAt = "idle" /\ made < MaxChanges /\ budget.puts > 0
      /\ made' = made + 1 /\ info' = [info EXCEPT ![made + 1] = v]
      /\ page' = [page EXCEPT ![t].replica = r, ![t].settings.dirty = TRUE,
                              ![t].requestAt = "replica", ![t].requestFor = made + 1]
      /\ tx' = Append(tx, Put(t, "replica", r, "request"))
      /\ budget' = [budget EXCEPT !.puts = @ - 1]
      /\ UNCHANGED <<db, phase, up, peer, dialled, srv, acked, refused, drawn>>
  BY <1>2, <1>3 DEF PutWrites, NextChange, Ready, sockets, ghosts
<1>5. /\ made \in Nat /\ made \in 0 .. MaxChanges /\ MaxChanges \in Nat
      /\ dialled \in 0 .. MaxSockets /\ MaxSockets \in Nat
  BY <1>1, ConstantsAssumption DEF WorkerTypes
<1>6. Grows BY <1>4, <1>5 DEF Grows
<1>7. page[t] \in WorkerPages' BY <1>1, <1>6, TypesGrow
<1>8. /\ r \in Snapshots' /\ r.ws = page[t].replica.ws /\ page[t].replica.doc \subseteq r.doc
      /\ made + 1 \in r.doc /\ r.ws \in Nat
  <2>1. page[t].replica \in Snapshots' BY <1>7 DEF WorkerPages
  <2>2. made + 1 \in 1 .. made' BY <1>4, <1>5
  <2> QED BY <1>2, <2>1, <2>2 DEF Snapshots, Docs
<1>9. PICK q : q = [page[t] EXCEPT !.replica = r, !.settings.dirty = TRUE,
                                   !.requestAt = "replica", !.requestFor = made + 1]
  OBVIOUS
<1>10. [page[t].settings EXCEPT !.dirty = TRUE] \in SettingsKept BY <1>1 DEF WorkerPages, SettingsKept
<1>11. made + 1 \in 0 .. made' BY <1>4, <1>5
<1>12. /\ q \in WorkerPages' /\ q.replica = r /\ q.running /\ q.requestAt = "replica"
       /\ q.requestFor = made + 1 /\ q.queue = page[t].queue /\ q.socketAt = page[t].socketAt
  BY <1>4, <1>7, <1>8, <1>9, <1>10, <1>11 DEF WorkerPages, RequestStages
<1>13. page' = [page EXCEPT ![t] = q] BY <1>1, <1>4, <1>9 DEF WorkerTypes
<1>14. PICK w : w = Put(t, "replica", r, "request") OBVIOUS
<1>15. w \in Puts' /\ Entry(w, t, "request") /\ w.store = "replica" /\ w.value = r
  BY <1>8, <1>14 DEF Put, Puts, ReplicaPuts, Entry, WorkerQueues
<1>16. SocketTypes'
  <2>1. up \in [Socket -> Seq(FramesUp)'] BY <1>1, <1>6, ValuesGrow
  <2> QED BY <1>1, <1>4, <2>1 DEF WorkerTypes, SocketTypes, Peers, SyncStates
<1>17. Leq(page[t].replica, q.replica) BY <1>8, <1>12 DEF Leq
<1>18. v.ws = r.ws BY <1>3, <1>8 DEF Written
<1>19. InfoKept BY <1>1, <1>4, <1>8, <1>18, InfoAdds
<1>20. made + 1 \in Change BY <1>4, <1>5 DEF Change
<1>21. info'[q.requestFor].ws = r.ws BY <1>1, <1>4, <1>12, <1>18, <1>20 DEF WorkerTypes, InfoTypes
<1>22. Keeps(w.value, q.requestFor, info'[q.requestFor].ws) BY <1>8, <1>12, <1>15, <1>21 DEF Keeps
<1>23. budget' \in Budget BY <1>1, <1>4, Spends DEF WorkerTypes
<1>24. "request" \in WorkerQueues /\ ~Busy(page[t], "request") /\ Busy(q, "request") /\ PageOK(q)
       /\ \A c \in WorkerQueues \ {"request"} : Busy(q, c) <=> Busy(page[t], c)
  BY <1>4, <1>5, <1>12 DEF WorkerQueues, Busy, PageOK
<1>25. HostsIn(page[t].queue, page[t].replica.ws, srv.ws) => HostsIn(q.queue, q.replica.ws, srv.ws)
  BY <1>8, <1>12
<1>26. tx' = Append(tx, w) BY <1>4, <1>14
<1>27. UNCHANGED <<db, srv, acked, refused, drawn>> BY <1>4
<1> HIDE DEF Busy, Entry, PageOK, HostsIn, Leq, Keeps
<1> QED
  BY <1>4, <1>6, <1>12, <1>13, <1>15, <1>16, <1>17, <1>19, <1>22, <1>23, <1>24, <1>25, <1>26, <1>27, Undertakes

LEMMA FramePopped ==
    ASSUME WorkerTypes, NEW t \in Tab, page[t].queue # <<>>
    PROVE  /\ Frame(t).on \in Socket /\ Frame(t).on \in 0 .. MaxSockets
           /\ Frame(t).msg \in Syncs \cup [type : {"hello"}, ws : Nat]
           /\ Popped(t) \in WorkerPages /\ SameCore(page[t], Popped(t))
           /\ Popped(t).socketAt = page[t].socketAt /\ Popped(t).queue = Tail(page[t].queue)
           /\ Popped(t).settings = page[t].settings /\ Popped(t).sync = page[t].sync
           /\ HostsIn(page[t].queue, page[t].replica.ws, srv.ws) =>
                /\ HostsIn(Tail(page[t].queue), page[t].replica.ws, srv.ws)
                /\ Frame(t).msg.type = "hello" =>
                     /\ page[t].replica.ws <= Frame(t).msg.ws
                     /\ HostsIn(Tail(page[t].queue), Frame(t).msg.ws, srv.ws)
<1>1. page[t] \in WorkerPages /\ page[t].queue \in Seq(AnyFrames)
      /\ page[t].replica.ws \in Nat /\ srv.ws \in Nat
  BY HostsStay
<1>2. page[t].queue \in Seq(FramesDown) BY <1>1 DEF WorkerPages
<1>3. Head(page[t].queue) \in FramesDown /\ Tail(page[t].queue) \in Seq(FramesDown) BY <1>2
<1>4. Popped(t) \in WorkerPages /\ SameCore(page[t], Popped(t)) /\ Popped(t).socketAt = page[t].socketAt
      /\ Popped(t).queue = Tail(page[t].queue) /\ Popped(t).settings = page[t].settings
      /\ Popped(t).sync = page[t].sync
  BY <1>1, <1>3 DEF Popped, WorkerPages, SameCore
<1>5. Frame(t).on \in Socket /\ Frame(t).msg \in Syncs \cup [type : {"hello"}, ws : Nat]
  BY <1>3 DEF Frame, FramesDown
<1>6. Frame(t).on \in 0 .. MaxSockets BY <1>5, ConstantsAssumption DEF Socket
<1> QED BY <1>1, <1>4, <1>5, <1>6, HostsTail DEF Frame

\* The handler that fails while it awaits nothing; its page is p by then.
LEMMA FailsIdle ==
    ASSUME WorkerIInv, NEW t \in Tab, page[t].queue # <<>>, page[t].running, page[t].socketAt = "idle",
           NEW p \in WorkerPages, Advances(page[t], p), p.queue = Tail(page[t].queue),
           NEW k, HandlerFails(t, p, k),
           UNCHANGED <<db, tx, up, peer, dialled, srv, made, info, acked, drawn, budget>>,
           refused' \subseteq 1 .. made
    PROVE  WorkerIInv'
<1>1. WorkerTypes BY DEF WorkerIInv
<1>2. /\ Grows /\ phase' \in [Socket -> Phases]
      /\ \E q \in WorkerPages' : \E n \in 0 .. Len(p.queue) :
              /\ page' = [page EXCEPT ![t] = q] /\ SameCore(p, q)
              /\ q.queue = SubSeq(p.queue, 1, n) /\ q.socketAt = "idle"
  BY <1>1, Fails
<1>3. PICK q \in WorkerPages', n \in 0 .. Len(p.queue) :
              /\ page' = [page EXCEPT ![t] = q] /\ SameCore(p, q)
              /\ q.queue = SubSeq(p.queue, 1, n) /\ q.socketAt = "idle"
  BY <1>2
<1>4. SocketTypes' BY <1>1, <1>2, SocketsKept
<1>5. Advances(page[t], q) BY <1>3 DEF Advances, SameCore
<1>6. q \in WorkerPages
  BY DEF WorkerPages, Snapshots, FramesDown, Syncs, Docs
<1>7. HostsIn(page[t].queue, page[t].replica.ws, srv.ws) => HostsIn(q.queue, q.replica.ws, srv.ws)
  <2>1. /\ Tail(page[t].queue) \in Seq(AnyFrames) /\ page[t].replica.ws \in Nat /\ srv.ws \in Nat
    <3>1. p.queue \in Seq(FramesDown) BY DEF WorkerPages
    <3> QED BY <1>1, <3>1, AnyTypes, HostsStay
  <2>2. q.replica.ws = page[t].replica.ws BY <1>5 DEF Advances
  <2>3. n \in 0 .. Len(Tail(page[t].queue)) /\ q.queue = SubSeq(Tail(page[t].queue), 1, n)
    BY <1>3
  <2>4. HostsIn(page[t].queue, page[t].replica.ws, srv.ws)
          => HostsIn(Tail(page[t].queue), page[t].replica.ws, srv.ws)
    BY <1>1, FramePopped
  <2>5. HostsIn(Tail(page[t].queue), page[t].replica.ws, srv.ws)
          => HostsIn(SubSeq(Tail(page[t].queue), 1, n), page[t].replica.ws, srv.ws)
    BY <2>1, <2>3, HostsPrefix
  <2> QED BY <2>2, <2>3, <2>4, <2>5
<1>8. budget' \in Budget /\ refused' \subseteq 1 .. made' BY <1>1 DEF WorkerTypes
<1> QED BY <1>2, <1>3, <1>4, <1>5, <1>6, <1>7, <1>8, Continues

LEMMA HelloAdoptsStep == ASSUME WorkerIInv, NEW t \in Tab, HelloAdopts(t) PROVE WorkerIInv'
<1>1. WorkerTypes /\ page[t] \in WorkerPages BY DEF WorkerIInv, WorkerTypes
<1>2. /\ page[t].running /\ page[t].socketAt = "idle" /\ page[t].queue # <<>>
      /\ Frame(t).msg.type = "hello" /\ page[t].replica.ws # Frame(t).msg.ws
      /\ UNCHANGED <<db, up, peer, dialled, srv, made, info, acked, refused, drawn, budget>>
  BY DEF HelloAdopts, Handles, history, ghosts
<1>3. CASE page[t].settings = NoSettings
  <2>1. HandlerFails(t, Popped(t), Frame(t).on) /\ tx' = tx BY <1>3 DEF HelloAdopts
  <2>2. /\ Popped(t) \in WorkerPages /\ Advances(page[t], Popped(t))
        /\ Popped(t).queue = Tail(page[t].queue)
    BY <1>1, <1>2, FramePopped DEF Advances, SameCore
  <2>3. refused' \subseteq 1 .. made BY <1>1, <1>2 DEF WorkerTypes
  <2> HIDE DEF Popped
  <2> QED BY <1>2, <2>1, <2>2, <2>3, FailsIdle
<1>4. CASE page[t].settings # NoSettings
  <2>1. PICK k : k = Frame(t).on OBVIOUS
  <2>2. PICK r : r = [ws |-> Frame(t).msg.ws, doc |-> Begins(Frame(t).msg.ws, page[t].settings.actor)]
    OBVIOUS
  <2>3. PICK p : p = Popped(t) OBVIOUS
  <2>4. PICK q : q = [p EXCEPT !.replica = r, !.sync = NewSync, !.settings.dirty = FALSE,
                               !.socketAt = "adopt", !.socketOn = k]
    OBVIOUS
  <2>5. /\ page' = [page EXCEPT ![t] = q] /\ tx' = Append(tx, Put(t, "replica", r, "socket"))
        /\ phase' = phase
    BY <1>4, <2>1, <2>2, <2>3, <2>4 DEF HelloAdopts
  <2>6. /\ p \in WorkerPages /\ SameCore(page[t], p) /\ p.queue = Tail(page[t].queue)
        /\ k \in 0 .. MaxSockets /\ Frame(t).msg \in Syncs \cup [type : {"hello"}, ws : Nat]
    BY <1>1, <1>2, <2>1, <2>3, FramePopped
  <2>7. Frame(t).msg.ws \in Nat
    <3>1. \A m \in Syncs \cup [type : {"hello"}, ws : Nat] : m.type = "hello" => m.ws \in Nat BY DEF Syncs
    <3> QED BY <1>2, <2>6, <3>1
  <2>8. r \in Snapshots BY <1>1, <2>2, <2>7, BegunDocs DEF Snapshots
  <2>9. [p.settings EXCEPT !.dirty = FALSE] \in SettingsKept BY <2>6 DEF WorkerPages, SettingsKept
  <2>10. NewSync \in SyncStates BY DEF NewSync, SyncStates
  <2>11. /\ q \in WorkerPages /\ q.running /\ q.replica = r /\ q.requestAt = page[t].requestAt
         /\ q.requestFor = page[t].requestFor /\ q.socketAt = "adopt" /\ q.queue = Tail(page[t].queue)
    BY <1>2, <2>4, <2>6, <2>8, <2>9, <2>10 DEF WorkerPages, SameCore, SocketStages
  <2>12. Grows BY <1>1, <1>2, SameGrows
  <2>13. q \in WorkerPages' BY <1>1, <2>11, <2>12, TypesGrow
  <2>14. PICK w : w = Put(t, "replica", r, "socket") OBVIOUS
  <2>15. w \in Puts /\ Entry(w, t, "socket") /\ w.store = "replica" /\ w.value = r
    BY <2>8, <2>14 DEF Put, Puts, ReplicaPuts, Entry, WorkerQueues
  <2>16. w \in Puts' BY <1>1, <2>12, <2>15, TypesGrow
  <2>17. SocketTypes' BY <1>1, <1>2, <2>5, SocketsKept DEF WorkerTypes, SocketTypes
  <2>18. HostsIn(page[t].queue, page[t].replica.ws, srv.ws) =>
             HostsIn(q.queue, q.replica.ws, srv.ws) /\ Leq(page[t].replica, q.replica)
    <3>1. page[t].replica.ws \in Nat BY <1>1, HostsStay
    <3>2. r.ws = Frame(t).msg.ws BY <2>2
    <3> QED BY <1>1, <1>2, <2>7, <2>11, <3>1, <3>2, FramePopped DEF Leq
  <2>19. "socket" \in WorkerQueues /\ ~Busy(page[t], "socket") /\ Busy(q, "socket") /\ PageOK(q)
         /\ \A c \in WorkerQueues \ {"socket"} : Busy(q, c) <=> Busy(page[t], c)
    <3>1. PageOK(page[t]) BY DEF WorkerIInv, Awaits
    <3> QED BY <1>2, <2>11, <3>1 DEF WorkerQueues, Busy, PageOK
  <2>20. budget' \in Budget /\ InfoKept BY <1>1, <1>2 DEF WorkerTypes, InfoKept, InfoTypes
  <2>21. tx' = Append(tx, w) BY <2>5, <2>14
  <2> HIDE DEF Busy, Entry, PageOK, HostsIn, Leq, Keeps
  <2> QED
    BY <1>2, <2>5, <2>11, <2>12, <2>13, <2>15, <2>16, <2>17, <2>18, <2>19, <2>20, <2>21, Undertakes
<1> QED BY <1>3, <1>4

\* What the end of a merge makes of the page, the wire and the transactions.
LEMMA Merged ==
    ASSUME WorkerTypes, NEW t \in Tab, NEW p \in WorkerPages, NEW k \in 0 .. MaxSockets, NEW rest,
           AfterMerge(t, p, k, rest), UNCHANGED <<made, dialled, phase, peer>>
    PROVE  /\ Grows /\ SocketTypes'
           /\ \E q \in WorkerPages' :
                /\ page' = [page EXCEPT ![t] = q] /\ SameCore(p, q) /\ q.queue = p.queue
                /\ \/ q.socketAt = "idle" /\ tx' = rest
                   \/ /\ q.socketAt = "clean"
                      /\ \E w \in SettingsPuts : Entry(w, t, "socket") /\ tx' = Append(rest, w)
<1>1. Grows BY SameGrows
<1>2. SocketTypes'
  <2>1. up' \in [Socket -> Seq(FramesUp)]
    <3>1. WireAfter(p, k) \in [Socket -> Seq(FramesUp)] BY WireType
    <3>2. up' = WireAfter(p, k) \/ up' = up BY DEF AfterMerge
    <3> QED BY <3>1, <3>2 DEF WorkerTypes, SocketTypes
  <2>2. Seq(FramesUp)' = Seq(FramesUp) BY DEF FramesUp, Syncs, Docs
  <2> QED BY <2>1, <2>2 DEF SocketTypes, WorkerTypes, Peers, SyncStates
<1>3. CASE Pumps(p, k) \/ ~p.settings.dirty
  <2>1. PICK i : i = [p EXCEPT !.socketAt = "idle", !.socketOn = 0] OBVIOUS
  <2>2. i \in WorkerPages /\ SameCore(p, i) /\ i.queue = p.queue /\ i.socketAt = "idle"
    <3>1. 0 \in 0 .. MaxSockets BY ConstantsAssumption
    <3> QED BY <2>1, <3>1 DEF WorkerPages, SameCore, SocketStages
  <2>3. PICK q : q = Pumped(i, k) OBVIOUS
  <2>4. q \in WorkerPages /\ SameCore(i, q) /\ q.queue = i.queue /\ q.socketAt = i.socketAt
    BY <2>2, <2>3, PumpedPage
  <2>5. q \in WorkerPages' BY <1>1, <2>4, TypesGrow
  <2>6. page' = [page EXCEPT ![t] = q] /\ tx' = rest BY <1>3, <2>1, <2>3 DEF AfterMerge
  <2>7. SameCore(p, q) /\ q.queue = p.queue /\ q.socketAt = "idle" BY <2>2, <2>4 DEF SameCore
  <2>8. \E r \in WorkerPages' :
          page' = [page EXCEPT ![t] = r] /\ SameCore(p, r) /\ r.queue = p.queue
          /\ r.socketAt = "idle" /\ tx' = rest
    BY <2>5, <2>6, <2>7
  <2> QED BY <1>1, <1>2, <2>8
<1>4. CASE ~(Pumps(p, k) \/ ~p.settings.dirty)
  <2>1. PICK s : s = [p.settings EXCEPT !.dirty = FALSE] OBVIOUS
  <2>2. s \in SettingsKept BY <2>1 DEF WorkerPages, SettingsKept
  <2>3. PICK q : q = [p EXCEPT !.settings = s, !.socketAt = "clean", !.socketOn = k] OBVIOUS
  <2>4. q \in WorkerPages /\ SameCore(p, q) /\ q.queue = p.queue /\ q.socketAt = "clean"
    BY <2>2, <2>3 DEF WorkerPages, SameCore, SocketStages
  <2>5. q \in WorkerPages' BY <1>1, <2>4, TypesGrow
  <2>6. page' = [page EXCEPT ![t] = q] /\ tx' = Append(rest, Put(t, "settings", s, "socket"))
    BY <1>4, <2>1, <2>3 DEF AfterMerge
  <2>7. Put(t, "settings", s, "socket") \in SettingsPuts /\ Entry(Put(t, "settings", s, "socket"), t, "socket")
    BY <2>2 DEF Put, SettingsPuts, Entry, WorkerQueues
  <2>8. \E w \in SettingsPuts : Entry(w, t, "socket") /\ tx' = Append(rest, w) BY <2>6, <2>7
  <2>9. \E r \in WorkerPages' :
          page' = [page EXCEPT ![t] = r] /\ SameCore(p, r) /\ r.queue = p.queue
          /\ r.socketAt = "clean" /\ \E w \in SettingsPuts : Entry(w, t, "socket") /\ tx' = Append(rest, w)
    BY <2>4, <2>5, <2>6, <2>8
  <2> QED BY <1>1, <1>2, <2>9
<1> QED BY <1>3, <1>4

LEMMA ReceiveSyncMessageStep == ASSUME WorkerIInv, NEW t \in Tab, ReceiveSyncMessage(t) PROVE WorkerIInv'
<1>1. WorkerTypes /\ page[t] \in WorkerPages /\ PageOK(page[t]) BY DEF WorkerIInv, WorkerTypes, Awaits
<1>2. /\ page[t].running /\ page[t].socketAt = "idle" /\ page[t].queue # <<>>
      /\ Frame(t).msg.type = "sync"
      /\ UNCHANGED <<db, peer, dialled, srv, made, info, acked, drawn, budget>>
  BY DEF ReceiveSyncMessage, Handles, history
<1>3. CASE HandlerFails(t, Popped(t), Frame(t).on) /\ UNCHANGED <<tx, up, refused>>
  <2>2. /\ Popped(t) \in WorkerPages /\ Advances(page[t], Popped(t))
        /\ Popped(t).queue = Tail(page[t].queue)
    BY <1>1, <1>2, FramePopped DEF Advances, SameCore
  <2>3. refused' \subseteq 1 .. made BY <1>1, <1>3 DEF WorkerTypes
  <2> HIDE DEF Popped
  <2> QED BY <1>2, <1>3, <2>2, <2>3, FailsIdle
<1>5. Frame(t).msg \in Syncs /\ Frame(t).msg.changes \in Docs /\ page[t].replica.doc \in Docs
  <2>1. Frame(t).msg \in Syncs \cup [type : {"hello"}, ws : Nat] BY <1>1, <1>2, FramePopped
  <2> QED BY <1>1, <1>2, <2>1 DEF Syncs, WorkerPages, Snapshots
<1>6. ASSUME NEW doc \in Applied(page[t].replica.doc, Frame(t).msg.changes),
             HandlerFails(t, [Popped(t) EXCEPT !.replica.doc = doc, !.sync.flying = FALSE], Frame(t).on),
             refused' = refused \cup Frame(t).msg.changes, UNCHANGED <<tx, up>>
      PROVE  WorkerIInv'
  <2>1. doc \in Docs /\ page[t].replica.doc \subseteq doc BY <1>5, <1>6, MergedDocs
  <2>2. /\ Popped(t) \in WorkerPages /\ SameCore(page[t], Popped(t))
        /\ Popped(t).queue = Tail(page[t].queue)
    BY <1>1, <1>2, FramePopped
  <2>3. PICK p : p = [Popped(t) EXCEPT !.replica.doc = doc, !.sync.flying = FALSE] OBVIOUS
  <2> HIDE DEF Popped
  <2>4. /\ p \in WorkerPages /\ p.queue = Popped(t).queue /\ p.replica.doc = doc
        /\ p.replica.ws = Popped(t).replica.ws /\ p.running = Popped(t).running
        /\ p.requestAt = Popped(t).requestAt /\ p.requestFor = Popped(t).requestFor
    BY <2>1, <2>2, <2>3 DEF WorkerPages, Snapshots, SyncStates
  <2>5. Advances(page[t], p) BY <2>1, <2>2, <2>4 DEF Advances, SameCore
  <2>6. refused' \subseteq 1 .. made BY <1>1, <1>5, <1>6 DEF WorkerTypes, Docs
  <2> QED BY <1>2, <1>6, <2>2, <2>3, <2>4, <2>5, <2>6, FailsIdle
<1>4. ASSUME NEW doc \in Applied(page[t].replica.doc, Frame(t).msg.changes), UNCHANGED refused,
             LET p == [Popped(t) EXCEPT !.replica.doc = doc, !.sync = Received(@, doc, Frame(t).msg)] IN
             /\ IF doc # page[t].replica.doc
                THEN /\ page' = [page EXCEPT ![t] = [p EXCEPT !.socketAt = "merged", !.socketOn = Frame(t).on]]
                     /\ tx' = Append(tx, Put(t, "replica", p.replica, "socket"))
                     /\ UNCHANGED up
                ELSE AfterMerge(t, p, Frame(t).on, tx)
             /\ UNCHANGED phase
      PROVE  WorkerIInv'
  <2>1. PICK k : k = Frame(t).on OBVIOUS
  <2>2. PICK m : m = Frame(t).msg OBVIOUS
  <2>4. PICK pp : pp = Popped(t) OBVIOUS
  <2>5. PICK p : p = [pp EXCEPT !.replica.doc = doc, !.sync = Received(@, doc, m)] OBVIOUS
  <2>6. IF doc # page[t].replica.doc
        THEN /\ page' = [page EXCEPT ![t] = [p EXCEPT !.socketAt = "merged", !.socketOn = k]]
             /\ tx' = Append(tx, Put(t, "replica", p.replica, "socket"))
             /\ up' = up /\ phase' = phase
        ELSE AfterMerge(t, p, k, tx) /\ phase' = phase
    BY <1>4, <2>1, <2>2, <2>4, <2>5
  <2>7. /\ pp \in WorkerPages /\ SameCore(page[t], pp) /\ pp.queue = Tail(page[t].queue)
        /\ pp.socketAt = "idle" /\ k \in 0 .. MaxSockets /\ m \in Syncs
    <3>1. m \in Syncs \cup [type : {"hello"}, ws : Nat] BY <1>1, <1>2, <2>2, FramePopped
    <3>2. m \in Syncs BY <1>2, <2>2, <3>1
    <3> QED BY <1>1, <1>2, <2>1, <2>4, <3>2, FramePopped
  <2>8. doc \in Docs /\ page[t].replica.doc \subseteq doc /\ m.heads \in SUBSET Nat
    <3>1. doc \in Docs /\ page[t].replica.doc \subseteq doc BY <1>4, <1>5, MergedDocs
    <3>2. m.heads \in SUBSET Nat BY <2>7 DEF Syncs
    <3> QED BY <3>1, <3>2
  <2>9. PICK r : r = [page[t].replica EXCEPT !.doc = doc] OBVIOUS
  <2>10. /\ r \in Snapshots /\ r.ws = page[t].replica.ws /\ Leq(page[t].replica, r)
         /\ doc = page[t].replica.doc => r = page[t].replica
    <3>1. page[t].replica \in Snapshots BY <1>1 DEF WorkerPages
    <3> QED BY <2>8, <2>9, <3>1 DEF Snapshots, Leq
  <2>11. Received(pp.sync, doc, m) \in SyncStates
    <3>1. pp.sync \in SyncStates BY <2>7 DEF WorkerPages
    <3> QED BY <2>8, <3>1, ReceivedType
  <2>12. /\ p \in WorkerPages /\ p.running /\ p.replica = r /\ p.requestAt = page[t].requestAt
         /\ p.requestFor = page[t].requestFor /\ p.queue = Tail(page[t].queue) /\ p.socketAt = "idle"
    <3>1. p.replica = r /\ p.sync = Received(pp.sync, doc, m)
      BY <2>5, <2>7, <2>9 DEF SameCore, WorkerPages, Snapshots
    <3> HIDE DEF Received
    <3> QED BY <1>2, <2>5, <2>7, <2>10, <2>11, <3>1 DEF WorkerPages, SameCore
  <2>13. HostsIn(page[t].queue, page[t].replica.ws, srv.ws) => HostsIn(p.queue, r.ws, srv.ws)
    BY <1>1, <1>2, <2>10, <2>12, FramePopped
  <2>14. Grows BY <1>1, <1>2, SameGrows
  <2>15. budget' \in Budget /\ InfoKept /\ refused' = refused
    BY <1>1, <1>2, <1>4 DEF WorkerTypes, InfoKept, InfoTypes
  <2>16. ASSUME NEW q \in WorkerPages', page' = [page EXCEPT ![t] = q], SocketTypes',
                SameCore(p, q), q.queue = p.queue, q.socketAt \in {"merged", "clean"},
                NEW w \in Puts, Entry(w, t, "socket"), tx' = Append(tx, w),
                w.store = "replica" => w.value = r
         PROVE  WorkerIInv'
    <3>1. w \in Puts' BY <1>1, <2>14, TypesGrow
    <3>2. /\ q.running /\ q.replica = r /\ q.requestAt = page[t].requestAt
          /\ q.requestFor = page[t].requestFor
      BY <2>12, <2>16 DEF SameCore
    <3>3. "socket" \in WorkerQueues /\ ~Busy(page[t], "socket") /\ Busy(q, "socket") /\ PageOK(q)
          /\ \A c \in WorkerQueues \ {"socket"} : Busy(q, c) <=> Busy(page[t], c)
      BY <1>1, <1>2, <2>16, <3>2 DEF WorkerQueues, Busy, PageOK
    <3>4. HostsIn(page[t].queue, page[t].replica.ws, srv.ws) =>
             HostsIn(q.queue, q.replica.ws, srv.ws) /\ Leq(page[t].replica, q.replica)
      BY <2>10, <2>12, <2>13, <2>16, <3>2
    <3> HIDE DEF Busy, Entry, PageOK, HostsIn, Leq, Keeps
    <3> QED BY <1>2, <2>14, <2>15, <2>16, <3>1, <3>2, <3>3, <3>4, Undertakes
  <2>17. CASE doc # page[t].replica.doc
    <3>1. PICK q : q = [p EXCEPT !.socketAt = "merged", !.socketOn = k] OBVIOUS
    <3>2. q \in WorkerPages /\ SameCore(p, q) /\ q.queue = p.queue /\ q.socketAt = "merged"
      BY <2>7, <2>12, <3>1 DEF WorkerPages, SameCore, SocketStages
    <3>3. page' = [page EXCEPT ![t] = q] /\ tx' = Append(tx, Put(t, "replica", r, "socket"))
          /\ up' = up /\ phase' = phase
      BY <2>6, <2>12, <2>17, <3>1
    <3>4. SocketTypes' BY <1>1, <1>2, <3>3, SocketsKept DEF WorkerTypes, SocketTypes
    <3>5. q \in WorkerPages' BY <1>1, <2>14, <3>2, TypesGrow
    <3>6. PICK w : w = Put(t, "replica", r, "socket") OBVIOUS
    <3>7. w \in Puts /\ Entry(w, t, "socket") /\ w.value = r
      BY <2>10, <3>6 DEF Put, Puts, ReplicaPuts, Entry, WorkerQueues
    <3> QED BY <2>16, <3>2, <3>3, <3>4, <3>5, <3>6, <3>7
  <2>18. CASE doc = page[t].replica.doc
    <3>1. AfterMerge(t, p, k, tx) /\ phase' = phase BY <2>6, <2>18
    <3>2. /\ SocketTypes'
          /\ \E q \in WorkerPages' :
               /\ page' = [page EXCEPT ![t] = q] /\ SameCore(p, q) /\ q.queue = p.queue
               /\ \/ q.socketAt = "idle" /\ tx' = tx
                  \/ /\ q.socketAt = "clean"
                     /\ \E w \in SettingsPuts : Entry(w, t, "socket") /\ tx' = Append(tx, w)
      BY <1>1, <1>2, <2>7, <2>12, <3>1, Merged
    <3>3. PICK q \in WorkerPages' :
               /\ page' = [page EXCEPT ![t] = q] /\ SameCore(p, q) /\ q.queue = p.queue
               /\ \/ q.socketAt = "idle" /\ tx' = tx
                  \/ /\ q.socketAt = "clean"
                     /\ \E w \in SettingsPuts : Entry(w, t, "socket") /\ tx' = Append(tx, w)
      BY <3>2
    <3>4. CASE q.socketAt = "idle" /\ tx' = tx
      <4>1. SameCore(page[t], q) BY <1>2, <2>10, <2>12, <2>18, <3>3 DEF SameCore
      <4>2. HostsIn(page[t].queue, page[t].replica.ws, srv.ws) => HostsIn(q.queue, q.replica.ws, srv.ws)
        BY <2>10, <2>13, <3>3, <4>1 DEF SameCore
      <4> HIDE DEF SameCore, HostsIn
      <4> QED BY <1>2, <2>14, <2>15, <3>2, <3>3, <3>4, <4>1, <4>2, Quietly
    <3>5. ASSUME q.socketAt = "clean", NEW w \in SettingsPuts, Entry(w, t, "socket"), tx' = Append(tx, w)
          PROVE  WorkerIInv'
      <4>1. w \in Puts /\ w.store # "replica" BY DEF Puts, SettingsPuts
      <4> QED BY <2>16, <3>2, <3>3, <3>5, <4>1
    <3> QED BY <3>3, <3>4, <3>5
  <2> QED BY <2>17, <2>18
<1> QED BY <1>3, <1>4, <1>6 DEF ReceiveSyncMessage

-----------------------------------------------------------------------------
\* Handlers that go on, or fail, when their transaction ends.
LEMMA AwaitedBy ==
    ASSUME WorkerIInv, NEW n \in 1 .. Len(tx)
    PROVE  /\ tx[n].tab \in Tab /\ tx[n].by \in WorkerQueues /\ Entry(tx[n], tx[n].tab, tx[n].by)
           /\ Busy(page[tx[n].tab], tx[n].by) /\ page[tx[n].tab].running
           /\ page[tx[n].tab] \in WorkerPages /\ PageOK(page[tx[n].tab])
<1>1. WorkerTypes /\ Awaits(page, tx) BY DEF WorkerIInv
<1>2. tx[n] \in Puts BY <1>1 DEF WorkerTypes
<1>3. tx[n].tab \in Tab /\ tx[n].by \in WorkerQueues BY <1>2 DEF Puts, SettingsPuts, ReplicaPuts
<1>4. Entry(tx[n], tx[n].tab, tx[n].by) BY DEF Entry
<1>5. Busy(page[tx[n].tab], tx[n].by) BY <1>1, <1>3, <1>4 DEF Awaits
<1>6. PageOK(page[tx[n].tab]) /\ page[tx[n].tab] \in WorkerPages
  BY <1>1, <1>3 DEF Awaits, WorkerTypes
<1>7. page[tx[n].tab].running BY <1>5, <1>6 DEF PageOK, Busy, Blank
<1> QED BY <1>3, <1>4, <1>5, <1>6, <1>7

LEMMA RequestEnds ==
    ASSUME WorkerIInv, NEW n \in 1 .. Len(tx), Completes(n), tx[n].by = "request",
           RequestResumes(tx[n].tab, n)
    PROVE  WorkerIInv'
<1>0. PICK t : t = tx[n].tab OBVIOUS
<1>1. /\ t \in Tab /\ Entry(tx[n], t, "request") /\ page[t].running /\ page[t] \in WorkerPages
      /\ PageOK(page[t]) /\ WorkerTypes /\ "request" \in WorkerQueues
  BY <1>0, AwaitedBy DEF WorkerIInv, WorkerQueues
<1>2. /\ Oldest(n) /\ db' = Committed(db, tx[n])
      /\ UNCHANGED <<srv, made, info, refused, drawn, budget>>
  BY DEF Completes, history
<1>3. PICK done : done = [page[t] EXCEPT !.requestAt = "idle", !.requestFor = 0] OBVIOUS
<1>4. /\ done \in WorkerPages /\ SameReplica(page[t], done) /\ done.requestAt = "idle"
      /\ done.queue = page[t].queue /\ done.socketAt = page[t].socketAt
  <2>1. 0 \in 0 .. made BY <1>1, ConstantsAssumption DEF WorkerTypes
  <2> QED BY <1>1, <1>3, <2>1 DEF WorkerPages, SameReplica, RequestStages
<1>5. budget' \in Budget BY <1>1, <1>2 DEF WorkerTypes
<1>6. ASSUME NEW q \in WorkerPages', page' = [page EXCEPT ![t] = q], Grows, SocketTypes',
             SameReplica(page[t], q), q.queue = page[t].queue, q.socketAt = page[t].socketAt,
             \/ q.requestAt = "idle" /\ tx' = Without(tx, n)
             \/ /\ q.requestAt = "settings" /\ page[t].requestAt = "replica"
                /\ q.requestFor = page[t].requestFor
                /\ \E w \in SettingsPuts : Entry(w, t, "request") /\ tx' = Append(Without(tx, n), w),
             \/ acked' = acked
             \/ acked' = acked \cup {page[t].requestFor} /\ page[t].requestAt = "settings"
      PROVE  WorkerIInv'
  <2>1. q.running /\ q.running = page[t].running /\ q.replica = page[t].replica
    BY <1>1, <1>6 DEF SameReplica
  <2>2. PageOK(q) BY <1>1, <1>6, <2>1 DEF PageOK
  <2>3. \A c \in WorkerQueues \ {"request"} : Busy(q, c) <=> Busy(page[t], c)
    BY <1>6 DEF WorkerQueues, Busy
  <2>4. Busy(q, "request") <=> q.requestAt # "idle" BY DEF Busy
  <2>5. HostsIn(page[t].queue, page[t].replica.ws, srv.ws) => HostsIn(q.queue, q.replica.ws, srv.ws)
    BY <1>6, <2>1
  <2>6. \/ tx' = Without(tx, n) /\ ~Busy(q, "request")
        \/ \E w \in SettingsPuts : /\ Entry(w, t, "request") /\ Busy(q, "request")
                                   /\ tx' = Append(Without(tx, n), w)
                                   /\ "request" = "request" => q.requestAt # "replica"
    <3>1. CASE q.requestAt = "idle" /\ tx' = Without(tx, n) BY <2>4, <3>1
    <3>2. CASE q.requestAt = "settings"
               /\ \E w \in SettingsPuts : Entry(w, t, "request") /\ tx' = Append(Without(tx, n), w)
      BY <2>4, <3>2
    <3> QED BY <1>6, <3>1, <3>2
  <2>7. /\ q.requestAt \in {"replica", "settings"} => q.requestFor = page[t].requestFor
        /\ q.requestAt # "replica"
        /\ q.requestAt = "settings" => page[t].requestAt = "replica"
    BY <1>6
  <2> HIDE DEF Busy, Entry, PageOK, HostsIn
  <2> QED BY <1>1, <1>2, <1>5, <1>6, <2>1, <2>2, <2>3, <2>5, <2>6, <2>7, Ends
<1>7. CASE /\ page[t].requestAt = "replica"
           /\ IF page[t].settings = NoSettings
              THEN page' = [page EXCEPT ![t] = done] /\ tx' = Without(tx, n)
              ELSE /\ page' = [page EXCEPT ![t].requestAt = "settings"]
                   /\ tx' = Append(Without(tx, n), Put(t, "settings", page[t].settings, "request"))
           /\ UNCHANGED <<sockets, acked>>
  <2>1. UNCHANGED <<phase, up, peer, dialled, acked>> BY <1>7 DEF sockets
  <2>2. Grows BY <1>1, <1>2, <2>1, SameGrows
  <2>3. SocketTypes' BY <1>1, <1>2, <2>1, SocketsKept DEF WorkerTypes, SocketTypes
  <2>4. CASE page' = [page EXCEPT ![t] = done] /\ tx' = Without(tx, n)
    <3>1. done \in WorkerPages' BY <1>1, <1>4, <2>2, TypesGrow
    <3> QED BY <1>4, <1>6, <2>1, <2>2, <2>3, <2>4, <3>1
  <2>5. CASE /\ page' = [page EXCEPT ![t].requestAt = "settings"]
             /\ tx' = Append(Without(tx, n), Put(t, "settings", page[t].settings, "request"))
    <3>1. PICK q : q = [page[t] EXCEPT !.requestAt = "settings"] OBVIOUS
    <3>2. /\ q \in WorkerPages /\ SameReplica(page[t], q) /\ q.requestAt = "settings"
          /\ q.queue = page[t].queue /\ q.socketAt = page[t].socketAt
          /\ q.requestFor = page[t].requestFor
      BY <1>1, <3>1 DEF WorkerPages, SameReplica, RequestStages
    <3>3. q \in WorkerPages' BY <1>1, <2>2, <3>2, TypesGrow
    <3>4. page' = [page EXCEPT ![t] = q] BY <1>1, <2>5, <3>1 DEF WorkerTypes
    <3>5. PICK w : w = Put(t, "settings", page[t].settings, "request") OBVIOUS
    <3>6. w \in SettingsPuts /\ Entry(w, t, "request")
      BY <1>1, <3>5 DEF Put, SettingsPuts, Entry, WorkerPages
    <3>7. \E v \in SettingsPuts : Entry(v, t, "request") /\ tx' = Append(Without(tx, n), v)
      BY <2>5, <3>5, <3>6
    <3> QED BY <1>6, <1>7, <2>1, <2>2, <2>3, <3>2, <3>3, <3>4, <3>7
  <2> QED BY <1>7, <2>4, <2>5
<1>8. CASE /\ page[t].requestAt = "settings"
           /\ page' = [page EXCEPT ![t] = Pumped(done, page[t].current)]
           /\ up' = WireAfter(done, page[t].current)
           /\ acked' = acked \cup {page[t].requestFor}
           /\ tx' = Without(tx, n)
           /\ UNCHANGED <<phase, peer, dialled>>
  <2>1. Grows BY <1>1, <1>2, <1>8, SameGrows
  <2>2. PICK q : q = Pumped(done, page[t].current) OBVIOUS
  <2>3. q \in WorkerPages /\ SameCore(done, q) /\ q.queue = done.queue /\ q.socketAt = done.socketAt
    BY <1>1, <1>4, <2>2, PumpedPage
  <2>4. q \in WorkerPages' BY <1>1, <2>1, <2>3, TypesGrow
  <2>5. /\ SameReplica(page[t], q) /\ q.queue = page[t].queue /\ q.socketAt = page[t].socketAt
        /\ q.requestAt = "idle"
    BY <1>4, <2>3 DEF SameReplica, SameCore
  <2>6. page[t].current \in 0 .. MaxSockets
    <3>1. dialled \in 0 .. MaxSockets /\ MaxSockets \in Nat BY <1>1, ConstantsAssumption DEF WorkerTypes
    <3>2. page[t].current \in 0 .. dialled BY <1>1 DEF WorkerPages
    <3> QED BY <3>1, <3>2
  <2>7. SocketTypes'
    <3>1. up' \in [Socket -> Seq(FramesUp)] BY <1>1, <1>4, <1>8, <2>6, WireType
    <3>2. Seq(FramesUp)' = Seq(FramesUp) BY <1>2 DEF FramesUp, Syncs, Docs
    <3> QED BY <1>1, <1>8, <3>1, <3>2 DEF SocketTypes, WorkerTypes, Peers, SyncStates
  <2>8. page' = [page EXCEPT ![t] = q] BY <1>8, <2>2
  <2> QED BY <1>6, <1>8, <2>1, <2>4, <2>5, <2>7, <2>8
<1>9. CASE ConnectNow(t, done) /\ tx' = Without(tx, n) /\ UNCHANGED acked
  <2>1. /\ Grows /\ SocketTypes'
        /\ \E q \in WorkerPages' : /\ page' = [page EXCEPT ![t] = q] /\ SameCore(done, q)
                                   /\ q.queue = done.queue /\ q.socketAt = done.socketAt
    BY <1>1, <1>2, <1>4, <1>9, Connects
  <2>2. PICK q \in WorkerPages' : /\ page' = [page EXCEPT ![t] = q] /\ SameCore(done, q)
                                   /\ q.queue = done.queue /\ q.socketAt = done.socketAt
    BY <2>1
  <2>3. /\ SameReplica(page[t], q) /\ q.queue = page[t].queue /\ q.socketAt = page[t].socketAt
        /\ q.requestAt = "idle"
    BY <1>4, <2>2 DEF SameReplica, SameCore
  <2> QED BY <1>6, <1>9, <2>1, <2>2, <2>3
<1> QED BY <1>0, <1>3, <1>7, <1>8, <1>9 DEF RequestResumes

LEMMA SocketTurns ==
    ASSUME WorkerIInv, NEW n \in 1 .. Len(tx), Oldest(n), NEW t \in Tab, Entry(tx[n], t, "socket"),
           db' = db \/ db' = Committed(db, tx[n]), Grows, SocketTypes',
           NEW q \in WorkerPages', page' = [page EXCEPT ![t] = q], SameCore(page[t], q),
           \E m \in 0 .. Len(page[t].queue) : q.queue = SubSeq(page[t].queue, 1, m),
           \/ q.socketAt = "idle" /\ tx' = Without(tx, n)
           \/ /\ q.socketAt # "idle"
              /\ \E w \in SettingsPuts : Entry(w, t, "socket") /\ tx' = Append(Without(tx, n), w),
           UNCHANGED <<srv, info, acked, refused, drawn, made>>, budget' \in Budget
    PROVE  WorkerIInv'
<1>0. PICK b : b = "socket" OBVIOUS
<1>1. /\ WorkerTypes /\ PageOK(page[t]) /\ page[t].running /\ b \in WorkerQueues
      /\ Entry(tx[n], t, b) /\ b # "request"
  <2>1. tx[n].tab = t BY DEF Entry
  <2> QED BY <1>0, <2>1, AwaitedBy DEF WorkerIInv, WorkerQueues
<1>2. /\ q.running = page[t].running /\ q.replica = page[t].replica
      /\ q.requestAt = page[t].requestAt /\ q.requestFor = page[t].requestFor
  BY DEF SameCore
<1>3. PageOK(q) /\ \A c \in WorkerQueues \ {b} : Busy(q, c) <=> Busy(page[t], c)
  BY <1>0, <1>1, <1>2 DEF PageOK, WorkerQueues, Busy
<1>4. HostsIn(page[t].queue, page[t].replica.ws, srv.ws) => HostsIn(q.queue, q.replica.ws, srv.ws)
  BY <1>1, <1>2, HostsStay
<1>5. Busy(q, b) <=> q.socketAt # "idle" BY <1>0 DEF Busy
<1>6. \/ tx' = Without(tx, n) /\ ~Busy(q, b)
      \/ \E w \in SettingsPuts : /\ Entry(w, t, b) /\ Busy(q, b) /\ tx' = Append(Without(tx, n), w)
                                 /\ b = "request" => q.requestAt # "replica"
  BY <1>0, <1>1, <1>5
<1>7. /\ q.requestAt \in {"replica", "settings"} => q.requestFor = page[t].requestFor
      /\ q.requestAt = "replica" => page[t].requestAt = "replica"
      /\ q.requestAt = "settings" => page[t].requestAt = "settings"
  BY <1>2
<1> HIDE DEF Busy, Entry, PageOK, HostsIn
<1> QED BY <1>1, <1>2, <1>3, <1>4, <1>6, <1>7, Ends, ZenonT(60)

LEMMA SocketEnds ==
    ASSUME WorkerIInv, NEW n \in 1 .. Len(tx), Completes(n), tx[n].by = "socket",
           SocketResumes(tx[n].tab, n), UNCHANGED <<peer, dialled, acked>>
    PROVE  WorkerIInv'
<1>0. PICK t : t = tx[n].tab OBVIOUS
<1>1. /\ t \in Tab /\ Entry(tx[n], t, "socket") /\ page[t] \in WorkerPages
      /\ WorkerTypes /\ page[t].queue \in Seq(FramesDown) /\ page[t].socketOn \in 0 .. MaxSockets
  <2>1. t \in Tab /\ Entry(tx[n], t, "socket") /\ page[t] \in WorkerPages BY <1>0, AwaitedBy
  <2> QED BY <2>1 DEF WorkerIInv, WorkerPages
<1>2. /\ Oldest(n) /\ db' = Committed(db, tx[n])
      /\ UNCHANGED <<srv, made, info, refused, drawn, budget, peer, dialled, acked>>
  BY DEF Completes, history
<1>3. PICK k : k = page[t].socketOn OBVIOUS
<1>4. Grows BY <1>1, <1>2, SameGrows
<1>5. budget' \in Budget BY <1>1, <1>2 DEF WorkerTypes
<1>6. \E m \in 0 .. Len(page[t].queue) : page[t].queue = SubSeq(page[t].queue, 1, m)
  BY <1>1, WholePrefix
<1>7. CASE AfterMerge(t, page[t], k, Without(tx, n)) /\ UNCHANGED phase
  <2>1. PICK p : p = page[t] OBVIOUS
  <2>2. /\ SocketTypes'
        /\ \E q \in WorkerPages' :
                /\ page' = [page EXCEPT ![t] = q] /\ SameCore(page[t], q) /\ q.queue = page[t].queue
                /\ \/ q.socketAt = "idle" /\ tx' = Without(tx, n)
                   \/ /\ q.socketAt = "clean"
                      /\ \E w \in SettingsPuts : Entry(w, t, "socket") /\ tx' = Append(Without(tx, n), w)
    BY <1>1, <1>2, <1>3, <1>7, Merged
  <2>3. PICK q \in WorkerPages' :
                /\ page' = [page EXCEPT ![t] = q] /\ SameCore(page[t], q) /\ q.queue = page[t].queue
                /\ \/ q.socketAt = "idle" /\ tx' = Without(tx, n)
                   \/ /\ q.socketAt = "clean"
                      /\ \E w \in SettingsPuts : Entry(w, t, "socket") /\ tx' = Append(Without(tx, n), w)
    BY <2>2
  <2>4. \E m \in 0 .. Len(page[t].queue) : q.queue = SubSeq(page[t].queue, 1, m)
    BY <1>6, <2>3
  <2> HIDE DEF SameCore, Entry
  <2> QED BY <1>1, <1>2, <1>4, <1>5, <2>2, <2>3, <2>4, SocketTurns
<1>8. CASE /\ page' = [page EXCEPT ![t].socketAt = "idle", ![t].socketOn = 0]
           /\ tx' = Without(tx, n) /\ UNCHANGED <<phase, up>>
  <2>1. PICK q : q = [page[t] EXCEPT !.socketAt = "idle", !.socketOn = 0] OBVIOUS
  <2>2. /\ q \in WorkerPages /\ SameCore(page[t], q) /\ q.queue = page[t].queue /\ q.socketAt = "idle"
    <3>1. 0 \in 0 .. MaxSockets BY ConstantsAssumption
    <3> QED BY <1>1, <2>1, <3>1 DEF WorkerPages, SameCore, SocketStages
  <2>3. page' = [page EXCEPT ![t] = q] BY <1>1, <1>8, <2>1 DEF WorkerTypes
  <2>4. q \in WorkerPages' BY <1>1, <1>4, <2>2, TypesGrow
  <2>5. SocketTypes' BY <1>1, <1>2, <1>8, SocketsKept DEF WorkerTypes, SocketTypes
  <2>6. \E m \in 0 .. Len(page[t].queue) : q.queue = SubSeq(page[t].queue, 1, m) BY <1>6, <2>2
  <2> HIDE DEF SameCore, Entry
  <2> QED BY <1>1, <1>2, <1>4, <1>5, <1>8, <2>2, <2>3, <2>4, <2>5, <2>6, SocketTurns
<1>9. CASE HandlerFails(t, page[t], k) /\ tx' = Without(tx, n) /\ UNCHANGED up
  <2>1. /\ phase' \in [Socket -> Phases]
        /\ \E q \in WorkerPages' : \E m \in 0 .. Len(page[t].queue) :
              /\ page' = [page EXCEPT ![t] = q] /\ SameCore(page[t], q)
              /\ q.queue = SubSeq(page[t].queue, 1, m) /\ q.socketAt = "idle"
    BY <1>1, <1>2, <1>9, Fails
  <2>2. PICK q \in WorkerPages', m \in 0 .. Len(page[t].queue) :
              /\ page' = [page EXCEPT ![t] = q] /\ SameCore(page[t], q)
              /\ q.queue = SubSeq(page[t].queue, 1, m) /\ q.socketAt = "idle"
    BY <2>1
  <2>3. SocketTypes' BY <1>1, <1>2, <1>9, <2>1, SocketsKept
  <2> HIDE DEF SameCore, Entry
  <2> QED BY <1>1, <1>2, <1>4, <1>5, <1>9, <2>2, <2>3, SocketTurns
<1>10. CASE /\ page' = [page EXCEPT ![t].socketAt = "adopted"]
            /\ tx' = Append(Without(tx, n), Put(t, "settings", page[t].settings, "socket"))
            /\ UNCHANGED <<phase, up>>
  <2>1. PICK q : q = [page[t] EXCEPT !.socketAt = "adopted"] OBVIOUS
  <2>2. /\ q \in WorkerPages /\ SameCore(page[t], q) /\ q.queue = page[t].queue /\ q.socketAt = "adopted"
    BY <1>1, <2>1 DEF WorkerPages, SameCore, SocketStages
  <2>3. page' = [page EXCEPT ![t] = q] BY <1>1, <1>10, <2>1 DEF WorkerTypes
  <2>4. q \in WorkerPages' BY <1>1, <1>4, <2>2, TypesGrow
  <2>5. SocketTypes' BY <1>1, <1>2, <1>10, SocketsKept DEF WorkerTypes, SocketTypes
  <2>6. \E m \in 0 .. Len(page[t].queue) : q.queue = SubSeq(page[t].queue, 1, m) BY <1>6, <2>2
  <2>7. PICK w : w = Put(t, "settings", page[t].settings, "socket") OBVIOUS
  <2>8. w \in SettingsPuts /\ Entry(w, t, "socket")
    BY <1>1, <2>7 DEF Put, SettingsPuts, Entry, WorkerPages, WorkerQueues
  <2>9. \E v \in SettingsPuts : Entry(v, t, "socket") /\ tx' = Append(Without(tx, n), v)
    BY <1>10, <2>7, <2>8
  <2> HIDE DEF SameCore, Entry
  <2> QED BY <1>1, <1>2, <1>4, <1>5, <2>2, <2>3, <2>4, <2>5, <2>6, <2>9, SocketTurns
<1>11. CASE /\ page' = [page EXCEPT ![t] = Pumped(Greeted(page[t]), k)]
            /\ up' = WireAfter(page[t], k)
            /\ tx' = Without(tx, n) /\ UNCHANGED phase
  <2>1. PICK p : p = Greeted(page[t]) OBVIOUS
  <2>2. p \in WorkerPages /\ SameCore(page[t], p) /\ p.queue = page[t].queue /\ p.socketAt = "idle"
    <3>1. 0 \in 0 .. MaxSockets BY ConstantsAssumption
    <3> QED BY <1>1, <2>1, <3>1 DEF Greeted, WorkerPages, SameCore, SocketStages
  <2>3. PICK q : q = Pumped(p, k) OBVIOUS
  <2>4. q \in WorkerPages /\ SameCore(p, q) /\ q.queue = p.queue /\ q.socketAt = p.socketAt
    BY <1>1, <2>2, <2>3, PumpedPage
  <2>5. SameCore(page[t], q) /\ q.queue = page[t].queue /\ q.socketAt = "idle"
    BY <2>2, <2>4 DEF SameCore
  <2>6. q \in WorkerPages' BY <1>1, <1>4, <2>4, TypesGrow
  <2>7. page' = [page EXCEPT ![t] = q] BY <1>11, <2>1, <2>3
  <2>8. SocketTypes'
    <3>1. up' \in [Socket -> Seq(FramesUp)] BY <1>1, <1>3, <1>11, WireType
    <3>2. Seq(FramesUp)' = Seq(FramesUp) BY <1>2 DEF FramesUp, Syncs, Docs
    <3> QED BY <1>1, <1>2, <1>11, <3>1, <3>2 DEF SocketTypes, WorkerTypes, Peers, SyncStates
  <2>9. \E m \in 0 .. Len(page[t].queue) : q.queue = SubSeq(page[t].queue, 1, m) BY <1>6, <2>5
  <2> HIDE DEF SameCore, Entry
  <2> QED BY <1>1, <1>2, <1>4, <1>5, <1>11, <2>5, <2>6, <2>7, <2>8, <2>9, SocketTurns
<1> QED BY <1>0, <1>3, <1>7, <1>8, <1>9, <1>10, <1>11 DEF SocketResumes

LEMMA AbortStep ==
    ASSUME WorkerIInv, NEW n \in 1 .. Len(tx), Aborts(n)
    PROVE  WorkerIInv'
<1>0. PICK t : t = tx[n].tab OBVIOUS
<1>1. /\ t \in Tab /\ Entry(tx[n], t, tx[n].by) /\ page[t] \in WorkerPages /\ page[t].running
      /\ PageOK(page[t]) /\ WorkerTypes
  BY <1>0, AwaitedBy DEF WorkerIInv
<1>2. /\ Oldest(n) /\ tx' = Without(tx, n) /\ budget.failures > 0
      /\ budget' = [budget EXCEPT !.failures = @ - 1]
      /\ UNCHANGED <<db, up, peer, dialled, srv, made, info, acked, refused, drawn>>
  BY DEF Aborts, history, ghosts
<1>3. Grows BY <1>1, <1>2, SameGrows
<1>4. budget' \in Budget BY <1>1, <1>2, Spends DEF WorkerTypes
<1>5. CASE /\ tx[n].by = "request" /\ UNCHANGED phase
           /\ page' = [page EXCEPT ![t].requestAt = "idle", ![t].requestFor = 0]
  <2>1. PICK q : q = [page[t] EXCEPT !.requestAt = "idle", !.requestFor = 0] OBVIOUS
  <2>2. /\ q \in WorkerPages /\ q.running = page[t].running /\ q.replica = page[t].replica
        /\ q.requestAt = "idle" /\ q.queue = page[t].queue /\ q.socketAt = page[t].socketAt
    <3>1. 0 \in 0 .. made BY <1>1, ConstantsAssumption DEF WorkerTypes
    <3> QED BY <1>1, <2>1, <3>1 DEF WorkerPages, RequestStages
  <2>3. page' = [page EXCEPT ![t] = q] BY <1>1, <1>5, <2>1 DEF WorkerTypes
  <2>4. q \in WorkerPages' BY <1>1, <1>3, <2>2, TypesGrow
  <2>5. SocketTypes' BY <1>1, <1>2, <1>5, SocketsKept DEF WorkerTypes, SocketTypes
  <2>6. "request" \in WorkerQueues /\ ~Busy(q, "request") /\ PageOK(q)
        /\ \A c \in WorkerQueues \ {"request"} : Busy(q, c) <=> Busy(page[t], c)
    BY <1>1, <2>2 DEF WorkerQueues, Busy, PageOK
  <2>7. HostsIn(page[t].queue, page[t].replica.ws, srv.ws) => HostsIn(q.queue, q.replica.ws, srv.ws)
    BY <2>2
  <2>8. q.requestAt \notin {"replica", "settings"} BY <2>2
  <2>9. Entry(tx[n], t, "request") BY <1>1, <1>5
  <2> HIDE DEF Busy, Entry, PageOK, HostsIn
  <2> QED BY <1>1, <1>2, <1>3, <1>4, <2>2, <2>3, <2>4, <2>5, <2>6, <2>7, <2>8, <2>9, Ends
<1>6. CASE tx[n].by = "socket" /\ HandlerFails(t, page[t], page[t].socketOn)
  <2>1. /\ phase' \in [Socket -> Phases]
        /\ \E q \in WorkerPages' : \E m \in 0 .. Len(page[t].queue) :
              /\ page' = [page EXCEPT ![t] = q] /\ SameCore(page[t], q)
              /\ q.queue = SubSeq(page[t].queue, 1, m) /\ q.socketAt = "idle"
    BY <1>1, <1>2, <1>6, Fails
  <2>2. PICK q \in WorkerPages', m \in 0 .. Len(page[t].queue) :
              /\ page' = [page EXCEPT ![t] = q] /\ SameCore(page[t], q)
              /\ q.queue = SubSeq(page[t].queue, 1, m) /\ q.socketAt = "idle"
    BY <2>1
  <2>3. SocketTypes' BY <1>1, <1>2, <2>1, SocketsKept
  <2>4. Entry(tx[n], t, "socket") BY <1>1, <1>6
  <2> HIDE DEF SameCore, Entry
  <2> QED BY <1>1, <1>2, <1>3, <1>4, <2>2, <2>3, <2>4, SocketTurns
<1> QED BY <1>0, <1>5, <1>6 DEF Aborts

-----------------------------------------------------------------------------
\* A page that comes, and one that wipes what is stored.
LEMMA BlankPage ==
    ASSUME made \in Nat, dialled \in Nat
    PROVE  Blank \in WorkerPages /\ NoSettings \in SettingsKept /\ NoReplica \in Snapshots
<1>1. NoSettings \in SettingsKept BY DEF NoSettings, SettingsKept
<1>2. NoReplica \in Snapshots BY DEF NoReplica, Snapshots, Docs
<1>3. NewSync \in SyncStates BY DEF NewSync, SyncStates
<1>4. <<>> \in Seq(FramesDown) OBVIOUS
<1>5. 0 \in 0 .. dialled /\ 0 \in 0 .. made /\ 0 \in 0 .. MaxSockets BY ConstantsAssumption
<1> HIDE DEF NoSettings, NoReplica, NewSync
<1> QED BY <1>1, <1>2, <1>3, <1>4, <1>5 DEF Blank, WorkerPages, SocketStages, RequestStages

LEMMA HostsNone == ASSUME NEW lo, NEW hi, lo <= hi PROVE HostsIn(<<>>, lo, hi)
BY DEF HostsIn

\* With one tab, there are no transactions of a page that is not there.
LEMMA NothingUnderWay ==
    ASSUME WorkerIInv, OneTab, NEW t \in Tab, ~page[t].running
    PROVE  tx = <<>>
<1>1. Awaits(page, tx) /\ tx \in Seq(Puts) BY DEF WorkerIInv, WorkerTypes
<1>2. ~Busy(page[t], "request") /\ ~Busy(page[t], "socket")
  BY <1>1 DEF Awaits, PageOK, Blank, Busy
<1>3. ASSUME NEW i \in 1 .. Len(tx) PROVE FALSE
  <2>1. tx[i].tab \in Tab /\ Busy(page[tx[i].tab], tx[i].by) /\ tx[i].by \in WorkerQueues BY AwaitedBy
  <2>2. tx[i].tab = t BY <2>1 DEF OneTab
  <2> QED BY <1>2, <2>1, <2>2 DEF WorkerQueues
<1>4. Len(tx) \in Nat BY <1>1
<1>5. Len(tx) = 0
  <2>1. 1 \notin 1 .. Len(tx) BY <1>3
  <2> QED BY <1>4, <2>1
<1> QED BY <1>1, <1>5

LEMMA LoadStep == ASSUME WorkerIInv, NEW t \in Tab, Load(t) PROVE WorkerIInv'
<1>1. /\ WorkerTypes /\ ~page[t].running /\ page[t] = Blank
      /\ db.settings \in SettingsKept /\ db.replica \in Snapshots
      /\ made \in Nat /\ dialled \in Nat /\ drawn \in Nat
  <2>1. ~page[t].running BY DEF Load
  <2> QED BY <2>1, ConstantsAssumption DEF WorkerIInv, WorkerTypes, Awaits, PageOK, Databases
<1>0. PICK s : s = IF db.settings = NoSettings THEN [NoSettings EXCEPT !.actor = drawn + 1] ELSE db.settings
  OBVIOUS
<1>2. /\ s \in SettingsKept /\ drawn' \in Nat /\ db' = [db EXCEPT !.settings = s]
      /\ \E online \in BOOLEAN :
           ConnectNow(t, [Blank EXCEPT !.running = TRUE, !.token = online,
                                   !.settings = s, !.replica = db.replica])
  <2>1. s \in SettingsKept
    <3>1. drawn + 1 \in Nat /\ NoSettings \in SettingsKept BY <1>1, BlankPage
    <3> HIDE DEF NoSettings
    <3> QED BY <1>0, <1>1, <3>1 DEF SettingsKept
  <2>2. /\ db' = [db EXCEPT !.settings = s]
        /\ \E online \in BOOLEAN :
             ConnectNow(t, [Blank EXCEPT !.running = TRUE, !.token = online,
                                     !.settings = s, !.replica = db.replica])
    BY <1>0 DEF Load
  <2>3. drawn' \in Nat
    <3>1. drawn' = drawn + 1 \/ drawn' = drawn BY DEF Load
    <3> QED BY <1>1, <3>1
  <2> QED BY <2>1, <2>2, <2>3
<1>3. UNCHANGED <<tx, srv, made, info, acked, refused, budget>> BY DEF Load, history, ghosts
<1>4. PICK p : /\ ConnectNow(t, p)
               /\ \E online \in BOOLEAN :
                    p = [Blank EXCEPT !.running = TRUE, !.token = online,
                                  !.settings = s, !.replica = db.replica]
  BY <1>2
<1>5. PICK online \in BOOLEAN : p = [Blank EXCEPT !.running = TRUE, !.token = online,
                                              !.settings = s, !.replica = db.replica]
  BY <1>4
<1>6. Blank \in WorkerPages BY <1>1, BlankPage
<1>7. /\ p \in WorkerPages /\ p.running /\ p.replica = db.replica /\ p.queue = <<>>
      /\ p.socketAt = "idle" /\ p.requestAt = "idle"
  <2>1. Blank.queue = <<>> /\ Blank.socketAt = "idle" /\ Blank.requestAt = "idle" BY DEF Blank
  <2>2. PICK z : z = Blank OBVIOUS
  <2>3. z \in WorkerPages /\ z.queue = <<>> /\ z.socketAt = "idle" /\ z.requestAt = "idle"
    BY <1>6, <2>1, <2>2
  <2>4. p = [z EXCEPT !.running = TRUE, !.token = online, !.settings = s, !.replica = db.replica]
    BY <1>5, <2>2
  <2>5. s \in SettingsKept /\ db.replica \in Snapshots BY <1>1, <1>2
  <2> QED BY <2>3, <2>4, <2>5 DEF WorkerPages
<1>8. /\ Grows /\ SocketTypes'
      /\ \E q \in WorkerPages' : /\ page' = [page EXCEPT ![t] = q] /\ SameCore(p, q)
                                 /\ q.queue = p.queue /\ q.socketAt = p.socketAt
  BY <1>1, <1>3, <1>4, <1>7, Connects
<1>9. PICK q \in WorkerPages' : /\ page' = [page EXCEPT ![t] = q] /\ SameCore(p, q)
                                /\ q.queue = p.queue /\ q.socketAt = p.socketAt
  BY <1>8
<1>10. /\ q.running /\ q.replica = db.replica /\ q.requestAt = "idle" /\ q.queue = <<>>
       /\ q.socketAt = "idle"
  BY <1>7, <1>9 DEF SameCore
<1>11. Awaits(page', tx')
  <2>1. page \in [Tab -> WorkerPages'] BY <1>1, <1>8, ValuesGrow
  <2>2. page'[t] = q /\ \A u \in Tab \ {t} : page'[u] = page[u] BY <1>9, <2>1
  <2>3. Turns(page, page', t, "none")
    BY <1>1, <1>10, <2>2 DEF Turns, PageOK, Busy, Blank
  <2>4. Awaits(page, tx) BY DEF WorkerIInv
  <2> QED BY <1>3, <2>3, <2>4, AwaitsStill
<1>12. db' \in Databases' /\ db'.replica = db.replica
  <2>1. db' \in Databases /\ db'.replica = db.replica BY <1>1, <1>2 DEF WorkerTypes, Databases
  <2> QED BY <1>1, <1>8, <2>1, TypesGrow
<1>13. ASSUME OneTab, Safe(db.replica, tx, page[t], srv.ws, acked, info)
       PROVE  Safe(db.replica', tx', q, srv.ws', acked', info')
  <2>1. tx = <<>> BY <1>1, <1>13, NothingUnderWay
  <2>2. Chain(db.replica, tx, db.replica)
    <3>1. Leq(db.replica, db.replica) BY <1>1, AnyTypes, LeqOrders
    <3> QED BY <2>1, <3>1 DEF Chain
  <2>3. db.replica.ws <= srv.ws BY <1>13 DEF Safe
  <2>4. HostsIn(q.queue, q.replica.ws, srv.ws) BY <1>10, <2>3, HostsNone
  <2>5. Answered(db.replica, tx, q, acked, info) BY <1>10, <1>13 DEF Safe, Answered
  <2> QED BY <1>3, <1>10, <1>12, <2>2, <2>3, <2>4, <2>5 DEF Safe
<1>14. /\ tx' \in Seq(Puts)' /\ srv' \in Snapshots' /\ InfoTypes' /\ budget' \in Budget
       /\ acked' \subseteq 1 .. made' /\ refused' \subseteq 1 .. made'
  BY <1>1, <1>3, <1>8, ValuesGrow DEF WorkerTypes, InfoTypes
<1> QED BY <1>2, <1>8, <1>9, <1>11, <1>12, <1>13, <1>14, Stepped

LEMMA WipeStep == ASSUME WorkerIInv, NEW t \in Tab, WipeLocalData(t) PROVE WorkerIInv'
<1>1. WorkerTypes /\ Awaits(page, tx) /\ page[t] \in WorkerPages /\ made \in Nat /\ dialled \in Nat
  BY ConstantsAssumption DEF WorkerIInv, WorkerTypes
<1>2. /\ page[t].running /\ page[t].requestAt = "idle" /\ budget.wipes > 0
      /\ budget' = [budget EXCEPT !.wipes = @ - 1]
      /\ phase' = [k \in Socket |->
            IF k = page[t].current /\ phase[k] # "closed" THEN "closing" ELSE phase[k]]
      /\ UNCHANGED <<up, peer, dialled, srv, made, info, refused, drawn>>
  BY DEF WipeLocalData, Ready, history
<1>3. Grows BY <1>1, <1>2, SameGrows
<1>4. SocketTypes'
  <2>1. phase' \in [Socket -> Phases] BY <1>1, <1>2 DEF WorkerTypes, SocketTypes, Phases
  <2> QED BY <1>1, <1>2, <2>1, SocketsKept
<1>5. budget' \in Budget BY <1>1, <1>2, Spends DEF WorkerTypes
<1>6. /\ Blank \in WorkerPages' /\ NoSettings \in SettingsKept /\ NoReplica \in Snapshots'
  BY <1>1, <1>3, BlankPage, TypesGrow
<1>7. srv' \in Snapshots' /\ InfoTypes' /\ refused' \subseteq 1 .. made' /\ drawn' \in Nat
  BY <1>1, <1>2, <1>3, ValuesGrow DEF WorkerTypes, InfoTypes
<1>8. CASE \A u \in Tab \ {t} : ~page[u].running
  <2>1. page' = [page EXCEPT ![t] = Blank] /\ db' = EmptyDb /\ tx' = <<>> /\ acked' = {}
    BY <1>8 DEF WipeLocalData
  <2>2. EmptyDb \in Databases' /\ EmptyDb.replica = NoReplica
    <3> HIDE DEF NoSettings, NoReplica
    <3> QED BY <1>6 DEF EmptyDb, Databases
  <2>3. page'[t] = Blank /\ \A u \in Tab \ {t} : page'[u] = page[u]
    BY <1>1, <2>1 DEF WorkerTypes
  <2>4. \A u \in Tab : page'[u] = Blank BY <1>1, <1>8, <2>3 DEF Awaits, PageOK
  <2>5. Awaits(page', tx')
    <3>1. 1 .. Len(<<>>) = {} OBVIOUS
    <3>2. \A u \in Tab : PageOK(page'[u]) /\ \A b \in WorkerQueues : ~Busy(page'[u], b)
      <4>1. Blank.requestAt = "idle" /\ Blank.socketAt = "idle" BY DEF Blank
      <4> HIDE DEF Blank
      <4> QED BY <2>4, <4>1 DEF PageOK, Busy
    <3> HIDE DEF Busy, PageOK, Blank
    <3> QED BY <2>1, <3>1, <3>2 DEF Awaits
  <2>6. Safe(db.replica', tx', Blank, srv.ws', acked', info')
    <3>1. srv'.ws \in Nat BY <1>7 DEF Snapshots
    <3>2. db'.replica.ws = 0 /\ Blank.replica.ws = 0 /\ Blank.queue = <<>> /\ ~Blank.running
          /\ Blank.requestAt = "idle"
      BY <2>1, <2>2 DEF NoReplica, Blank
    <3>3. HostsIn(Blank.queue, Blank.replica.ws, srv'.ws) BY <3>1, <3>2, HostsNone
    <3>4. Answered(db'.replica, tx', Blank, acked', info') BY <2>1, <3>2 DEF Answered
    <3> QED BY <3>1, <3>2, <3>3, <3>4 DEF Safe
  <2>7. tx' \in Seq(Puts)' /\ acked' \subseteq 1 .. made' BY <2>1
  <2> HIDE DEF EmptyDb, Blank
  <2> QED BY <1>3, <1>4, <1>5, <1>6, <1>7, <2>1, <2>2, <2>5, <2>6, <2>7, Stepped
<1>9. CASE ~\A u \in Tab \ {t} : ~page[u].running
  <2>1. PICK q : q = [page[t] EXCEPT !.timer = FALSE, !.current = 0, !.replica = NoReplica,
                                     !.settings = NoSettings]
    OBVIOUS
  <2>2. page' = [page EXCEPT ![t] = q] /\ UNCHANGED <<db, tx, acked>>
    BY <1>9, <2>1 DEF WipeLocalData
  <2>3. page[t] \in WorkerPages' BY <1>1, <1>3, TypesGrow
  <2>4. /\ q \in WorkerPages' /\ q.running /\ q.requestAt = page[t].requestAt
        /\ q.socketAt = page[t].socketAt
    <3>1. 0 \in 0 .. dialled' BY <1>1, <1>2
    <3> HIDE DEF NoReplica, NoSettings
    <3> QED BY <1>2, <1>6, <2>1, <2>3, <3>1 DEF WorkerPages
  <2>5. Awaits(page', tx')
    <3>1. page'[t] = q /\ \A u \in Tab \ {t} : page'[u] = page[u]
      BY <1>1, <2>2 DEF WorkerTypes
    <3>2. Turns(page, page', t, "none")
      BY <1>2, <2>4, <3>1 DEF Turns, PageOK, Busy
    <3> QED BY <1>1, <2>2, <3>2, AwaitsStill
  <2>6. ~OneTab BY <1>9 DEF OneTab
  <2>7. db' \in Databases' /\ tx' \in Seq(Puts)' /\ acked' \subseteq 1 .. made'
    BY <1>1, <1>3, <2>2, ValuesGrow
  <2> QED BY <1>3, <1>4, <1>5, <1>7, <2>2, <2>4, <2>5, <2>6, <2>7, Stepped
<1> QED BY <1>8, <1>9

-----------------------------------------------------------------------------
\* A page that goes away: what it leaves stored, and what goes on without it.
\* z lists those of the first k of s that are not of t, in the same order.
Others(f, z, s, t, k) ==
    /\ \A m \in 1 .. Len(z) : f[m] \in 1 .. k /\ s[f[m]].tab # t /\ z[m] = s[f[m]]
    /\ \A l, m \in 1 .. Len(z) : l < m => f[l] < f[m]
    /\ \A j \in 1 .. k : s[j].tab # t => \E m \in 1 .. Len(z) : f[m] = j

LEMMA OthersAppend ==
    ASSUME NEW S, NEW s \in Seq(S), NEW z \in Seq(S), NEW t, NEW k \in Nat, k + 1 <= Len(s),
           NEW f, Others(f, z, s, t, k), s[k + 1].tab # t
    PROVE  \E g : Others(g, Append(z, s[k + 1]), s, t, k + 1)
<1> DEFINE y == Append(z, s[k + 1])
           g == [m \in 1 .. (Len(z) + 1) |-> IF m = Len(z) + 1 THEN k + 1 ELSE f[m]]
<1>1. s[k + 1] \in S /\ Len(s) \in Nat BY SMT
<1>2. /\ y \in Seq(S) /\ Len(y) = Len(z) + 1 /\ Len(z) \in Nat /\ y[Len(z) + 1] = s[k + 1]
      /\ \A i \in 1 .. Len(z) : y[i] = z[i]
      /\ \A i \in 1 .. (Len(z) + 1) : i \in 1 .. Len(z) \/ i = Len(z) + 1
  BY <1>1, Appended
<1>3. /\ g[Len(z) + 1] = k + 1 /\ Len(z) + 1 \in 1 .. (Len(z) + 1)
      /\ \A m \in 1 .. Len(z) : g[m] = f[m] /\ m \in 1 .. (Len(z) + 1) /\ m # Len(z) + 1
  BY <1>2
<1> HIDE DEF y, g
<1>4. ASSUME NEW m \in 1 .. Len(y) PROVE g[m] \in 1 .. (k + 1) /\ s[g[m]].tab # t /\ y[m] = s[g[m]]
  <2>1. CASE m \in 1 .. Len(z)
    <3>1. f[m] \in 1 .. k /\ s[f[m]].tab # t /\ z[m] = s[f[m]] BY <2>1 DEF Others
    <3> QED BY <1>2, <1>3, <2>1, <3>1
  <2>2. CASE m = Len(z) + 1 BY <1>2, <1>3, <2>2
  <2> QED BY <1>2, <2>1, <2>2
<1>5. ASSUME NEW l \in 1 .. Len(y), NEW m \in 1 .. Len(y), l < m PROVE g[l] < g[m]
  <2>1. l \in 1 .. Len(z) BY <1>2, <1>5
  <2>2. f[l] \in 1 .. k /\ g[l] = f[l] BY <1>3, <2>1 DEF Others
  <2>3. CASE m \in 1 .. Len(z) BY <1>3, <1>5, <2>1, <2>3 DEF Others
  <2>4. CASE m = Len(z) + 1 BY <1>3, <2>2, <2>4
  <2> QED BY <1>2, <2>3, <2>4
<1>6. ASSUME NEW j \in 1 .. (k + 1), s[j].tab # t PROVE \E m \in 1 .. Len(y) : g[m] = j
  <2>1. CASE j \in 1 .. k
    <3>1. PICK m \in 1 .. Len(z) : f[m] = j BY <1>6, <2>1 DEF Others
    <3> QED BY <1>2, <1>3, <3>1
  <2>2. CASE j = k + 1 BY <1>2, <1>3, <2>2
  <2> QED BY <2>1, <2>2
<1>7. Others(g, y, s, t, k + 1) BY <1>4, <1>5, <1>6 DEF Others
<1> QED BY <1>7 DEF y

LEMMA OthersGoOn ==
    ASSUME WorkerTypes, NEW t
    PROVE  OfOthers(t) \in Seq(Puts) /\ \E f : Others(f, OfOthers(t), tx, t, Len(tx))
<1> DEFINE n == Len(tx)
           S == Seq(Puts)
           rest[i \in 0 .. n] ==
             IF i = 0 THEN <<>> ELSE IF tx[i].tab # t THEN Append(rest[i - 1], tx[i]) ELSE rest[i - 1]
           F == [x \in (1 .. n) \X S |-> IF tx[x[1]].tab # t THEN Append(x[2], tx[x[1]]) ELSE x[2]]
<1>1. tx \in Seq(Puts) /\ n \in Nat BY DEF WorkerTypes
<1>2. OfOthers(t) = rest[n] BY DEF OfOthers
<1> HIDE DEF n
<1>3. \A i \in 1 .. n : tx[i] \in Puts BY <1>1 DEF n
<1>4. \A i \in 1 .. n, z \in S : Append(z, tx[i]) \in S BY <1>3
<1>5. <<>> \in S OBVIOUS
<1> HIDE DEF S
<1>6. /\ F \in [(1 .. n) \X S -> S]
      /\ \A i \in 1 .. n, z \in S : F[<<i, z>>] = IF tx[i].tab # t THEN Append(z, tx[i]) ELSE z
  BY <1>4
<1> HIDE DEF F
<1>7. ASSUME NEW base \in S PROVE \E f \in [0 .. n -> S] : Recurs(f, base, F, n)
  BY <1>1, <1>6, RecursionExists
<1>8. PICK f \in [0 .. n -> S] : Recurs(f, <<>>, F, n) BY <1>5, <1>7
<1>9. \A i \in 0 .. n : i # 0 =>
        i \in 1 .. n /\ F[<<i, f[i - 1]>>] = IF tx[i].tab # t THEN Append(f[i - 1], tx[i]) ELSE f[i - 1]
  <2>1. \A i \in 0 .. n : i # 0 => i \in 1 .. n /\ i - 1 \in 0 .. n BY <1>1
  <2>2. \A i \in 0 .. n : i # 0 => f[i - 1] \in S BY <1>8, <2>1
  <2> QED BY <1>6, <2>1, <2>2
<1>10. f = [i \in 0 .. n |->
             IF i = 0 THEN <<>> ELSE IF tx[i].tab # t THEN Append(f[i - 1], tx[i]) ELSE f[i - 1]]
  BY <1>8, <1>9 DEF Recurs
<1>11. rest = [i \in 0 .. n |->
             IF i = 0 THEN <<>> ELSE IF tx[i].tab # t THEN Append(rest[i - 1], tx[i]) ELSE rest[i - 1]]
  BY <1>10
<1> HIDE DEF rest
<1> DEFINE Good(k) == rest[k] \in S /\ \E g : Others(g, rest[k], tx, t, k)
           G == {k \in Nat : k <= n => Good(k)}
<1>12. 0 \in G
  <2>1. rest[0] = <<>> BY <1>1, <1>11
  <2>2. Others(<<>>, <<>>, tx, t, 0) BY DEF Others
  <2> QED BY <1>5, <2>1, <2>2
<1>13. ASSUME NEW k \in Nat, k \in G PROVE k + 1 \in G
  <2> SUFFICES ASSUME k + 1 <= n PROVE Good(k + 1)
    OBVIOUS
  <2>1. Good(k) BY <1>1, <1>13
  <2>2. PICK g : Others(g, rest[k], tx, t, k) BY <2>1
  <2>3. rest[k + 1] = IF tx[k + 1].tab # t THEN Append(rest[k], tx[k + 1]) ELSE rest[k]
    <3>1. k + 1 \in 0 .. n /\ k + 1 # 0 /\ (k + 1) - 1 = k BY <1>1
    <3> QED BY <1>11, <3>1
  <2>4. k + 1 \in 1 .. n /\ k + 1 <= Len(tx) BY <1>1 DEF n
  <2>5. CASE tx[k + 1].tab # t
    <3>1. rest[k] \in Seq(Puts) BY <2>1 DEF S
    <3>2. \E h : Others(h, Append(rest[k], tx[k + 1]), tx, t, k + 1)
      BY <1>1, <2>2, <2>4, <2>5, <3>1, OthersAppend
    <3>3. rest[k + 1] = Append(rest[k], tx[k + 1]) BY <2>3, <2>5
    <3>4. rest[k + 1] \in S BY <1>4, <2>1, <2>4, <3>3
    <3> QED BY <3>2, <3>3, <3>4
  <2>6. CASE tx[k + 1].tab = t
    <3>1. rest[k + 1] = rest[k] BY <2>3, <2>6
    <3>2. Others(g, rest[k], tx, t, k + 1) BY <2>2, <2>6 DEF Others
    <3> QED BY <2>1, <3>1, <3>2
  <2> QED BY <2>5, <2>6
<1> HIDE DEF G, Good
<1>14. n \in G BY <1>1, <1>12, <1>13, NatInduct
<1>15. Good(n) BY <1>1, <1>14 DEF G
<1> QED BY <1>2, <1>15 DEF Good, n, S

LEMMA LeftStored ==
    ASSUME WorkerTypes, NEW t, NEW u
    PROVE  /\ LeftBy(t, u) \in Databases
           /\ \/ LeftBy(t, u).replica = db.replica
              \/ \E j \in 1 .. Len(tx) : tx[j].store = "replica" /\ LeftBy(t, u).replica = tx[j].value
           /\ \/ LeftBy(t, u).settings = db.settings
              \/ \E j \in 1 .. Len(tx) : tx[j].store = "settings" /\ LeftBy(t, u).settings = tx[j].value
<1> DEFINE n == Len(tx)
           S == Databases
           kept == {i \in Mine(t) : i <= u}
           after[i \in 0 .. n] ==
             IF i = 0 THEN db ELSE IF i \in kept THEN Committed(after[i - 1], tx[i]) ELSE after[i - 1]
           F == [x \in (1 .. n) \X S |-> IF x[1] \in kept THEN Committed(x[2], tx[x[1]]) ELSE x[2]]
<1>1. tx \in Seq(Puts) /\ n \in Nat /\ db \in S BY DEF WorkerTypes
<1>2. LeftBy(t, u) = after[n] BY DEF LeftBy
<1> HIDE DEF n, kept
<1>3. ASSUME NEW i \in 1 .. n, NEW d \in S
      PROVE  /\ Committed(d, tx[i]) \in S
             /\ \/ Committed(d, tx[i]).replica = d.replica
                \/ tx[i].store = "replica" /\ Committed(d, tx[i]).replica = tx[i].value
             /\ \/ Committed(d, tx[i]).settings = d.settings
                \/ tx[i].store = "settings" /\ Committed(d, tx[i]).settings = tx[i].value
  <2>1. tx[i] \in Puts BY <1>1 DEF n
  <2>2. CASE tx[i] \in SettingsPuts
    <3>1. tx[i].store = "settings" /\ tx[i].value \in SettingsKept BY <2>2 DEF SettingsPuts
    <3> QED BY <3>1 DEF Committed, Databases
  <2>3. CASE tx[i] \in ReplicaPuts
    <3>1. tx[i].store = "replica" /\ tx[i].value \in Snapshots BY <2>3 DEF ReplicaPuts
    <3> HIDE DEF Snapshots
    <3> QED BY <3>1 DEF Committed, Databases
  <2> QED BY <2>1, <2>2, <2>3 DEF Puts
<1> HIDE DEF S
<1>6. /\ F \in [(1 .. n) \X S -> S]
      /\ \A i \in 1 .. n, d \in S : F[<<i, d>>] = IF i \in kept THEN Committed(d, tx[i]) ELSE d
  BY <1>3
<1> HIDE DEF F
<1>7. ASSUME NEW base \in S PROVE \E f \in [0 .. n -> S] : Recurs(f, base, F, n)
  BY <1>1, <1>6, RecursionExists
<1>8. PICK f \in [0 .. n -> S] : Recurs(f, db, F, n) BY <1>1, <1>7
<1>9. \A i \in 0 .. n : i # 0 =>
        i \in 1 .. n /\ F[<<i, f[i - 1]>>] = IF i \in kept THEN Committed(f[i - 1], tx[i]) ELSE f[i - 1]
  <2>1. \A i \in 0 .. n : i # 0 => i \in 1 .. n /\ i - 1 \in 0 .. n BY <1>1
  <2>2. \A i \in 0 .. n : i # 0 => f[i - 1] \in S BY <1>8, <2>1
  <2> QED BY <1>6, <2>1, <2>2
<1>10. f = [i \in 0 .. n |->
             IF i = 0 THEN db ELSE IF i \in kept THEN Committed(f[i - 1], tx[i]) ELSE f[i - 1]]
  BY <1>8, <1>9 DEF Recurs
<1>11. after = [i \in 0 .. n |->
             IF i = 0 THEN db ELSE IF i \in kept THEN Committed(after[i - 1], tx[i]) ELSE after[i - 1]]
  BY <1>10
<1> HIDE DEF after
<1> DEFINE Good(k) ==
             /\ after[k] \in S
             /\ \/ after[k].replica = db.replica
                \/ \E j \in 1 .. n : tx[j].store = "replica" /\ after[k].replica = tx[j].value
             /\ \/ after[k].settings = db.settings
                \/ \E j \in 1 .. n : tx[j].store = "settings" /\ after[k].settings = tx[j].value
           G == {k \in Nat : k <= n => Good(k)}
<1>12. 0 \in G
  <2>1. after[0] = db BY <1>1, <1>11
  <2> QED BY <1>1, <2>1
<1>13. ASSUME NEW k \in Nat, k \in G PROVE k + 1 \in G
  <2> SUFFICES ASSUME k + 1 <= n PROVE Good(k + 1)
    OBVIOUS
  <2>1. Good(k) BY <1>1, <1>13
  <2>2. k + 1 \in 1 .. n BY <1>1
  <2>3. after[k + 1] = IF k + 1 \in kept THEN Committed(after[k], tx[k + 1]) ELSE after[k]
    <3>1. k + 1 \in 0 .. n /\ k + 1 # 0 /\ (k + 1) - 1 = k BY <1>1
    <3> QED BY <1>11, <3>1
  <2>4. CASE k + 1 \in kept
    <3>1. after[k + 1] = Committed(after[k], tx[k + 1]) BY <2>3, <2>4
    <3>2. /\ Committed(after[k], tx[k + 1]) \in S
          /\ \/ Committed(after[k], tx[k + 1]).replica = after[k].replica
             \/ /\ tx[k + 1].store = "replica"
                /\ Committed(after[k], tx[k + 1]).replica = tx[k + 1].value
          /\ \/ Committed(after[k], tx[k + 1]).settings = after[k].settings
             \/ /\ tx[k + 1].store = "settings"
                /\ Committed(after[k], tx[k + 1]).settings = tx[k + 1].value
      BY <1>3, <2>1, <2>2
    <3> QED BY <2>1, <2>2, <3>1, <3>2
  <2>5. CASE k + 1 \notin kept BY <2>1, <2>3, <2>5
  <2> QED BY <2>4, <2>5
<1> HIDE DEF G, Good
<1>14. n \in G BY <1>1, <1>12, <1>13, NatInduct
<1>15. Good(n) BY <1>1, <1>14 DEF G
<1> QED BY <1>2, <1>15 DEF Good, n, S

LEMMA UnloadStep == ASSUME WorkerIInv, NEW t \in Tab, Unload(t) PROVE WorkerIInv'
<1>1. WorkerTypes /\ Awaits(page, tx) /\ page[t] \in WorkerPages /\ made \in Nat /\ dialled \in Nat
  BY ConstantsAssumption DEF WorkerIInv, WorkerTypes
<1>2. /\ page[t].running /\ budget.unloads > 0 /\ budget' = [budget EXCEPT !.unloads = @ - 1]
      /\ page' = [page EXCEPT ![t] = Blank]
      /\ tx' = OfOthers(t)
      /\ phase' = [k \in Socket |-> IF Owns(t, k) /\ phase[k] # "closed" THEN "closing" ELSE phase[k]]
      /\ UNCHANGED <<up, peer, dialled, srv, made, info, acked, refused, drawn>>
  BY DEF Unload, history, ghosts
<1>3. PICK u \in 0 .. Len(tx) : db' = LeftBy(t, u) BY DEF Unload
<1>4. Grows BY <1>1, <1>2, SameGrows
<1>5. SocketTypes'
  <2>1. phase' \in [Socket -> Phases] BY <1>1, <1>2 DEF WorkerTypes, SocketTypes, Phases
  <2> QED BY <1>1, <1>2, <2>1, SocketsKept
<1>6. budget' \in Budget BY <1>1, <1>2, Spends DEF WorkerTypes
<1>7. Blank \in WorkerPages' BY <1>1, <1>4, BlankPage, TypesGrow
<1>8. /\ srv' \in Snapshots' /\ InfoTypes' /\ refused' \subseteq 1 .. made' /\ drawn' \in Nat
      /\ acked' \subseteq 1 .. made'
  BY <1>1, <1>2, <1>4, ValuesGrow DEF WorkerTypes, InfoTypes
<1>9. /\ db' \in Databases' /\ db' \in Databases
      /\ \/ db'.replica = db.replica
         \/ \E j \in 1 .. Len(tx) : tx[j].store = "replica" /\ db'.replica = tx[j].value
  <2>1. /\ db' \in Databases
        /\ \/ db'.replica = db.replica
           \/ \E j \in 1 .. Len(tx) : tx[j].store = "replica" /\ db'.replica = tx[j].value
    BY <1>1, <1>3, LeftStored
  <2> QED BY <1>1, <1>4, <2>1, TypesGrow
<1>10. tx' \in Seq(Puts) /\ tx' \in Seq(Puts)'
  <2>1. tx' \in Seq(Puts) BY <1>1, <1>2, OthersGoOn
  <2>2. Puts \subseteq Puts' BY <1>1, <1>4, TypesGrow
  <2> QED BY <2>1, <2>2, LongerSeq
<1>11. PICK f : Others(f, tx', tx, t, Len(tx)) BY <1>1, <1>2, OthersGoOn
<1>12. /\ \A m \in 1 .. Len(tx') : f[m] \in 1 .. Len(tx) /\ tx[f[m]].tab # t /\ tx'[m] = tx[f[m]]
       /\ \A l, m \in 1 .. Len(tx') : l < m => f[l] < f[m]
       /\ \A j \in 1 .. Len(tx) : tx[j].tab # t => \E m \in 1 .. Len(tx') : f[m] = j
       /\ Len(tx') \in Nat
  BY <1>10, <1>11 DEF Others
<1>13. page'[t] = Blank /\ \A v \in Tab \ {t} : page'[v] = page[v]
  BY <1>1, <1>2 DEF WorkerTypes
<1>14. Awaits(page', tx')
  <2>1. ASSUME NEW i \in 1 .. Len(tx'), NEW j \in 1 .. Len(tx'), tx'[i].tab = tx'[j].tab, tx'[i].by = tx'[j].by
        PROVE  i = j
    <3>1. tx[f[i]].tab = tx[f[j]].tab /\ tx[f[i]].by = tx[f[j]].by
          /\ f[i] \in 1 .. Len(tx) /\ f[j] \in 1 .. Len(tx)
      BY <1>12, <2>1
    <3>2. f[i] = f[j] BY <1>1, <3>1 DEF Awaits
    <3>3. ~(i < j) /\ ~(j < i) BY <1>12, <3>1, <3>2
    <3> QED BY <1>12, <3>3
  <2>2. ASSUME NEW v \in Tab, NEW b \in WorkerQueues
        PROVE  Busy(page'[v], b) <=> \E i \in 1 .. Len(tx') : Entry(tx'[i], v, b)
    <3>1. CASE v = t
      <4>1. \A i \in 1 .. Len(tx') : ~Entry(tx'[i], v, b) BY <1>12, <3>1 DEF Entry
      <4>2. ~Busy(page'[v], b) BY <1>13, <3>1 DEF Busy, Blank
      <4> QED BY <4>1, <4>2
    <3>2. CASE v # t
      <4>1. (\E i \in 1 .. Len(tx') : Entry(tx'[i], v, b)) <=> \E i \in 1 .. Len(tx) : Entry(tx[i], v, b)
        <5>1. ASSUME NEW i \in 1 .. Len(tx), Entry(tx[i], v, b)
              PROVE  \E m \in 1 .. Len(tx') : Entry(tx'[m], v, b)
          <6>1. tx[i].tab # t BY <3>2, <5>1 DEF Entry
          <6>2. PICK m \in 1 .. Len(tx') : f[m] = i BY <1>12, <6>1
          <6> QED BY <1>12, <5>1, <6>2
        <5>2. ASSUME NEW m \in 1 .. Len(tx'), Entry(tx'[m], v, b)
              PROVE  \E i \in 1 .. Len(tx) : Entry(tx[i], v, b)
          BY <1>12, <5>2
        <5> QED BY <5>1, <5>2
      <4> QED BY <1>1, <1>13, <3>2, <4>1 DEF Awaits
    <3> QED BY <3>1, <3>2
  <2>3. \A v \in Tab : PageOK(page'[v])
    <3>1. PageOK(Blank) BY DEF PageOK, Blank
    <3> QED BY <1>1, <1>13, <3>1 DEF Awaits
  <2> QED BY <2>1, <2>2, <2>3 DEF Awaits
<1>15. ASSUME OneTab, Safe(db.replica, tx, page[t], srv.ws, acked, info)
       PROVE  Safe(db.replica', tx', Blank, srv.ws', acked', info')
  <2>1. /\ db.replica \in Replicas /\ db'.replica \in Replicas /\ page[t].replica \in Replicas
    BY <1>1, <1>9, AnyTypes DEF WorkerTypes, Databases, WorkerPages
  <2>2. Chain(db.replica, tx, page[t].replica) BY <1>2, <1>15 DEF Safe
  <2>3. Leq(db.replica, db'.replica) /\ Leq(db'.replica, page[t].replica)
    <3>1. CASE db'.replica = db.replica
      <4>1. Leq(db.replica, db.replica) BY <2>1, LeqOrders
      <4> QED BY <2>2, <3>1, <4>1 DEF Chain
    <3>2. ASSUME NEW j \in 1 .. Len(tx), tx[j].store = "replica", db'.replica = tx[j].value
          PROVE  Leq(db.replica, db'.replica) /\ Leq(db'.replica, page[t].replica)
      BY <2>2, <3>2 DEF Chain
    <3> QED BY <1>9, <3>1, <3>2
  <2>4. srv.ws \in Nat /\ db'.replica.ws \in Nat /\ page[t].replica.ws \in Nat
    BY <1>1, <2>1 DEF WorkerTypes, Snapshots, Replicas
  <2>5. db'.replica.ws <= srv.ws
    <3>1. db'.replica.ws <= page[t].replica.ws BY <2>3, <2>4 DEF Leq
    <3>2. page[t].replica.ws <= srv.ws BY <1>15 DEF Safe, HostsIn
    <3> QED BY <2>4, <3>1, <3>2
  <2>6. \A c \in acked : Keeps(db'.replica, c, info[c].ws)
    <3>1. ASSUME NEW c \in acked PROVE Keeps(db'.replica, c, info[c].ws)
      <4>1. Keeps(db.replica, c, info[c].ws) BY <1>15 DEF Safe, Answered
      <4>2. c \in Change
        <5>1. acked \subseteq 1 .. made /\ made \in 0 .. MaxChanges /\ MaxChanges \in Nat
          BY <1>1, ConstantsAssumption DEF WorkerTypes
        <5> QED BY <5>1 DEF Change
      <4>3. info[c].ws \in Nat BY <1>1, <4>2 DEF WorkerTypes, InfoTypes
      <4> QED BY <2>1, <2>3, <4>1, <4>3, KeepsOn
    <3> QED BY <3>1
  <2>7. Blank.queue = <<>> /\ Blank.replica.ws = 0 /\ ~Blank.running /\ Blank.requestAt = "idle"
    BY DEF Blank, NoReplica
  <2>8. HostsIn(Blank.queue, Blank.replica.ws, srv.ws) BY <2>4, <2>7, HostsNone
  <2>9. Answered(db'.replica, tx', Blank, acked', info') BY <1>2, <2>6, <2>7 DEF Answered
  <2> QED BY <1>2, <2>5, <2>7, <2>8, <2>9 DEF Safe
<1> HIDE DEF Blank
<1> QED BY <1>2, <1>4, <1>5, <1>6, <1>7, <1>8, <1>9, <1>10, <1>14, <1>15, Stepped

-----------------------------------------------------------------------------
LEMMA WorkerStarts == ASSUME Init PROVE WorkerIInv
<1>1. /\ budget \in Budgets /\ page = [t \in Tab |-> Blank] /\ tx = <<>>
      /\ phase = [k \in Socket |-> "unused"] /\ up = [k \in Socket |-> <<>>]
      /\ peer = [k \in Socket |-> Waiting] /\ srv.ws = 1 /\ made = Len(Beginnings)
      /\ srv \in {[ws |-> 1, doc |-> Begins(1, Foreign)], Enrolled.replica}
      /\ info = [c \in Change |-> IF c \in Firsts THEN Beginnings[c]
                                 ELSE [ws |-> 0, actor |-> 0, seq |-> 0, past |-> {}]]
      /\ acked = {} /\ refused = {} /\ dialled = 0
      /\ db \in {Enrolled, EmptyDb} /\ drawn \in Nat
  <2>1. Enrolled.replica.ws = 1 BY DEF Enrolled
  <2> QED BY <2>1 DEF Init
<1>2. /\ Blank \in WorkerPages /\ NoSettings \in SettingsKept /\ NoReplica \in Snapshots
      /\ made \in 0 .. MaxChanges /\ dialled \in 0 .. MaxSockets
  <2>1. /\ made \in Nat /\ made <= MaxChanges /\ dialled \in Nat /\ MaxChanges \in Nat
        /\ MaxSockets \in Nat
    BY <1>1, Numbering, ConstantsAssumption
  <2> QED BY <1>1, <2>1, BlankPage
<1>3. db \in Databases /\ db.replica.ws <= 1
  <2>1. EmptyDb \in Databases /\ EmptyDb.replica.ws <= 1
    BY <1>2 DEF EmptyDb, Databases, NoReplica
  <2>2. Enrolled \in Databases /\ Enrolled.replica.ws <= 1
    <3>1. Firsts \subseteq 1 .. made BY <1>1 DEF Firsts
    <3>2. Begins(1, 1) \cup Begins(1, Foreign) \in Docs BY <3>1 DEF Begins, Docs
    <3> QED BY <3>2 DEF Enrolled, Databases, SettingsKept, Snapshots
  <2> HIDE DEF EmptyDb, Enrolled, Databases
  <2> QED BY <1>1, <2>1, <2>2
<1>4. SocketTypes
  <2>1. Waiting \in Peers BY DEF Waiting, Peers, NewSync, SyncStates
  <2> QED BY <1>1, <2>1 DEF SocketTypes, Phases
<1>5. InfoTypes BY <1>1, Numbering DEF InfoTypes
<1>6. srv \in Snapshots
  <2>1. Firsts \subseteq 1 .. made BY <1>1 DEF Firsts
  <2>2. Begins(1, 1) \in Docs /\ Begins(1, Foreign) \in Docs BY <2>1 DEF Begins, Docs
  <2>3. Begins(1, 1) \cup Begins(1, Foreign) \in Docs BY <2>2 DEF Docs
  <2>4. [ws |-> 1, doc |-> Begins(1, Foreign)] \in Snapshots BY <2>2 DEF Snapshots
  <2>5. Enrolled.replica = [ws |-> 1, doc |-> Begins(1, 1) \cup Begins(1, Foreign)] BY DEF Enrolled
  <2>6. [ws |-> 1, doc |-> Begins(1, 1) \cup Begins(1, Foreign)] \in Snapshots
    BY <2>3 DEF Snapshots
  <2>7. Enrolled.replica \in Snapshots BY <2>5, <2>6
  <2> HIDE DEF Snapshots, Enrolled
  <2> QED BY <1>1, <2>4, <2>7
<1>7. budget \in Budget BY <1>1, ConstantsAssumption
<1>8. WorkerTypes
  <2>1. page \in [Tab -> WorkerPages] BY <1>1, <1>2
  <2>2. tx \in Seq(Puts) BY <1>1
  <2> QED BY <1>1, <1>2, <1>3, <1>4, <1>5, <1>6, <1>7, <2>1, <2>2 DEF WorkerTypes
<1>9. \A t \in Tab : page[t] = Blank BY <1>1
<1>10. /\ Blank.requestAt = "idle" /\ Blank.socketAt = "idle" /\ ~Blank.running
       /\ Blank.queue = <<>> /\ Blank.replica.ws = 0
  BY DEF Blank, NoReplica
<1> HIDE DEF Blank
<1>11. Awaits(page, tx)
  <2>1. 1 .. Len(<<>>) = {} OBVIOUS
  <2>2. \A t \in Tab : PageOK(page[t]) /\ \A b \in WorkerQueues : ~Busy(page[t], b)
    BY <1>9, <1>10 DEF PageOK, Busy
  <2> HIDE DEF Busy, PageOK
  <2> QED BY <1>1, <2>1, <2>2 DEF Awaits
<1>12. Kept
  <2>1. ASSUME NEW t \in Tab PROVE Safe(db.replica, tx, page[t], srv.ws, acked, info)
    <3>1. HostsIn(page[t].queue, page[t].replica.ws, srv.ws) BY <1>1, <1>9, <1>10, HostsNone
    <3>2. Answered(db.replica, tx, page[t], acked, info) BY <1>1, <1>9, <1>10 DEF Answered
    <3> QED BY <1>1, <1>3, <1>9, <1>10, <3>1, <3>2 DEF Safe
  <2> QED BY <2>1 DEF Kept
<1> QED BY <1>8, <1>11, <1>12 DEF WorkerIInv

LEMMA WorkerSteps == ASSUME WorkerIInv, [Next]_vars PROVE WorkerIInv'
<1>1. CASE UNCHANGED vars
  <2>1. /\ UNCHANGED <<page, db, tx, acked, drawn, made, dialled, phase, up, peer, srv, info, refused, budget>>
    BY <1>1 DEF vars, sockets, history, ghosts
  <2>2. WorkerTypes BY DEF WorkerIInv
  <2>3. Grows /\ SocketTypes' BY <2>1, <2>2, SameGrows, SocketsKept DEF WorkerTypes, SocketTypes
  <2>4. InfoKept /\ srv' \in Snapshots' /\ srv.ws <= srv'.ws /\ refused' \subseteq 1 .. made' /\ budget' \in Budget
    <3>1. srv.ws \in Nat BY <2>2 DEF WorkerTypes, Snapshots
    <3> QED BY <2>1, <2>2, <3>1 DEF WorkerTypes, InfoKept, InfoTypes, Snapshots, Docs
  <2> QED BY <2>1, <2>3, <2>4, Elsewhere
<1>2. ASSUME NEW t \in Tab, Request(t) \/ HandleFrame(t) \/ ReconnectTimer(t) \/ Unload(t)
      PROVE  WorkerIInv'
  BY <1>2, LoadStep, ConnectSteps, SetClientIdStep, PumpSteps, PutWritesStep, WipeStep,
     HelloAdoptsStep, ReceiveSyncMessageStep, UnloadStep
  DEF Request, HandleFrame
<1>3. ASSUME NEW n \in 1 .. Len(tx), Completes(n) \/ Aborts(n) PROVE WorkerIInv'
  <2>1. CASE Completes(n) BY <2>1, RequestEnds, SocketEnds DEF Completes
  <2> QED BY <1>3, <2>1, AbortStep
<1>4. ASSUME NEW k \in Socket, SocketEvent(k) \/ ServerTask(k) PROVE WorkerIInv'
  <2>1. CASE SocketClosed(k)
    <3>1. \/ \E t \in Tab : Owns(t, k) /\ Disconnected(t, k)
          \/ UNCHANGED page
      BY <2>1 DEF SocketClosed
    <3> QED BY <2>1, <3>1, CloseSteps, SocketSteps
  <2>2. CASE \E t \in Tab : SocketBreaks(t, k) BY <2>2, CloseSteps
  <2>3. CASE SocketOpens(k) \/ ServerReceives(k) \/ ServerEnds(k) BY <2>3, SocketSteps
  <2>4. CASE ServerGreets(k) \/ ServerSends(k) BY <2>4, DeliverSteps
  <2> QED BY <1>4, <2>1, <2>2, <2>3, <2>4 DEF SocketEvent, ServerTask
<1> QED BY <1>1, <1>2, <1>3, <1>4, ServerSteps DEF Next, Transaction

LEMMA AtMostOne ==
    ASSUME NEW S, \A x, y \in S : x = y
    PROVE  Cardinality(S) = IF S = {} THEN 0 ELSE 1
<1>1. CASE S = {} BY <1>1, FS_EmptySet
<1>2. CASE S # {}
  <2>1. PICK x \in S : S = {x} BY <1>2
  <2> QED BY <1>2, <2>1, FS_Singleton
<1> QED BY <1>1, <1>2

LEMMA WorkerTyped == ASSUME WorkerIInv PROVE TypeOK
<1>1. WorkerTypes /\ Awaits(page, tx) BY DEF WorkerIInv
<1>2. \A t \in Tab : /\ page[t].replica.doc \subseteq 1..made
                     /\ page[t].current \in 0..dialled
                     /\ page[t].connection \in {"offline", "connecting", "connected"}
                     /\ page[t].socketAt \in {"idle", "merged", "clean", "adopt", "adopted"}
                     /\ page[t].requestAt \in {"idle", "name", "replica", "settings"}
  <2>1. ASSUME NEW t \in Tab PROVE page[t] \in WorkerPages BY <1>1 DEF WorkerTypes
  <2> QED BY <2>1 DEF WorkerPages, Snapshots, Docs, SocketStages, RequestStages
<1>3. db.replica.doc \subseteq 1..made /\ srv.doc \subseteq 1..made
  BY <1>1 DEF WorkerTypes, Databases, Snapshots, Docs
<1>4. /\ phase \in [Socket -> {"unused", "connecting", "open", "closing", "closed"}]
      /\ acked \subseteq 1..made /\ refused \subseteq 1..made /\ budget \in Budget
  BY <1>1 DEF WorkerTypes, SocketTypes, Phases
<1>5. ASSUME NEW t \in Tab, NEW b \in WorkerQueues
      PROVE  Cardinality({n \in Mine(t) : tx[n].by = b}) = IF Busy(page[t], b) THEN 1 ELSE 0
  <2> DEFINE S == {n \in Mine(t) : tx[n].by = b}
  <2>1. \A x \in S : x \in 1 .. Len(tx) /\ Entry(tx[x], t, b) BY DEF Mine, Entry
  <2>2. \A x \in 1 .. Len(tx) : Entry(tx[x], t, b) => x \in S BY DEF Mine, Entry
  <2> HIDE DEF S
  <2>3. \A x, y \in S : x = y BY <1>1, <2>1 DEF Awaits, Entry
  <2>4. Busy(page[t], b) <=> S # {} BY <1>1, <2>1, <2>2 DEF Awaits
  <2>5. Cardinality(S) = IF S = {} THEN 0 ELSE 1 BY <2>3, AtMostOne
  <2> QED BY <2>4, <2>5 DEF S
<1>6. \A t \in Tab : /\ Busy(page[t], "request") <=> page[t].requestAt # "idle"
                     /\ Busy(page[t], "socket") <=> page[t].socketAt # "idle"
                     /\ "request" \in WorkerQueues /\ "socket" \in WorkerQueues
  BY DEF Busy, WorkerQueues
<1>7. \A t \in Tab :
         /\ Cardinality({n \in Mine(t) : tx[n].by = "request"})
              = IF page[t].requestAt = "idle" THEN 0 ELSE 1
         /\ Cardinality({n \in Mine(t) : tx[n].by = "socket"})
              = IF page[t].socketAt = "idle" THEN 0 ELSE 1
  BY <1>5, <1>6
<1> QED BY <1>2, <1>3, <1>4, <1>7 DEF TypeOK

\* The worker's variables have their types, and each of its two queues awaits one IndexedDB
\* transaction exactly while a handler of it is under way, whatever the number of tabs.
THEOREM WorkerTypesHold == Spec => []TypeOK
<1>1. Init => WorkerIInv BY WorkerStarts
<1>2. WorkerIInv /\ [Next]_vars => WorkerIInv' BY WorkerSteps
<1>3. WorkerIInv => TypeOK BY WorkerTyped
<1> QED BY <1>1, <1>2, <1>3, PTL DEF Spec

\* With one tab open, a write the page was told is saved stays in the snapshot of its
\* workspace, through every order of requests, frames, failed transactions and page losses.
THEOREM AnsweredEditsStay == ASSUME OneTab PROVE Spec => []AckedPersisted
<1>1. Init => WorkerIInv BY WorkerStarts
<1>2. WorkerIInv /\ [Next]_vars => WorkerIInv' BY WorkerSteps
<1>3. WorkerIInv => AckedPersisted
  <2> SUFFICES ASSUME WorkerIInv, NEW c \in acked, info[c].ws = db.replica.ws
               PROVE  c \in db.replica.doc
    BY DEF AckedPersisted
  <2>1. PICK t : Tab = {t} BY DEF OneTab
  <2>2. Answered(db.replica, tx, page[t], acked, info) BY <2>1 DEF WorkerIInv, Kept, Safe
  <2>3. Keeps(db.replica, c, info[c].ws) BY <2>2 DEF Answered
  <2>4. db.replica.ws \in Nat BY DEF WorkerIInv, WorkerTypes, Databases, Snapshots
  <2> QED BY <2>3, <2>4 DEF Keeps
<1> QED BY <1>1, <1>2, <1>3, PTL DEF Spec

-----------------------------------------------------------------------------
(* Why the server accepts what one tab sends, as long as a page that goes  *)
(* away leaves its edits stored.  cs are the changes written, of their     *)
(* info, dr the actors drawn.                                              *)

MadeSoFar == 1 .. made

ByActor(a, w, cs, of) == {c \in cs : of[c].actor = a /\ of[c].ws = w}

\* Changes are told apart by workspace, actor and number; h is the newest workspace.
Numbered(cs, of, dr, h) ==
    /\ Firsts \subseteq cs /\ \A c \in Firsts : of[c] = Beginnings[c]
    /\ \A c \in cs : /\ of[c].seq \in Nat /\ of[c].seq <= Cardinality(ByActor(of[c].actor, of[c].ws, cs, of))
                     /\ of[c].ws \in Nat
    /\ \A c \in cs \ Firsts : of[c].actor \in 0 .. dr /\ of[c].ws <= h
    /\ \A c, d \in cs : of[c].actor = of[d].actor /\ of[c].ws = of[d].ws /\ of[c].seq = of[d].seq => c = d

\* A replica holds changes of its workspace only, and all that an actor wrote there; the
\* first change of a later one is written when that one is created.
Pure(X, of) == \A c \in X.doc : of[c].ws = X.ws
Due(c, X, of) == c \in Firsts => of[c].ws <= X.ws
HoldsAll(a, X, cs, of) ==
    \A c \in cs : of[c].actor = a /\ Due(c, X, of) => Keeps(X, c, of[c].ws)

\* The frames of a queue bring changes of the workspace named by the last hello before them.
Carries(q, lo, of) ==
    \A i \in 1 .. Len(q) : ~HelloAt(q, i) =>
        \A c \in q[i].msg.changes :
            /\ lo <= of[c].ws
            /\ \A j \in 1 .. (i - 1) : HelloAt(q, j) => q[j].msg.ws <= of[c].ws
            /\ of[c].ws = lo \/ \E j \in 1 .. (i - 1) : HelloAt(q, j) /\ q[j].msg.ws = of[c].ws
Reaches(q, lo, hi) == lo = hi \/ \E i \in 1 .. Len(q) : HelloAt(q, i) /\ q[i].msg.ws = hi

ServerHolds(sv, ref, cs, of) == Pure(sv, of) /\ HoldsAll(Foreign, sv, cs, of) /\ ref = {}

PageHolds(p, cs, of, dr) == p.running =>
    /\ p.settings.actor \in 1 .. dr /\ Pure(p.replica, of) /\ HoldsAll(p.settings.actor, p.replica, cs, of)
    /\ Carries(p.queue, p.replica.ws, of)

PutsHold(s, a, of) ==
    \A i \in 1 .. Len(s) : IF s[i].store = "settings" THEN s[i].value.actor = a ELSE Pure(s[i].value, of)

StoreHolds(d, s, p, cs, of, dr) ==
    /\ Pure(d.replica, of) /\ d.settings.actor \in 0 .. dr
    /\ d.settings.actor = 0 => d.settings = NoSettings /\ d.replica = NoReplica
    /\ p.running => d.settings.actor = p.settings.actor
    /\ ~p.running /\ d.settings # NoSettings => HoldsAll(d.settings.actor, d.replica, cs, of)
    /\ PutsHold(s, p.settings.actor, of)

\* The sockets that are not closed are the one in use; one that is served has its hello queued.
SocketsHold(p, ph, pe, h) ==
    \A k \in Socket :
        /\ ph[k] \in {"connecting", "open"} => p.running /\ p.current = k
        /\ ph[k] = "open" /\ pe[k].at = "serving" => Reaches(p.queue, p.replica.ws, h)

ForkIInv ==
    /\ Numbered(MadeSoFar, info, drawn, srv.ws)
    /\ ServerHolds(srv, refused, MadeSoFar, info)
    /\ \A t \in Tab : /\ PageHolds(page[t], MadeSoFar, info, drawn)
                      /\ StoreHolds(db, tx, page[t], MadeSoFar, info, drawn)
                      /\ SocketsHold(page[t], phase, peer, srv.ws)

-----------------------------------------------------------------------------
\* A step of the one tab that writes nothing.
LEMMA ForkStep ==
    ASSUME ForkIInv, NEW t, Tab = {t}, UNCHANGED <<made, info, srv, refused, drawn>>,
           PageHolds(page'[t], MadeSoFar, info, drawn),
           StoreHolds(db', tx', page'[t], MadeSoFar, info, drawn),
           SocketsHold(page'[t], phase', peer', srv.ws)
    PROVE  ForkIInv'
<1>1. MadeSoFar' = MadeSoFar BY DEF MadeSoFar
<1> QED BY <1>1 DEF ForkIInv

\* To the changes a page holds, it is what it was.
SameFace(p, q) ==
    /\ q.running = p.running /\ q.settings.actor = p.settings.actor /\ q.replica = p.replica
    /\ q.current = p.current
LEMMA PrefixFrames ==
    ASSUME NEW S, NEW s \in Seq(S), NEW n \in 0 .. Len(s)
    PROVE  /\ Len(SubSeq(s, 1, n)) = n /\ n \in Nat
           /\ \A i \in 1 .. n : SubSeq(s, 1, n)[i] = s[i] /\ i \in 1 .. Len(s)
OBVIOUS

LEMMA CarriesPrefix ==
    ASSUME NEW S, NEW q \in Seq(S), NEW lo, NEW of, Carries(q, lo, of), NEW n \in 0 .. Len(q)
    PROVE  Carries(SubSeq(q, 1, n), lo, of)
<1> DEFINE z == SubSeq(q, 1, n)
<1>1. Len(z) = n /\ n \in Nat /\ \A i \in 1 .. n : z[i] = q[i] /\ i \in 1 .. Len(q)
  BY PrefixFrames
<1> HIDE DEF z
<1>2. \A i \in 1 .. n : \A j \in 1 .. (i - 1) : j \in 1 .. n BY <1>1
<1>3. \A i \in 1 .. n : HelloAt(z, i) <=> HelloAt(q, i) BY <1>1 DEF HelloAt
<1>4. ASSUME NEW i \in 1 .. n, ~HelloAt(z, i), NEW c \in z[i].msg.changes
      PROVE  /\ lo <= of[c].ws
             /\ \A j \in 1 .. (i - 1) : HelloAt(z, j) => z[j].msg.ws <= of[c].ws
             /\ of[c].ws = lo \/ \E j \in 1 .. (i - 1) : HelloAt(z, j) /\ z[j].msg.ws = of[c].ws
  <2>1. /\ i \in 1 .. Len(q) /\ ~HelloAt(q, i) /\ c \in q[i].msg.changes
        /\ \A j \in 1 .. (i - 1) : z[j] = q[j] /\ (HelloAt(z, j) <=> HelloAt(q, j))
    BY <1>1, <1>2, <1>3, <1>4
  <2> QED BY <2>1 DEF Carries
<1>5. Carries(z, lo, of) BY <1>1, <1>4 DEF Carries
<1> QED BY <1>5 DEF z

LEMMA CarriesTail ==
    ASSUME NEW q \in Seq(AnyFrames), NEW lo \in Nat, NEW hi \in Nat, NEW of, Carries(q, lo, of),
           HostsIn(q, lo, hi), q # <<>>, \A c \in Change : of[c].ws \in Nat,
           \A i \in 1 .. Len(q) : ~HelloAt(q, i) => q[i].msg.changes \subseteq Change
    PROVE  IF Head(q).msg.type = "hello" THEN Carries(Tail(q), Head(q).msg.ws, of)
           ELSE Carries(Tail(q), lo, of) /\ \A c \in Head(q).msg.changes : of[c].ws = lo
<1> DEFINE z == Tail(q)
<1>1. /\ Len(z) = Len(q) - 1 /\ Len(q) \in Nat /\ 1 \in 1 .. Len(q) /\ Head(q) = q[1]
      /\ \A i \in 1 .. Len(z) : z[i] = q[i + 1] /\ i + 1 \in 1 .. Len(q)
      /\ \A i \in 1 .. Len(z) : \A j \in 1 .. (i - 1) : j \in 1 .. Len(z) /\ j + 1 \in 1 .. ((i + 1) - 1)
      /\ \A i \in 1 .. Len(z) : \A j \in 1 .. ((i + 1) - 1) :
            j = 1 \/ (j - 1 \in 1 .. (i - 1) /\ (j - 1) + 1 = j /\ j - 1 \in 1 .. Len(z))
      /\ \A i \in 1 .. Len(z) : 1 \in 1 .. ((i + 1) - 1)
  OBVIOUS
<1> HIDE DEF z
<1>2. \A i \in 1 .. Len(z) : HelloAt(z, i) <=> HelloAt(q, i + 1) BY <1>1 DEF HelloAt
<1>3. CASE HelloAt(q, 1)
  <2>1. Head(q).msg.type = "hello" /\ Head(q).msg.ws = q[1].msg.ws /\ q[1].msg.ws \in Nat
    BY <1>1, <1>3, HelloWs DEF HelloAt
  <2>2. lo <= q[1].msg.ws BY <1>1, <1>3 DEF HostsIn
  <2> SUFFICES ASSUME NEW i \in 1 .. Len(z), ~HelloAt(z, i), NEW c \in z[i].msg.changes
               PROVE  /\ q[1].msg.ws <= of[c].ws
                      /\ \A j \in 1 .. (i - 1) : HelloAt(z, j) => z[j].msg.ws <= of[c].ws
                      /\ of[c].ws = q[1].msg.ws \/ \E j \in 1 .. (i - 1) : HelloAt(z, j) /\ z[j].msg.ws = of[c].ws
    BY <2>1 DEF Carries, z
  <2>3. /\ lo <= of[c].ws
        /\ \A j \in 1 .. ((i + 1) - 1) : HelloAt(q, j) => q[j].msg.ws <= of[c].ws
        /\ of[c].ws = lo \/ \E j \in 1 .. ((i + 1) - 1) : HelloAt(q, j) /\ q[j].msg.ws = of[c].ws
    BY <1>1, <1>2 DEF Carries
  <2>4. of[c].ws \in Nat
    <3>1. c \in q[i + 1].msg.changes /\ ~HelloAt(q, i + 1) BY <1>1, <1>2
    <3> QED BY <1>1, <3>1
  <2>5. q[1].msg.ws <= of[c].ws BY <1>1, <1>3, <2>3
  <2>6. \A j \in 1 .. (i - 1) : HelloAt(z, j) => z[j].msg.ws <= of[c].ws BY <1>1, <1>2, <2>3
  <2>7. ASSUME of[c].ws # q[1].msg.ws PROVE \E j \in 1 .. (i - 1) : HelloAt(z, j) /\ z[j].msg.ws = of[c].ws
    <3>1. of[c].ws # lo BY <2>1, <2>2, <2>4, <2>5, <2>7
    <3>2. PICK j \in 1 .. ((i + 1) - 1) : HelloAt(q, j) /\ q[j].msg.ws = of[c].ws BY <2>3, <3>1
    <3>3. j # 1 BY <2>7, <3>2
    <3>4. j - 1 \in 1 .. (i - 1) /\ (j - 1) + 1 = j /\ j - 1 \in 1 .. Len(z) BY <1>1, <3>3
    <3>5. HelloAt(z, j - 1) /\ z[j - 1].msg.ws = of[c].ws BY <1>1, <1>2, <3>2, <3>4
    <3> QED BY <3>4, <3>5
  <2> QED BY <2>5, <2>6, <2>7
<1>4. CASE ~HelloAt(q, 1)
  <2>1. Head(q).msg.type # "hello" BY <1>1, <1>4 DEF HelloAt
  <2>2. \A c \in Head(q).msg.changes : of[c].ws = lo
    <3>1. \A j \in 1 .. (1 - 1) : FALSE OBVIOUS
    <3> QED BY <1>1, <1>4, <3>1 DEF Carries
  <2> SUFFICES ASSUME NEW i \in 1 .. Len(z), ~HelloAt(z, i), NEW c \in z[i].msg.changes
               PROVE  /\ lo <= of[c].ws
                      /\ \A j \in 1 .. (i - 1) : HelloAt(z, j) => z[j].msg.ws <= of[c].ws
                      /\ of[c].ws = lo \/ \E j \in 1 .. (i - 1) : HelloAt(z, j) /\ z[j].msg.ws = of[c].ws
    BY <2>1, <2>2 DEF Carries, z
  <2>3. /\ lo <= of[c].ws
        /\ \A j \in 1 .. ((i + 1) - 1) : HelloAt(q, j) => q[j].msg.ws <= of[c].ws
        /\ of[c].ws = lo \/ \E j \in 1 .. ((i + 1) - 1) : HelloAt(q, j) /\ q[j].msg.ws = of[c].ws
    BY <1>1, <1>2 DEF Carries
  <2>6. \A j \in 1 .. (i - 1) : HelloAt(z, j) => z[j].msg.ws <= of[c].ws BY <1>1, <1>2, <2>3
  <2>7. ASSUME of[c].ws # lo PROVE \E j \in 1 .. (i - 1) : HelloAt(z, j) /\ z[j].msg.ws = of[c].ws
    <3>2. PICK j \in 1 .. ((i + 1) - 1) : HelloAt(q, j) /\ q[j].msg.ws = of[c].ws BY <2>3, <2>7
    <3>3. j # 1 BY <1>4, <3>2
    <3>4. j - 1 \in 1 .. (i - 1) /\ (j - 1) + 1 = j /\ j - 1 \in 1 .. Len(z) BY <1>1, <3>3
    <3>5. HelloAt(z, j - 1) /\ z[j - 1].msg.ws = of[c].ws BY <1>1, <1>2, <3>2, <3>4
    <3> QED BY <3>4, <3>5
  <2> QED BY <2>3, <2>6, <2>7
<1> QED BY <1>3, <1>4

LEMMA ReachesTail ==
    ASSUME NEW q \in Seq(AnyFrames), NEW lo \in Nat, NEW hi \in Nat, Reaches(q, lo, hi),
           HostsIn(q, lo, hi), q # <<>>
    PROVE  IF Head(q).msg.type = "hello" THEN Reaches(Tail(q), Head(q).msg.ws, hi)
           ELSE Reaches(Tail(q), lo, hi)
<1> DEFINE z == Tail(q)
<1>1. /\ Len(z) = Len(q) - 1 /\ Len(q) \in Nat /\ 1 \in 1 .. Len(q) /\ Head(q) = q[1]
      /\ \A i \in 1 .. Len(q) : i = 1 \/ (i - 1 \in 1 .. Len(z) /\ z[i - 1] = q[i])
  OBVIOUS
<1> HIDE DEF z
<1>2. \A i \in 1 .. Len(q) : HelloAt(q, i) => i = 1 \/ (i - 1 \in 1 .. Len(z) /\ HelloAt(z, i - 1) /\ z[i - 1] = q[i])
  BY <1>1 DEF HelloAt
<1>3. HelloAt(q, 1) => q[1].msg.ws \in Nat /\ lo <= q[1].msg.ws /\ q[1].msg.ws <= hi
  BY <1>1, HelloWs DEF HostsIn
<1>4. HelloAt(q, 1) <=> Head(q).msg.type = "hello" BY <1>1 DEF HelloAt
<1>5. CASE lo = hi
  <2>1. HelloAt(q, 1) => q[1].msg.ws = hi BY <1>3, <1>5
  <2> QED BY <1>1, <1>4, <1>5, <2>1 DEF Reaches
<1>6. CASE \E i \in 1 .. Len(q) : HelloAt(q, i) /\ q[i].msg.ws = hi
  <2>1. PICK i \in 1 .. Len(q) : HelloAt(q, i) /\ q[i].msg.ws = hi BY <1>6
  <2>2. CASE i = 1 BY <1>1, <1>4, <2>1, <2>2 DEF Reaches
  <2>3. CASE i # 1
    <3>1. i - 1 \in 1 .. Len(z) /\ HelloAt(z, i - 1) /\ z[i - 1].msg.ws = hi BY <1>2, <2>1, <2>3
    <3> QED BY <3>1 DEF Reaches, z
  <2> QED BY <2>2, <2>3
<1> QED BY <1>5, <1>6 DEF Reaches

\* What the one page's queue and replica are.
LEMMA ForkFacts ==
    ASSUME WorkerIInv, ForkIInv, NEW t, Tab = {t}
    PROVE  /\ t \in Tab /\ WorkerTypes /\ page[t] \in WorkerPages /\ made \in Nat /\ drawn \in Nat
           /\ MadeSoFar \subseteq Change /\ \A c \in Change : info[c].ws \in Nat
           /\ page[t].queue \in Seq(FramesDown) /\ page[t].queue \in Seq(AnyFrames)
           /\ page[t].replica.ws \in Nat /\ srv.ws \in Nat
           /\ page[t].replica.doc \subseteq MadeSoFar /\ srv.doc \subseteq MadeSoFar
           /\ HostsIn(page[t].queue, page[t].replica.ws, srv.ws)
           /\ \A i \in 1 .. Len(page[t].queue) :
                ~HelloAt(page[t].queue, i) => page[t].queue[i].msg.changes \subseteq MadeSoFar
           /\ PageHolds(page[t], MadeSoFar, info, drawn)
           /\ StoreHolds(db, tx, page[t], MadeSoFar, info, drawn)
           /\ SocketsHold(page[t], phase, peer, srv.ws)
<1>1. t \in Tab /\ OneTab BY DEF OneTab
<1>2. WorkerTypes /\ Safe(db.replica, tx, page[t], srv.ws, acked, info) BY <1>1 DEF WorkerIInv, Kept
<1>3. page[t] \in WorkerPages /\ page[t].queue \in Seq(AnyFrames)
      /\ page[t].replica.ws \in Nat /\ srv.ws \in Nat
  BY <1>1, <1>2, HostsStay
<1>4. made \in 0 .. MaxChanges /\ made \in Nat /\ MaxChanges \in Nat /\ drawn \in Nat
  BY <1>2, ConstantsAssumption DEF WorkerTypes
<1>5. MadeSoFar \subseteq Change BY <1>4 DEF MadeSoFar, Change
<1>6. \A c \in Change : info[c].ws \in Nat BY <1>2 DEF WorkerTypes, InfoTypes
<1>7. page[t].queue \in Seq(FramesDown) BY <1>3 DEF WorkerPages
<1>8. page[t].replica.doc \subseteq MadeSoFar /\ srv.doc \subseteq MadeSoFar
  BY <1>2, <1>3 DEF WorkerTypes, WorkerPages, Snapshots, Docs, MadeSoFar
<1>9. ASSUME NEW i \in 1 .. Len(page[t].queue), ~HelloAt(page[t].queue, i)
      PROVE  page[t].queue[i].msg.changes \subseteq MadeSoFar
  <2>1. page[t].queue[i] \in FramesDown BY <1>7
  <2>2. page[t].queue[i].msg \in Syncs BY <1>9, <2>1 DEF FramesDown, HelloAt
  <2> QED BY <2>2 DEF Syncs, Docs, MadeSoFar
<1>10. HostsIn(page[t].queue, page[t].replica.ws, srv.ws) BY <1>2 DEF Safe
<1>11. /\ PageHolds(page[t], MadeSoFar, info, drawn)
       /\ StoreHolds(db, tx, page[t], MadeSoFar, info, drawn)
       /\ SocketsHold(page[t], phase, peer, srv.ws)
  BY <1>1 DEF ForkIInv
<1> QED BY <1>1, <1>2, <1>3, <1>4, <1>5, <1>6, <1>7, <1>8, <1>9, <1>10, <1>11

LEMMA FaceStep ==
    ASSUME WorkerIInv, ForkIInv, NEW t, Tab = {t}, NEW q, page' = [page EXCEPT ![t] = q],
           SameFace(page[t], q), Carries(page[t].queue, page[t].replica.ws, info)
             => Carries(q.queue, page[t].replica.ws, info),
           db' = db, PutsHold(tx', page[t].settings.actor, info),
           SocketsHold(q, phase', peer', srv.ws),
           UNCHANGED <<made, info, srv, refused, drawn>>
    PROVE  ForkIInv'
<1>1. /\ t \in Tab /\ WorkerTypes /\ PageHolds(page[t], MadeSoFar, info, drawn)
      /\ StoreHolds(db, tx, page[t], MadeSoFar, info, drawn)
  BY ForkFacts
<1>2. page'[t] = q BY <1>1 DEF WorkerTypes
<1>3. PageHolds(q, MadeSoFar, info, drawn) BY <1>1 DEF PageHolds, SameFace
<1>4. StoreHolds(db', tx', q, MadeSoFar, info, drawn) BY <1>1 DEF StoreHolds, SameFace
<1> QED BY <1>2, <1>3, <1>4, ForkStep

\* The puts on their way, one more or one less.
LEMMA PutsAppend ==
    ASSUME NEW S, NEW s \in Seq(S), NEW a, NEW of, PutsHold(s, a, of), NEW w \in S,
           IF w.store = "settings" THEN w.value.actor = a ELSE Pure(w.value, of)
    PROVE  PutsHold(Append(s, w), a, of)
<1>1. /\ Len(Append(s, w)) = Len(s) + 1 /\ Append(s, w)[Len(s) + 1] = w
      /\ \A i \in 1 .. Len(s) : Append(s, w)[i] = s[i]
      /\ \A i \in 1 .. (Len(s) + 1) : i \in 1 .. Len(s) \/ i = Len(s) + 1
  BY Appended
<1> QED BY <1>1 DEF PutsHold

LEMMA PutsWithout ==
    ASSUME NEW S, NEW s \in Seq(S), NEW a, NEW of, PutsHold(s, a, of), NEW n \in 1 .. Len(s)
    PROVE  PutsHold(Without(s, n), a, of) /\ Without(s, n) \in Seq(S)
<1>1. PICK f : Left(f, Without(s, n), s, n) BY WithoutKeeps
<1>2. \A m \in 1 .. Len(Without(s, n)) : f[m] \in 1 .. Len(s) /\ Without(s, n)[m] = s[f[m]]
  BY <1>1 DEF Left
<1>3. PutsHold(Without(s, n), a, of) BY <1>2 DEF PutsHold
<1> QED BY <1>3, WithoutOne

\* A socket that connects is the page's only one.
LEMMA Connecting ==
    ASSUME WorkerTypes, NEW t \in Tab, NEW p \in WorkerPages, p.running, ConnectNow(t, p), NEW h,
           SocketsHold(p, phase, peer, h)
    PROVE  /\ peer' = peer
           /\ \E q : /\ page' = [page EXCEPT ![t] = q] /\ q.running = p.running
                     /\ q.settings = p.settings /\ q.replica = p.replica /\ q.queue = p.queue
                     /\ SocketsHold(q, phase', peer', h)
<1>1. CASE UNCHANGED sockets
  <2>1. PICK q : /\ page' = [page EXCEPT ![t] = q]
                 /\ q = p \/ q = [p EXCEPT !.timer = FALSE, !.connection = "offline"]
    <3>1. dialled \in Nat /\ MaxSockets \in Nat BY ConstantsAssumption DEF WorkerTypes
    <3>2. ~(dialled' = dialled + 1) BY <1>1, <3>1 DEF sockets
    <3> QED BY <3>2 DEF ConnectNow
  <2>2. /\ q.running = p.running /\ q.settings = p.settings /\ q.replica = p.replica
        /\ q.queue = p.queue /\ q.current = p.current
    BY <2>1 DEF WorkerPages
  <2>3. SocketsHold(q, phase', peer', h) BY <1>1, <2>2 DEF SocketsHold, sockets
  <2> QED BY <1>1, <2>1, <2>2, <2>3 DEF sockets
<1>2. CASE /\ ~Live(p.current) /\ dialled < MaxSockets /\ dialled' = dialled + 1
           /\ phase' = [phase EXCEPT ![dialled + 1] = "connecting"]
           /\ page' = [page EXCEPT ![t] = [p EXCEPT !.timer = FALSE, !.connection = "connecting",
                                                    !.current = dialled + 1]]
           /\ UNCHANGED <<up, peer>>
  <2>1. PICK q : q = [p EXCEPT !.timer = FALSE, !.connection = "connecting", !.current = dialled + 1]
    OBVIOUS
  <2>2. /\ q.running = p.running /\ q.settings = p.settings /\ q.replica = p.replica
        /\ q.queue = p.queue /\ q.current = dialled + 1
    BY <2>1 DEF WorkerPages
  <2>3. \A k \in Socket : phase[k] \notin {"connecting", "open"}
    <3>1. \A k \in Socket : k # 0 BY ConstantsAssumption DEF Socket
    <3> QED BY <1>2, <3>1 DEF SocketsHold, Live
  <2>4. \A k \in Socket : phase'[k] \in {"connecting", "open"} => k = dialled + 1 /\ phase'[k] = "connecting"
    BY <1>2, <2>3 DEF WorkerTypes, SocketTypes
  <2>5. SocketsHold(q, phase', peer', h) BY <2>2, <2>4 DEF SocketsHold
  <2> QED BY <1>2, <2>1, <2>2, <2>5
<1> QED BY <1>1, <1>2 DEF ConnectNow

\* A socket that closes was the one in use: none is left.
LEMMA Closing ==
    ASSUME WorkerTypes, NEW t \in Tab, NEW p \in WorkerPages, NEW k \in Socket, Live(k), Close(t, p, k),
           NEW h, SocketsHold(p, phase, peer, h), peer' = peer
    PROVE  \E q : \E n \in 0 .. Len(p.queue) :
               /\ page' = [page EXCEPT ![t] = q] /\ q.running = p.running
               /\ q.settings = p.settings /\ q.replica = p.replica /\ q.current = p.current
               /\ q.queue = SubSeq(p.queue, 1, n) /\ SocketsHold(q, phase', peer', h)
<1>1. PICK n \in 0 .. Len(p.queue) :
          /\ page' = [page EXCEPT ![t] = [p EXCEPT !.queue = SubSeq(p.queue, 1, n)]]
          /\ phase' = [phase EXCEPT ![k] = "closing"]
  BY DEF Close
<1>2. PICK q : q = [p EXCEPT !.queue = SubSeq(p.queue, 1, n)] OBVIOUS
<1>3. /\ q.running = p.running /\ q.settings = p.settings /\ q.replica = p.replica
      /\ q.current = p.current /\ q.queue = SubSeq(p.queue, 1, n)
  BY <1>2 DEF WorkerPages
<1>4. \A j \in Socket : phase'[j] \notin {"connecting", "open"}
  <2>1. p.current = k BY DEF SocketsHold, Live
  <2>2. \A j \in Socket \ {k} : phase[j] \notin {"connecting", "open"} BY <2>1 DEF SocketsHold
  <2> QED BY <1>1, <2>2 DEF WorkerTypes, SocketTypes
<1>5. SocketsHold(q, phase', peer', h) BY <1>4 DEF SocketsHold
<1> QED BY <1>1, <1>2, <1>3, <1>5

LEMMA Failing ==
    ASSUME WorkerTypes, NEW t \in Tab, NEW p \in WorkerPages, NEW k \in 0 .. MaxSockets, HandlerFails(t, p, k),
           NEW h, SocketsHold(p, phase, peer, h), peer' = peer
    PROVE  \E q : \E n \in 0 .. Len(p.queue) :
               /\ page' = [page EXCEPT ![t] = q] /\ q.running = p.running
               /\ q.settings = p.settings /\ q.replica = p.replica /\ q.current = p.current
               /\ q.queue = SubSeq(p.queue, 1, n) /\ SocketsHold(q, phase', peer', h)
<1>1. PICK p1 : p1 = [p EXCEPT !.socketAt = "idle", !.socketOn = 0] OBVIOUS
<1>2. /\ p1 \in WorkerPages /\ p1.running = p.running /\ p1.settings = p.settings
      /\ p1.replica = p.replica /\ p1.current = p.current /\ p1.queue = p.queue
  <2>1. 0 \in 0 .. MaxSockets BY ConstantsAssumption
  <2> QED BY <1>1, <2>1 DEF WorkerPages, SocketStages
<1>3. SocketsHold(p1, phase, peer, h) BY <1>2 DEF SocketsHold
<1>4. CASE Live(k) /\ Close(t, p1, k)
  <2>1. k \in Socket BY <1>4, ConstantsAssumption DEF Live, Socket
  <2> QED BY <1>2, <1>3, <1>4, <2>1, Closing
<1>5. CASE page' = [page EXCEPT ![t] = p1] /\ UNCHANGED phase
  <2>1. Len(p.queue) \in 0 .. Len(p.queue) /\ SubSeq(p.queue, 1, Len(p.queue)) = p.queue
    BY WholePrefix DEF WorkerPages
  <2> QED BY <1>2, <1>3, <1>5, <2>1
<1> QED BY <1>1, <1>4, <1>5 DEF HandlerFails

\* The steps of a page that stores nothing: connecting, pumping, a hello it knows.
LEMMA ForkConnects ==
    ASSUME WorkerIInv, ForkIInv, NEW t, Tab = {t},
           \/ SetAccessToken(t)
           \/ ReconnectTimer(t)
           \/ RefreshSync(t) /\ ~Live(page[t].current)
    PROVE  ForkIInv'
<1>1. PICK p \in {page[t], [page[t] EXCEPT !.token = TRUE], [page[t] EXCEPT !.timer = FALSE]} :
         /\ page[t].running /\ ConnectNow(t, p)
         /\ UNCHANGED <<db, tx, srv, history, ghosts, drawn, budget>>
  BY DEF SetAccessToken, ReconnectTimer, RefreshSync, Ready
<1>2. /\ t \in Tab /\ WorkerTypes /\ page[t] \in WorkerPages /\ SocketsHold(page[t], phase, peer, srv.ws)
      /\ PageHolds(page[t], MadeSoFar, info, drawn) /\ StoreHolds(db, tx, page[t], MadeSoFar, info, drawn)
  BY ForkFacts
<1>3. /\ p \in WorkerPages /\ p.running = page[t].running /\ p.settings = page[t].settings
      /\ p.replica = page[t].replica /\ p.queue = page[t].queue /\ p.current = page[t].current
  BY <1>1, <1>2 DEF WorkerPages
<1>4. SocketsHold(p, phase, peer, srv.ws) BY <1>2, <1>3 DEF SocketsHold
<1>5. PICK q : /\ page' = [page EXCEPT ![t] = q] /\ q.running = p.running
               /\ q.settings = p.settings /\ q.replica = p.replica /\ q.queue = p.queue
               /\ SocketsHold(q, phase', peer', srv.ws)
  BY <1>1, <1>2, <1>3, <1>4, Connecting
<1>6. page'[t] = q BY <1>2, <1>5 DEF WorkerTypes
<1>7. PageHolds(q, MadeSoFar, info, drawn) BY <1>2, <1>3, <1>5 DEF PageHolds
<1>8. StoreHolds(db', tx', q, MadeSoFar, info, drawn) BY <1>1, <1>2, <1>3, <1>5 DEF StoreHolds
<1> QED BY <1>1, <1>5, <1>6, <1>7, <1>8, ForkStep DEF history, ghosts

\* pumpSync leaves the page's face and its queue.
LEMMA PumpedFace ==
    ASSUME WorkerTypes, NEW p \in WorkerPages, NEW k
    PROVE  SameFace(p, Pumped(p, k)) /\ Pumped(p, k).queue = p.queue
           /\ Pumped(p, k).settings = p.settings
BY DEF Pumped, SameFace, WorkerPages

LEMMA ForkRefreshes ==
    ASSUME WorkerIInv, ForkIInv, NEW t, Tab = {t}, RefreshSync(t), Live(page[t].current)
    PROVE  ForkIInv'
<1>1. /\ WorkerTypes /\ page[t] \in WorkerPages /\ SocketsHold(page[t], phase, peer, srv.ws)
      /\ StoreHolds(db, tx, page[t], MadeSoFar, info, drawn)
  BY ForkFacts
<1>2. /\ page' = [page EXCEPT ![t] = Pumped(page[t], page[t].current)]
      /\ UNCHANGED <<db, tx, phase, peer, srv, made, info, refused, drawn>>
  BY DEF RefreshSync, history, ghosts
<1>3. PICK q : q = Pumped(page[t], page[t].current) OBVIOUS
<1>4. SameFace(page[t], q) /\ q.queue = page[t].queue BY <1>1, <1>3, PumpedFace
<1>5. SocketsHold(q, phase', peer', srv.ws) BY <1>1, <1>2, <1>4 DEF SocketsHold, SameFace
<1>6. PutsHold(tx', page[t].settings.actor, info) BY <1>1, <1>2 DEF StoreHolds
<1> QED BY <1>2, <1>3, <1>4, <1>5, <1>6, FaceStep

\* The page without its first frame, whose replica is then of workspace w.
LEMMA FrameHandled ==
    ASSUME WorkerIInv, ForkIInv, NEW t, Tab = {t}, page[t].queue # <<>>, page[t].running,
           NEW w, w = IF Frame(t).msg.type = "hello" THEN Frame(t).msg.ws ELSE page[t].replica.ws
    PROVE  /\ Carries(Tail(page[t].queue), w, info)
           /\ Reaches(page[t].queue, page[t].replica.ws, srv.ws) => Reaches(Tail(page[t].queue), w, srv.ws)
           /\ Frame(t).msg.type # "hello" =>
                \A c \in Frame(t).msg.changes : info[c].ws = page[t].replica.ws
<1>1. /\ page[t].queue \in Seq(AnyFrames) /\ page[t].replica.ws \in Nat /\ srv.ws \in Nat
      /\ HostsIn(page[t].queue, page[t].replica.ws, srv.ws) /\ \A c \in Change : info[c].ws \in Nat
      /\ \A i \in 1 .. Len(page[t].queue) :
           ~HelloAt(page[t].queue, i) => page[t].queue[i].msg.changes \subseteq Change
      /\ Carries(page[t].queue, page[t].replica.ws, info)
  <2>1. /\ PageHolds(page[t], MadeSoFar, info, drawn) /\ MadeSoFar \subseteq Change
        /\ \A i \in 1 .. Len(page[t].queue) :
             ~HelloAt(page[t].queue, i) => page[t].queue[i].msg.changes \subseteq MadeSoFar
    BY ForkFacts
  <2>2. /\ page[t].queue \in Seq(AnyFrames) /\ page[t].replica.ws \in Nat /\ srv.ws \in Nat
        /\ HostsIn(page[t].queue, page[t].replica.ws, srv.ws) /\ \A c \in Change : info[c].ws \in Nat
    BY ForkFacts
  <2> QED BY <2>1, <2>2 DEF PageHolds
<1>2. PICK q : q = page[t].queue OBVIOUS
<1>3. IF Head(q).msg.type = "hello" THEN Carries(Tail(q), Head(q).msg.ws, info)
      ELSE Carries(Tail(q), page[t].replica.ws, info) /\ \A c \in Head(q).msg.changes : info[c].ws = page[t].replica.ws
  <2>1. PICK lo : lo = page[t].replica.ws OBVIOUS
  <2>2. /\ q \in Seq(AnyFrames) /\ lo \in Nat /\ srv.ws \in Nat /\ Carries(q, lo, info)
        /\ HostsIn(q, lo, srv.ws) /\ q # <<>> /\ \A c \in Change : info[c].ws \in Nat
        /\ \A i \in 1 .. Len(q) : ~HelloAt(q, i) => q[i].msg.changes \subseteq Change
    BY <1>1, <1>2, <2>1
  <2>3. IF Head(q).msg.type = "hello" THEN Carries(Tail(q), Head(q).msg.ws, info)
        ELSE Carries(Tail(q), lo, info) /\ \A c \in Head(q).msg.changes : info[c].ws = lo
    BY <2>2, CarriesTail
  <2> QED BY <2>1, <2>3
<1>4. Reaches(q, page[t].replica.ws, srv.ws) =>
        IF Head(q).msg.type = "hello" THEN Reaches(Tail(q), Head(q).msg.ws, srv.ws)
           ELSE Reaches(Tail(q), page[t].replica.ws, srv.ws)
  BY <1>1, <1>2, ReachesTail
<1> QED BY <1>2, <1>3, <1>4 DEF Frame

LEMMA ForkGreeted ==
    ASSUME WorkerIInv, ForkIInv, NEW t, Tab = {t}, HelloKnown(t)
    PROVE  ForkIInv'
<1>1. /\ WorkerTypes /\ page[t] \in WorkerPages /\ SocketsHold(page[t], phase, peer, srv.ws)
      /\ StoreHolds(db, tx, page[t], MadeSoFar, info, drawn) /\ t \in Tab
  BY ForkFacts
<1>2. PICK p : p = Greeted([Popped(t) EXCEPT !.sync = NewSync]) OBVIOUS
<1>3. /\ page[t].running /\ page[t].queue # <<>> /\ Frame(t).msg.type = "hello"
      /\ page[t].replica.ws = Frame(t).msg.ws
      /\ page' = [page EXCEPT ![t] = Pumped(p, Frame(t).on)]
      /\ UNCHANGED <<db, tx, phase, peer, srv, made, info, refused, drawn>>
  BY <1>2 DEF HelloKnown, Handles, history, ghosts
<1>4. /\ p \in WorkerPages /\ SameFace(page[t], p) /\ p.queue = Tail(page[t].queue)
  <2>1. 0 \in 0 .. MaxSockets BY ConstantsAssumption
  <2>2. Popped(t) \in WorkerPages /\ SameFace(page[t], Popped(t)) /\ Popped(t).queue = Tail(page[t].queue)
    <3>1. Popped(t) \in WorkerPages BY <1>1, <1>3, FramePopped
    <3> QED BY <1>1, <3>1 DEF Popped, SameFace, WorkerPages
  <2>3. NewSync \in SyncStates BY DEF NewSync, SyncStates
  <2> QED BY <1>2, <2>1, <2>2, <2>3 DEF WorkerPages, SameFace, Greeted, SocketStages
<1>5. PICK q : q = Pumped(p, Frame(t).on) OBVIOUS
<1>6. SameFace(page[t], q) /\ q.queue = Tail(page[t].queue)
  <2>1. SameFace(p, q) /\ q.queue = p.queue BY <1>1, <1>4, <1>5, PumpedFace
  <2> QED BY <1>4, <2>1 DEF SameFace
<1>7. /\ Carries(Tail(page[t].queue), page[t].replica.ws, info)
      /\ Reaches(page[t].queue, page[t].replica.ws, srv.ws)
           => Reaches(Tail(page[t].queue), page[t].replica.ws, srv.ws)
  BY <1>3, FrameHandled
<1>8. SocketsHold(q, phase', peer', srv.ws) BY <1>1, <1>3, <1>6, <1>7 DEF SocketsHold, SameFace
<1>9. PutsHold(tx', page[t].settings.actor, info) BY <1>1, <1>3 DEF StoreHolds
<1>10. page' = [page EXCEPT ![t] = q] BY <1>3, <1>5
<1> QED BY <1>3, <1>6, <1>7, <1>8, <1>9, <1>10, FaceStep

\* setClientId.
LEMMA ForkNamed ==
    ASSUME WorkerIInv, ForkIInv, NEW t, Tab = {t}, SetClientId(t)
    PROVE  ForkIInv'
<1>1. /\ WorkerTypes /\ page[t] \in WorkerPages /\ SocketsHold(page[t], phase, peer, srv.ws)
      /\ StoreHolds(db, tx, page[t], MadeSoFar, info, drawn) /\ t \in Tab /\ tx \in Seq(Puts)
  BY ForkFacts DEF WorkerTypes
<1>2. PICK s : s = [page[t].settings EXCEPT !.named = TRUE] OBVIOUS
<1>3. PICK q : q = [page[t] EXCEPT !.settings = s, !.requestAt = "name"] OBVIOUS
<1>4. /\ page' = [page EXCEPT ![t].settings = s, ![t].requestAt = "name"]
      /\ tx' = Append(tx, Put(t, "settings", s, "request"))
      /\ UNCHANGED <<db, phase, peer, srv, made, info, refused, drawn>>
  BY <1>2 DEF SetClientId, sockets, history, ghosts
<1>5. page' = [page EXCEPT ![t] = q] BY <1>1, <1>3, <1>4 DEF WorkerTypes, WorkerPages
<1>6. s \in SettingsKept /\ s.actor = page[t].settings.actor BY <1>1, <1>2 DEF WorkerPages, SettingsKept
<1>7. SameFace(page[t], q) /\ q.queue = page[t].queue BY <1>1, <1>3, <1>6 DEF WorkerPages, SameFace
<1>8. SocketsHold(q, phase', peer', srv.ws) BY <1>1, <1>4, <1>7 DEF SocketsHold, SameFace
<1>9. PutsHold(tx', page[t].settings.actor, info)
  <2>1. Put(t, "settings", s, "request") \in Puts
    BY <1>1, <1>6 DEF Put, Puts, SettingsPuts, WorkerQueues
  <2>2. /\ Put(t, "settings", s, "request").store = "settings"
        /\ Put(t, "settings", s, "request").value.actor = page[t].settings.actor
    BY <1>6 DEF Put
  <2>3. PutsHold(tx, page[t].settings.actor, info) BY <1>1 DEF StoreHolds
  <2> HIDE DEF Put
  <2> QED BY <1>1, <1>4, <2>1, <2>2, <2>3, PutsAppend
<1> QED BY <1>4, <1>5, <1>7, <1>8, <1>9, FaceStep

\* The replica begun in workspace w by actor a has the changes of its actor there.
LEMMA BegunPure ==
    ASSUME NEW cs, NEW of, NEW dr, NEW h, Numbered(cs, of, dr, h), NEW w, NEW a, NEW X,
           X = [ws |-> w, doc |-> Begins(w, a)]
    PROVE  Pure(X, of)
BY DEF Pure, Begins, Numbered

LEMMA BegunHolds ==
    ASSUME NEW cs, NEW of, NEW dr, NEW h, Numbered(cs, of, dr, h), NEW w \in Nat, NEW a, NEW X,
           X.ws = w, Begins(w, a) \subseteq X.doc, NEW c \in Firsts, of[c].actor = a, Due(c, X, of)
    PROVE  Keeps(X, c, of[c].ws)
<1>1. of[c] = Beginnings[c] /\ of[c].ws \in Nat BY DEF Numbered
<1>2. of[c].ws <= w BY DEF Due
<1>3. CASE of[c].ws = w BY <1>1, <1>3 DEF Begins, Keeps
<1>4. CASE of[c].ws < w BY <1>4 DEF Keeps
<1> QED BY <1>1, <1>2, <1>3, <1>4

\* A hello of a newer workspace: none of the page's changes is of it.
LEMMA ForkAdopts ==
    ASSUME WorkerIInv, ForkIInv, NEW t, Tab = {t}, HelloAdopts(t)
    PROVE  ForkIInv'
<1>1. /\ WorkerTypes /\ page[t] \in WorkerPages /\ SocketsHold(page[t], phase, peer, srv.ws)
      /\ StoreHolds(db, tx, page[t], MadeSoFar, info, drawn) /\ t \in Tab /\ tx \in Seq(Puts)
      /\ PageHolds(page[t], MadeSoFar, info, drawn) /\ drawn \in Nat /\ made \in Nat
      /\ page[t].replica.ws \in Nat
      /\ MadeSoFar \subseteq Change /\ \A c \in Change : info[c].ws \in Nat
      /\ HostsIn(page[t].queue, page[t].replica.ws, srv.ws)
  BY ForkFacts DEF WorkerTypes
<1>2. /\ page[t].running /\ page[t].queue # <<>> /\ Frame(t).msg.type = "hello"
      /\ page[t].replica.ws # Frame(t).msg.ws
  BY DEF HelloAdopts, Handles
<1>3. /\ Frame(t).msg.ws \in Nat /\ page[t].replica.ws <= Frame(t).msg.ws /\ Frame(t).on \in 0 .. MaxSockets
      /\ Popped(t) \in WorkerPages /\ Popped(t).queue = Tail(page[t].queue)
      /\ Popped(t).settings = page[t].settings
  <2>1. Frame(t).msg \in Syncs \cup [type : {"hello"}, ws : Nat] /\ page[t].replica.ws <= Frame(t).msg.ws
    BY <1>1, <1>2, FramePopped
  <2>2. Frame(t).msg.ws \in Nat BY <1>2, <2>1 DEF Syncs
  <2> QED BY <1>1, <1>2, <2>1, <2>2, FramePopped
<1>4. page[t].settings.actor \in 1 .. drawn BY <1>1, <1>2 DEF PageHolds
<1>5. page[t].settings # NoSettings BY <1>1, <1>4 DEF NoSettings
<1>6. PICK r : r = [ws |-> Frame(t).msg.ws, doc |-> Begins(Frame(t).msg.ws, page[t].settings.actor)]
  OBVIOUS
<1>7. PICK q : q = [Popped(t) EXCEPT !.replica = r, !.sync = NewSync, !.settings.dirty = FALSE,
                                     !.socketAt = "adopt", !.socketOn = Frame(t).on]
  OBVIOUS
<1>8. /\ page' = [page EXCEPT ![t] = q] /\ tx' = Append(tx, Put(t, "replica", r, "socket"))
      /\ UNCHANGED <<db, phase, peer, srv, made, info, refused, drawn>>
  BY <1>5, <1>6, <1>7 DEF HelloAdopts, history, ghosts
<1>9. /\ q.running = page[t].running /\ q.replica = r /\ q.current = page[t].current
      /\ q.queue = Tail(page[t].queue) /\ q.settings.actor = page[t].settings.actor
  <2>1. /\ Popped(t).running = page[t].running /\ Popped(t).current = page[t].current
        /\ page[t].settings \in SettingsKept
    BY <1>1 DEF Popped, WorkerPages
  <2> HIDE DEF Popped
  <2> QED BY <1>3, <1>7, <2>1 DEF WorkerPages, SettingsKept
<1>10. /\ Carries(q.queue, r.ws, info)
       /\ Reaches(page[t].queue, page[t].replica.ws, srv.ws) => Reaches(q.queue, r.ws, srv.ws)
  BY <1>2, <1>6, <1>9, FrameHandled
<1>11. Pure(r, info) BY <1>6, BegunPure DEF ForkIInv
<1>12. HoldsAll(q.settings.actor, r, MadeSoFar, info)
  <2> SUFFICES ASSUME NEW c \in MadeSoFar, info[c].actor = page[t].settings.actor, Due(c, r, info)
               PROVE  Keeps(r, c, info[c].ws)
    BY <1>9 DEF HoldsAll
  <2>1. info[c].ws \in Nat /\ page[t].replica.ws < r.ws /\ r.ws \in Nat BY <1>1, <1>2, <1>3, <1>6
  <2>2. CASE c \in Firsts BY <1>6, <2>1, <2>2, BegunHolds DEF ForkIInv
  <2>3. CASE c \notin Firsts
    <3>1. Keeps(page[t].replica, c, info[c].ws) BY <1>1, <1>2, <2>3 DEF PageHolds, HoldsAll, Due
    <3> QED BY <1>1, <2>1, <3>1 DEF Keeps
  <2> QED BY <2>2, <2>3
<1>13. PageHolds(q, MadeSoFar, info, drawn)
  BY <1>4, <1>9, <1>10, <1>11, <1>12 DEF PageHolds
<1>14. PutsHold(tx', page[t].settings.actor, info)
  <2>1. r \in Snapshots BY <1>1, <1>3, <1>6, BegunDocs DEF Snapshots
  <2>2. Put(t, "replica", r, "socket") \in Puts
    BY <1>1, <2>1 DEF Put, Puts, ReplicaPuts, WorkerQueues
  <2>3. Put(t, "replica", r, "socket").store = "replica" /\ Put(t, "replica", r, "socket").value = r
    BY DEF Put
  <2>4. PutsHold(tx, page[t].settings.actor, info) BY <1>1 DEF StoreHolds
  <2> HIDE DEF Put
  <2> QED BY <1>1, <1>8, <1>11, <2>2, <2>3, <2>4, PutsAppend
<1>15. StoreHolds(db', tx', q, MadeSoFar, info, drawn)
  BY <1>1, <1>8, <1>9, <1>14 DEF StoreHolds
<1>16. SocketsHold(q, phase', peer', srv.ws) BY <1>1, <1>8, <1>9, <1>10 DEF SocketsHold
<1>17. page'[t] = q BY <1>1, <1>8 DEF WorkerTypes
<1> QED BY <1>8, <1>13, <1>15, <1>16, <1>17, ForkStep

\* The end of a binary frame's handler.
LEMMA MergeEnds ==
    ASSUME WorkerTypes, NEW t \in Tab, NEW p \in WorkerPages, NEW k, NEW rest \in Seq(Puts),
           AfterMerge(t, p, k, rest), PutsHold(rest, p.settings.actor, info)
    PROVE  \E q : /\ page' = [page EXCEPT ![t] = q] /\ SameFace(p, q) /\ q.queue = p.queue
                  /\ PutsHold(tx', p.settings.actor, info)
<1>1. CASE Pumps(p, k) \/ ~p.settings.dirty
  <2>1. PICK i : i = [p EXCEPT !.socketAt = "idle", !.socketOn = 0] OBVIOUS
  <2>2. i \in WorkerPages /\ SameFace(p, i) /\ i.queue = p.queue
    <3>1. 0 \in 0 .. MaxSockets BY ConstantsAssumption
    <3> QED BY <2>1, <3>1 DEF WorkerPages, SameFace, SocketStages
  <2>3. PICK q : q = Pumped(i, k) OBVIOUS
  <2>4. SameFace(i, q) /\ q.queue = i.queue BY <2>2, <2>3, PumpedFace
  <2>5. SameFace(p, q) /\ q.queue = p.queue BY <2>2, <2>4 DEF SameFace
  <2>6. page' = [page EXCEPT ![t] = q] /\ tx' = rest BY <1>1, <2>1, <2>3 DEF AfterMerge
  <2> QED BY <2>5, <2>6
<1>2. CASE ~(Pumps(p, k) \/ ~p.settings.dirty)
  <2>1. PICK s : s = [p.settings EXCEPT !.dirty = FALSE] OBVIOUS
  <2>2. s \in SettingsKept /\ s.actor = p.settings.actor BY <2>1 DEF WorkerPages, SettingsKept
  <2>3. PICK q : q = [p EXCEPT !.settings = s, !.socketAt = "clean", !.socketOn = k] OBVIOUS
  <2>4. SameFace(p, q) /\ q.queue = p.queue BY <2>2, <2>3 DEF WorkerPages, SameFace
  <2>5. page' = [page EXCEPT ![t] = q] /\ tx' = Append(rest, Put(t, "settings", s, "socket"))
    BY <1>2, <2>1, <2>3 DEF AfterMerge
  <2>6. Put(t, "settings", s, "socket") \in Puts
    BY <2>2 DEF Put, Puts, SettingsPuts, WorkerQueues
  <2>7. /\ Put(t, "settings", s, "socket").store = "settings"
        /\ Put(t, "settings", s, "socket").value.actor = p.settings.actor
    BY <2>2 DEF Put
  <2> HIDE DEF Put
  <2>8. PutsHold(tx', p.settings.actor, info) BY <2>5, <2>6, <2>7, PutsAppend
  <2> QED BY <2>4, <2>5, <2>8
<1> QED BY <1>1, <1>2

\* Changes of a replica's own workspace never bear the number of another of its changes.
LEMMA NoForks ==
    ASSUME ForkIInv, WorkerTypes, NEW X \in Snapshots, Pure(X, info), NEW new \in Docs,
           \A c \in new : info[c].ws = X.ws
    PROVE  ~Forks(X.doc, new)
<1>1. X.doc \subseteq MadeSoFar /\ new \subseteq MadeSoFar BY DEF Snapshots, Docs, MadeSoFar
<1> SUFFICES ASSUME NEW x \in X.doc, NEW y \in new, info[x].actor = info[y].actor,
                    info[x].seq = info[y].seq
             PROVE  x = y
  BY DEF Forks
<1>2. info[x].ws = info[y].ws BY DEF Pure
<1> QED BY <1>1, <1>2 DEF ForkIInv, Numbered

\* A binary frame: its changes are of the replica's workspace.
LEMMA ForkReceives ==
    ASSUME WorkerIInv, ForkIInv, NEW t, Tab = {t}, ReceiveSyncMessage(t)
    PROVE  ForkIInv'
<1>1. /\ WorkerTypes /\ page[t] \in WorkerPages /\ SocketsHold(page[t], phase, peer, srv.ws)
      /\ StoreHolds(db, tx, page[t], MadeSoFar, info, drawn) /\ t \in Tab /\ tx \in Seq(Puts)
      /\ PageHolds(page[t], MadeSoFar, info, drawn) /\ made \in Nat
      /\ page[t].queue \in Seq(FramesDown) /\ page[t].replica \in Snapshots
  BY ForkFacts DEF WorkerTypes, WorkerPages
<1>2. /\ page[t].running /\ page[t].queue # <<>> /\ Frame(t).msg.type = "sync"
      /\ UNCHANGED <<db, peer, srv, made, info, drawn>>
  BY DEF ReceiveSyncMessage, Handles, history
<1>3. /\ Frame(t).on \in 0 .. MaxSockets /\ Popped(t) \in WorkerPages
      /\ Frame(t).msg \in Syncs /\ Tail(page[t].queue) \in Seq(FramesDown)
      /\ Frame(t).msg.changes \in Docs
  <2>1. Frame(t).msg \in Syncs BY <1>1, <1>2, FramePopped
  <2>2. Frame(t).msg.changes \in Docs BY <2>1 DEF Syncs
  <2> QED BY <1>1, <1>2, <2>1, <2>2, FramePopped
<1>4. /\ SameFace(page[t], Popped(t)) /\ Popped(t).queue = Tail(page[t].queue)
      /\ Popped(t).sync = page[t].sync /\ Popped(t).settings = page[t].settings
  BY <1>1 DEF Popped, SameFace, WorkerPages
<1>5. /\ Carries(Tail(page[t].queue), page[t].replica.ws, info)
      /\ Reaches(page[t].queue, page[t].replica.ws, srv.ws)
           => Reaches(Tail(page[t].queue), page[t].replica.ws, srv.ws)
      /\ \A c \in Frame(t).msg.changes : info[c].ws = page[t].replica.ws
  BY <1>2, FrameHandled
<1> HIDE DEF Popped
<1>6. SocketsHold(Popped(t), phase, peer, srv.ws)
  BY <1>1, <1>4, <1>5 DEF SocketsHold, SameFace
<1>7. PutsHold(tx, page[t].settings.actor, info) BY <1>1 DEF StoreHolds
<1>8. CASE page[t].replica = NoReplica
  <2>1. HandlerFails(t, Popped(t), Frame(t).on) /\ tx' = tx /\ refused' = refused
    BY <1>8 DEF ReceiveSyncMessage
  <2>2. PICK q : \E n \in 0 .. Len(Popped(t).queue) :
               /\ page' = [page EXCEPT ![t] = q] /\ q.running = Popped(t).running
               /\ q.settings = Popped(t).settings /\ q.replica = Popped(t).replica
               /\ q.current = Popped(t).current
               /\ q.queue = SubSeq(Popped(t).queue, 1, n) /\ SocketsHold(q, phase', peer', srv.ws)
    BY <1>1, <1>2, <1>3, <1>6, <2>1, Failing
  <2>3. SameFace(page[t], q) BY <1>4, <2>2 DEF SameFace
  <2>4. Carries(q.queue, page[t].replica.ws, info)
    <3>1. PICK n \in 0 .. Len(Tail(page[t].queue)) : q.queue = SubSeq(Tail(page[t].queue), 1, n)
      BY <1>4, <2>2
    <3> QED BY <1>3, <1>5, <3>1, CarriesPrefix
  <2> QED BY <1>2, <1>7, <2>1, <2>2, <2>3, <2>4, FaceStep
<1>9. CASE page[t].replica # NoReplica
  <2>0. ~Forks(page[t].replica.doc, Frame(t).msg.changes) BY <1>1, <1>2, <1>3, <1>5, NoForks DEF PageHolds
  <2>1. PICK doc \in Applied(page[t].replica.doc, Frame(t).msg.changes) :
           /\ phase' = phase /\ refused' = refused
           /\ LET p == [Popped(t) EXCEPT !.replica.doc = doc,
                                         !.sync = Received(@, doc, Frame(t).msg)]
              IN IF doc # page[t].replica.doc
                 THEN /\ page' = [page EXCEPT ![t] =
                            [p EXCEPT !.socketAt = "merged", !.socketOn = Frame(t).on]]
                      /\ tx' = Append(tx, Put(t, "replica", p.replica, "socket"))
                 ELSE AfterMerge(t, p, Frame(t).on, tx)
    BY <1>9, <2>0 DEF ReceiveSyncMessage
  <2>2. PICK p : p = [Popped(t) EXCEPT !.replica.doc = doc,
                                       !.sync = Received(@, doc, Frame(t).msg)]
    OBVIOUS
  <2>3. phase' = phase /\ IF doc # page[t].replica.doc
         THEN /\ page' = [page EXCEPT ![t] = [p EXCEPT !.socketAt = "merged", !.socketOn = Frame(t).on]]
              /\ tx' = Append(tx, Put(t, "replica", p.replica, "socket"))
         ELSE AfterMerge(t, p, Frame(t).on, tx)
    BY <2>1, <2>2
  <2>4. /\ doc \in Docs /\ doc \in SUBSET Nat
        /\ page[t].replica.doc \subseteq doc
        /\ doc \subseteq page[t].replica.doc \cup Frame(t).msg.changes
    <3>1. page[t].replica.doc \in Docs /\ Frame(t).msg.changes \in Docs
      BY <1>1, <1>3 DEF WorkerPages, Snapshots, Syncs
    <3>2. /\ doc \in Docs /\ page[t].replica.doc \subseteq doc
          /\ doc \subseteq page[t].replica.doc \cup Frame(t).msg.changes
      BY <3>1, MergedDocs
    <3> QED BY <1>1, <3>2 DEF Docs
  <2>5. /\ p \in WorkerPages /\ p.running = page[t].running /\ p.current = page[t].current
        /\ p.settings = page[t].settings /\ p.queue = Tail(page[t].queue)
        /\ p.replica = [page[t].replica EXCEPT !.doc = doc] /\ p.replica \in Snapshots
    <3>1. Received(Popped(t).sync, doc, Frame(t).msg) \in SyncStates
      <4>1. Frame(t).msg.heads \in SUBSET Nat BY <1>3 DEF Syncs
      <4> QED BY <1>3, <4>1, ReceivedType DEF WorkerPages
    <3>2. [Popped(t).replica EXCEPT !.doc = doc] \in Snapshots
      BY <1>3, <2>4 DEF WorkerPages, Snapshots
    <3> HIDE DEF Received, Snapshots
    <3> QED BY <1>3, <1>4, <2>2, <3>1, <3>2 DEF WorkerPages, SameFace
  <2>6. CASE doc = page[t].replica.doc
    <3>1. p.replica = page[t].replica BY <1>1, <2>5, <2>6 DEF WorkerPages, Snapshots
    <3>2. PICK q : /\ page' = [page EXCEPT ![t] = q] /\ SameFace(p, q) /\ q.queue = p.queue
                   /\ PutsHold(tx', p.settings.actor, info)
      BY <1>1, <1>7, <2>3, <2>5, <2>6, MergeEnds
    <3>3. SameFace(page[t], q) BY <2>5, <3>1, <3>2 DEF SameFace
    <3>4. SocketsHold(q, phase', peer', srv.ws)
      BY <1>2, <1>4, <1>6, <2>3, <2>5, <3>2, <3>3 DEF SocketsHold, SameFace
    <3> QED BY <1>2, <1>5, <2>1, <2>5, <3>2, <3>3, <3>4, FaceStep
  <2>7. CASE doc # page[t].replica.doc
    <3>1. PICK q : q = [p EXCEPT !.socketAt = "merged", !.socketOn = Frame(t).on] OBVIOUS
    <3>2. /\ page' = [page EXCEPT ![t] = q] /\ tx' = Append(tx, Put(t, "replica", p.replica, "socket"))
      BY <2>3, <2>7, <3>1
    <3>3. /\ q.running = page[t].running /\ q.current = page[t].current
          /\ q.settings = page[t].settings /\ q.queue = Tail(page[t].queue)
          /\ q.replica = p.replica
      BY <2>5, <3>1 DEF WorkerPages
    <3>4. p.replica.ws = page[t].replica.ws /\ p.replica.doc = doc
      BY <1>1, <2>5 DEF WorkerPages, Snapshots
    <3>5. Pure(p.replica, info)
      <4>1. Pure(page[t].replica, info) BY <1>1, <1>2 DEF PageHolds
      <4> QED BY <1>5, <2>4, <3>4, <4>1 DEF Pure
    <3>6. HoldsAll(q.settings.actor, q.replica, MadeSoFar, info)
      <4>1. HoldsAll(page[t].settings.actor, page[t].replica, MadeSoFar, info)
        BY <1>1, <1>2 DEF PageHolds
      <4> QED BY <2>4, <3>3, <3>4, <4>1 DEF HoldsAll, Keeps, Due
    <3>7. PageHolds(q, MadeSoFar, info, drawn)
      BY <1>1, <1>2, <1>5, <3>3, <3>4, <3>5, <3>6 DEF PageHolds
    <3>8. PutsHold(tx', page[t].settings.actor, info)
      <4>1. Put(t, "replica", p.replica, "socket") \in Puts
        BY <1>1, <2>5 DEF Put, Puts, ReplicaPuts, WorkerQueues
      <4>2. /\ Put(t, "replica", p.replica, "socket").store = "replica"
            /\ Put(t, "replica", p.replica, "socket").value = p.replica
        BY DEF Put
      <4> HIDE DEF Put
      <4> QED BY <1>1, <1>7, <3>2, <3>5, <4>1, <4>2, PutsAppend
    <3>9. StoreHolds(db', tx', q, MadeSoFar, info, drawn)
      BY <1>1, <1>2, <3>3, <3>8 DEF StoreHolds
    <3>10. SocketsHold(q, phase', peer', srv.ws)
      BY <1>2, <1>4, <1>6, <2>3, <3>3, <3>4 DEF SocketsHold, SameFace
    <3>11. page'[t] = q BY <1>1, <3>2 DEF WorkerTypes
    <3> QED BY <1>2, <2>1, <3>7, <3>9, <3>10, <3>11, ForkStep
  <2> QED BY <2>6, <2>7
<1> QED BY <1>8, <1>9

\* A transaction is stored, or not, and the queue that awaited it goes on.
LEMMA StoreCommits ==
    ASSUME WorkerIInv, ForkIInv, NEW t, Tab = {t}, NEW n \in 1 .. Len(tx)
    PROVE  /\ page[t].running /\ tx[n].tab = t /\ PutsHold(Without(tx, n), page[t].settings.actor, info)
           /\ Without(tx, n) \in Seq(Puts)
           /\ \A d \in {db, Committed(db, tx[n])} :
                \A q, s : /\ q.running /\ q.settings.actor = page[t].settings.actor
                          /\ PutsHold(s, page[t].settings.actor, info)
                          => StoreHolds(d, s, q, MadeSoFar, info, drawn)
<1>1. /\ WorkerTypes /\ StoreHolds(db, tx, page[t], MadeSoFar, info, drawn) /\ tx \in Seq(Puts)
      /\ db \in Databases /\ PageHolds(page[t], MadeSoFar, info, drawn) /\ drawn \in Nat
  BY ForkFacts DEF WorkerTypes
<1>2. page[t].running /\ tx[n].tab = t
  <2>1. tx[n].tab \in Tab /\ page[tx[n].tab].running BY AwaitedBy
  <2>2. tx[n].tab = t BY <2>1
  <2> QED BY <2>1, <2>2
<1>3. PutsHold(tx, page[t].settings.actor, info) BY <1>1 DEF StoreHolds
<1>4. PutsHold(Without(tx, n), page[t].settings.actor, info) /\ Without(tx, n) \in Seq(Puts)
  BY <1>1, <1>3, PutsWithout
<1>5. page[t].settings.actor \in 1 .. drawn /\ db.settings.actor = page[t].settings.actor
  BY <1>1, <1>2 DEF PageHolds, StoreHolds
<1>6. ASSUME NEW d \in {db, Committed(db, tx[n])}
      PROVE  Pure(d.replica, info) /\ d.settings.actor = page[t].settings.actor
  <2>1. Pure(db.replica, info) BY <1>1 DEF StoreHolds
  <2>2. CASE tx[n].store = "settings"
    <3>1. tx[n].value.actor = page[t].settings.actor BY <1>3, <2>2 DEF PutsHold
    <3>2. /\ Committed(db, tx[n]).replica = db.replica
          /\ Committed(db, tx[n]).settings = tx[n].value
      BY <1>1, <2>2 DEF Committed, Databases
    <3> QED BY <1>5, <2>1, <3>1, <3>2
  <2>3. CASE tx[n].store # "settings"
    <3>1. Pure(tx[n].value, info) BY <1>3, <2>3 DEF PutsHold
    <3>2. /\ Committed(db, tx[n]).replica = tx[n].value
          /\ Committed(db, tx[n]).settings = db.settings
      BY <1>1, <2>3 DEF Committed, Databases
    <3> QED BY <1>5, <2>1, <3>1, <3>2
  <2> QED BY <2>2, <2>3
<1>7. ASSUME NEW d \in {db, Committed(db, tx[n])}, NEW q, NEW s, q.running,
             q.settings.actor = page[t].settings.actor, PutsHold(s, page[t].settings.actor, info)
      PROVE  StoreHolds(d, s, q, MadeSoFar, info, drawn)
  <2>1. page[t].settings.actor \in 0 .. drawn /\ page[t].settings.actor # 0 BY <1>1, <1>5
  <2> QED BY <1>6, <1>7, <2>1 DEF StoreHolds
<1> QED BY <1>2, <1>4, <1>7

\* A step of the page at the end of a transaction.
LEMMA ResumedStep ==
    ASSUME WorkerIInv, ForkIInv, NEW t, Tab = {t}, NEW n \in 1 .. Len(tx), NEW q,
           page' = [page EXCEPT ![t] = q], db' \in {db, Committed(db, tx[n])},
           q.running = page[t].running, q.settings.actor = page[t].settings.actor,
           q.replica = page[t].replica, Carries(q.queue, page[t].replica.ws, info),
           PutsHold(tx', page[t].settings.actor, info), SocketsHold(q, phase', peer', srv.ws),
           UNCHANGED <<made, info, srv, refused, drawn>>
    PROVE  ForkIInv'
<1>1. t \in Tab /\ WorkerTypes /\ PageHolds(page[t], MadeSoFar, info, drawn) BY ForkFacts
<1>2. page'[t] = q BY <1>1 DEF WorkerTypes
<1>3. PageHolds(q, MadeSoFar, info, drawn) BY <1>1 DEF PageHolds
<1>4. StoreHolds(db', tx', q, MadeSoFar, info, drawn) BY StoreCommits
<1> QED BY <1>2, <1>3, <1>4, ForkStep

LEMMA PutsSettings ==
    ASSUME NEW t \in Tab, NEW rest \in Seq(Puts), NEW s \in SettingsKept, NEW by \in WorkerQueues,
           PutsHold(rest, s.actor, info)
    PROVE  PutsHold(Append(rest, Put(t, "settings", s, by)), s.actor, info)
<1>1. Put(t, "settings", s, by) \in Puts BY DEF Put, Puts, SettingsPuts
<1>2. Put(t, "settings", s, by).store = "settings" /\ Put(t, "settings", s, by).value = s BY DEF Put
<1> HIDE DEF Put
<1> QED BY <1>1, <1>2, PutsAppend

LEMMA ForkRequestEnds ==
    ASSUME WorkerIInv, ForkIInv, NEW t, Tab = {t}, NEW n \in 1 .. Len(tx), Completes(n),
           RequestResumes(t, n)
    PROVE  ForkIInv'
<1>1. /\ WorkerTypes /\ page[t] \in WorkerPages /\ SocketsHold(page[t], phase, peer, srv.ws)
      /\ t \in Tab /\ PageHolds(page[t], MadeSoFar, info, drawn)
      /\ page[t].queue \in Seq(FramesDown) /\ page[t].settings \in SettingsKept
  BY ForkFacts DEF WorkerPages
<1>2. /\ page[t].running /\ PutsHold(Without(tx, n), page[t].settings.actor, info)
      /\ Without(tx, n) \in Seq(Puts)
  BY StoreCommits
<1>3. Carries(page[t].queue, page[t].replica.ws, info) BY <1>1, <1>2 DEF PageHolds
<1>4. db' \in {db, Committed(db, tx[n])} /\ UNCHANGED <<made, info, srv, refused, drawn>>
  BY DEF Completes, history
<1>5. PICK done : done = [page[t] EXCEPT !.requestAt = "idle", !.requestFor = 0] OBVIOUS
<1>6. /\ done \in WorkerPages /\ SameFace(page[t], done) /\ done.queue = page[t].queue
      /\ done.settings = page[t].settings
  <2>1. 0 \in 0 .. made BY <1>1, ConstantsAssumption DEF WorkerTypes
  <2> QED BY <1>1, <1>5, <2>1 DEF WorkerPages, SameFace, RequestStages
<1>7. CASE page[t].requestAt = "replica"
  <2>1. PICK q \in {done, [page[t] EXCEPT !.requestAt = "settings"]} : page' = [page EXCEPT ![t] = q]
    BY <1>1, <1>5, <1>7 DEF RequestResumes, WorkerTypes
  <2>2. SameFace(page[t], q) /\ q.queue = page[t].queue
    BY <1>1, <1>6, <2>1 DEF WorkerPages, SameFace
  <2>3. UNCHANGED <<phase, peer>> BY <1>7 DEF RequestResumes, sockets
  <2>4. PutsHold(tx', page[t].settings.actor, info)
    <3>1. PutsHold(Append(Without(tx, n), Put(t, "settings", page[t].settings, "request")),
                   page[t].settings.actor, info)
      BY <1>1, <1>2, PutsSettings DEF WorkerQueues
    <3> QED BY <1>2, <1>7, <3>1 DEF RequestResumes
  <2>5. SocketsHold(q, phase', peer', srv.ws) BY <1>1, <2>2, <2>3 DEF SocketsHold, SameFace
  <2> QED BY <1>3, <1>4, <2>1, <2>2, <2>4, <2>5, ResumedStep DEF SameFace
<1>8. CASE page[t].requestAt = "settings"
  <2>1. /\ page' = [page EXCEPT ![t] = Pumped(done, page[t].current)] /\ tx' = Without(tx, n)
        /\ UNCHANGED <<phase, peer>>
    BY <1>5, <1>8 DEF RequestResumes
  <2>2. PICK q : q = Pumped(done, page[t].current) OBVIOUS
  <2>3. SameFace(done, q) /\ q.queue = done.queue BY <1>1, <1>6, <2>2, PumpedFace
  <2>4. SameFace(page[t], q) /\ q.queue = page[t].queue BY <1>6, <2>3 DEF SameFace
  <2>5. SocketsHold(q, phase', peer', srv.ws) BY <1>1, <2>1, <2>4 DEF SocketsHold, SameFace
  <2>6. page' = [page EXCEPT ![t] = q] BY <2>1, <2>2
  <2> QED BY <1>2, <1>3, <1>4, <2>1, <2>4, <2>5, <2>6, ResumedStep DEF SameFace
<1>9. CASE page[t].requestAt = "name"
  <2>1. ConnectNow(t, done) /\ tx' = Without(tx, n) BY <1>5, <1>9 DEF RequestResumes
  <2>2. SocketsHold(done, phase, peer, srv.ws) /\ done.running
    BY <1>1, <1>2, <1>6 DEF SocketsHold, SameFace
  <2>3. PICK q : /\ page' = [page EXCEPT ![t] = q] /\ q.running = done.running
                 /\ q.settings = done.settings /\ q.replica = done.replica /\ q.queue = done.queue
                 /\ SocketsHold(q, phase', peer', srv.ws)
    BY <1>1, <1>6, <2>1, <2>2, Connecting
  <2>4. /\ q.running = page[t].running /\ q.settings.actor = page[t].settings.actor
        /\ q.replica = page[t].replica /\ q.queue = page[t].queue
    BY <1>6, <2>3 DEF SameFace
  <2> QED BY <1>2, <1>3, <1>4, <2>1, <2>3, <2>4, ResumedStep
<1> QED BY <1>7, <1>8, <1>9 DEF RequestResumes

LEMMA ForkSocketEnds ==
    ASSUME WorkerIInv, ForkIInv, NEW t, Tab = {t}, NEW n \in 1 .. Len(tx), Completes(n),
           SocketResumes(t, n), peer' = peer
    PROVE  ForkIInv'
<1>1. /\ WorkerTypes /\ page[t] \in WorkerPages /\ SocketsHold(page[t], phase, peer, srv.ws)
      /\ t \in Tab /\ PageHolds(page[t], MadeSoFar, info, drawn) /\ drawn \in Nat
      /\ page[t].queue \in Seq(FramesDown) /\ page[t].settings \in SettingsKept
      /\ page[t].socketOn \in 0 .. MaxSockets
  BY ForkFacts DEF WorkerPages
<1>2. /\ page[t].running /\ PutsHold(Without(tx, n), page[t].settings.actor, info)
      /\ Without(tx, n) \in Seq(Puts)
  BY StoreCommits
<1>3. Carries(page[t].queue, page[t].replica.ws, info) BY <1>1, <1>2 DEF PageHolds
<1>4. db' \in {db, Committed(db, tx[n])} /\ UNCHANGED <<made, info, srv, refused, drawn>>
  BY DEF Completes, history
<1>5. page[t].settings # NoSettings BY <1>1, <1>2 DEF PageHolds, NoSettings
<1>6. CASE page[t].socketAt = "merged"
  <2>1. AfterMerge(t, page[t], page[t].socketOn, Without(tx, n)) /\ phase' = phase
    BY <1>6 DEF SocketResumes
  <2>2. PICK q : /\ page' = [page EXCEPT ![t] = q] /\ SameFace(page[t], q) /\ q.queue = page[t].queue
                 /\ PutsHold(tx', page[t].settings.actor, info)
    BY <1>1, <1>2, <2>1, MergeEnds
  <2>3. SocketsHold(q, phase', peer', srv.ws) BY <1>1, <2>1, <2>2 DEF SocketsHold, SameFace
  <2> QED BY <1>3, <1>4, <2>2, <2>3, ResumedStep DEF SameFace
<1>7. CASE page[t].socketAt \in {"clean", "adopt"}
  <2>1. PICK q \in {[page[t] EXCEPT !.socketAt = "idle", !.socketOn = 0],
                    [page[t] EXCEPT !.socketAt = "adopted"]} : page' = [page EXCEPT ![t] = q]
    BY <1>1, <1>5, <1>7 DEF SocketResumes, WorkerTypes
  <2>2. SameFace(page[t], q) /\ q.queue = page[t].queue BY <1>1, <2>1 DEF WorkerPages, SameFace
  <2>3. phase' = phase BY <1>5, <1>7 DEF SocketResumes
  <2>4. PutsHold(tx', page[t].settings.actor, info)
    <3>1. PutsHold(Append(Without(tx, n), Put(t, "settings", page[t].settings, "socket")),
                   page[t].settings.actor, info)
      BY <1>1, <1>2, PutsSettings DEF WorkerQueues
    <3> QED BY <1>2, <1>5, <1>7, <3>1 DEF SocketResumes
  <2>5. SocketsHold(q, phase', peer', srv.ws) BY <1>1, <2>2, <2>3 DEF SocketsHold, SameFace
  <2> QED BY <1>3, <1>4, <2>1, <2>2, <2>4, <2>5, ResumedStep DEF SameFace
<1>8. CASE page[t].socketAt = "adopted"
  <2>1. PICK g : g = Greeted(page[t]) OBVIOUS
  <2>2. g \in WorkerPages /\ SameFace(page[t], g) /\ g.queue = page[t].queue
    <3>1. 0 \in 0 .. MaxSockets BY ConstantsAssumption
    <3> QED BY <1>1, <2>1, <3>1 DEF Greeted, WorkerPages, SameFace, SocketStages
  <2>3. /\ page' = [page EXCEPT ![t] = Pumped(g, page[t].socketOn)] /\ tx' = Without(tx, n)
        /\ phase' = phase
    BY <1>8, <2>1 DEF SocketResumes
  <2>4. PICK q : q = Pumped(g, page[t].socketOn) OBVIOUS
  <2>5. SameFace(g, q) /\ q.queue = g.queue BY <1>1, <2>2, <2>4, PumpedFace
  <2>6. SameFace(page[t], q) /\ q.queue = page[t].queue BY <2>2, <2>5 DEF SameFace
  <2>7. SocketsHold(q, phase', peer', srv.ws) BY <1>1, <2>3, <2>6 DEF SocketsHold, SameFace
  <2>8. page' = [page EXCEPT ![t] = q] BY <2>3, <2>4
  <2> QED BY <1>2, <1>3, <1>4, <2>3, <2>6, <2>7, <2>8, ResumedStep DEF SameFace
<1> QED BY <1>6, <1>7, <1>8 DEF SocketResumes

LEMMA ForkAborts ==
    ASSUME WorkerIInv, ForkIInv, NEW t, Tab = {t}, NEW n \in 1 .. Len(tx), Aborts(n)
    PROVE  ForkIInv'
<1>1. /\ WorkerTypes /\ page[t] \in WorkerPages /\ SocketsHold(page[t], phase, peer, srv.ws)
      /\ t \in Tab /\ PageHolds(page[t], MadeSoFar, info, drawn)
      /\ page[t].queue \in Seq(FramesDown) /\ page[t].socketOn \in 0 .. MaxSockets
  BY ForkFacts DEF WorkerPages
<1>2. /\ page[t].running /\ tx[n].tab = t /\ PutsHold(Without(tx, n), page[t].settings.actor, info)
  BY StoreCommits
<1>3. Carries(page[t].queue, page[t].replica.ws, info) BY <1>1, <1>2 DEF PageHolds
<1>4. /\ db' \in {db, Committed(db, tx[n])} /\ tx' = Without(tx, n)
      /\ UNCHANGED <<made, info, srv, refused, drawn, peer>>
  BY DEF Aborts, history, ghosts
<1>5. CASE page' = [page EXCEPT ![t].requestAt = "idle", ![t].requestFor = 0] /\ UNCHANGED phase
  <2>1. PICK q : q = [page[t] EXCEPT !.requestAt = "idle", !.requestFor = 0] OBVIOUS
  <2>2. page' = [page EXCEPT ![t] = q] BY <1>1, <1>5, <2>1 DEF WorkerTypes, WorkerPages
  <2>3. SameFace(page[t], q) /\ q.queue = page[t].queue BY <1>1, <2>1 DEF WorkerPages, SameFace
  <2>4. SocketsHold(q, phase', peer', srv.ws) BY <1>1, <1>4, <1>5, <2>3 DEF SocketsHold, SameFace
  <2> QED BY <1>2, <1>3, <1>4, <2>2, <2>3, <2>4, ResumedStep DEF SameFace
<1>6. CASE HandlerFails(t, page[t], page[t].socketOn)
  <2>1. PICK q : \E m \in 0 .. Len(page[t].queue) :
               /\ page' = [page EXCEPT ![t] = q] /\ q.running = page[t].running
               /\ q.settings = page[t].settings /\ q.replica = page[t].replica
               /\ q.current = page[t].current
               /\ q.queue = SubSeq(page[t].queue, 1, m) /\ SocketsHold(q, phase', peer', srv.ws)
    BY <1>1, <1>4, <1>6, Failing
  <2>2. Carries(q.queue, page[t].replica.ws, info) BY <1>1, <1>3, <2>1, CarriesPrefix
  <2> QED BY <1>2, <1>4, <2>1, <2>2, ResumedStep
<1> QED BY <1>2, <1>5, <1>6 DEF Aborts

\* Frames that arrive: a hello of the workspace hosted, or changes of it.
LEMMA CarriesAppend ==
    ASSUME NEW q \in Seq(AnyFrames), NEW lo \in Nat, NEW hi \in Nat, NEW of, Carries(q, lo, of),
           HostsIn(q, lo, hi), NEW f \in AnyFrames,
           f.msg.type # "hello" => Reaches(q, lo, hi) /\ \A c \in f.msg.changes : of[c].ws = hi
    PROVE  Carries(Append(q, f), lo, of)
<1> DEFINE z == Append(q, f)
<1>1. /\ Len(z) = Len(q) + 1 /\ Len(q) \in Nat /\ z[Len(q) + 1] = f
      /\ \A i \in 1 .. Len(q) : z[i] = q[i]
      /\ \A i \in 1 .. (Len(q) + 1) : i \in 1 .. Len(q) \/ i = Len(q) + 1
  BY Appended
<1> HIDE DEF z
<1>2. \A i \in 1 .. Len(q) : (HelloAt(z, i) <=> HelloAt(q, i)) /\ z[i] = q[i] BY <1>1 DEF HelloAt
<1> SUFFICES ASSUME NEW i \in 1 .. Len(z), ~HelloAt(z, i), NEW c \in z[i].msg.changes
             PROVE  /\ lo <= of[c].ws
                    /\ \A j \in 1 .. (i - 1) : HelloAt(z, j) => z[j].msg.ws <= of[c].ws
                    /\ of[c].ws = lo \/ \E j \in 1 .. (i - 1) : HelloAt(z, j) /\ z[j].msg.ws = of[c].ws
  BY DEF Carries, z
<1>3. CASE i \in 1 .. Len(q)
  <2>1. \A j \in 1 .. (i - 1) : j \in 1 .. Len(q) BY <1>1, <1>3
  <2>2. /\ lo <= of[c].ws
        /\ \A j \in 1 .. (i - 1) : HelloAt(q, j) => q[j].msg.ws <= of[c].ws
        /\ of[c].ws = lo \/ \E j \in 1 .. (i - 1) : HelloAt(q, j) /\ q[j].msg.ws = of[c].ws
    BY <1>2, <1>3 DEF Carries
  <2> QED BY <1>2, <2>1, <2>2
<1>4. CASE i = Len(q) + 1
  <2>1. of[c].ws = hi /\ Reaches(q, lo, hi) BY <1>1, <1>4 DEF HelloAt
  <2>2. \A j \in 1 .. (i - 1) : j \in 1 .. Len(q) BY <1>1, <1>4
  <2>3. \A j \in 1 .. Len(q) : j \in 1 .. (i - 1) BY <1>1, <1>4
  <2>4. lo <= hi /\ \A j \in 1 .. Len(q) : HelloAt(q, j) => q[j].msg.ws <= hi BY DEF HostsIn
  <2>5. \A j \in 1 .. (i - 1) : HelloAt(z, j) => z[j].msg.ws <= of[c].ws BY <1>2, <2>1, <2>2, <2>4
  <2>6. of[c].ws = lo \/ \E j \in 1 .. (i - 1) : HelloAt(z, j) /\ z[j].msg.ws = of[c].ws
    BY <1>2, <2>1, <2>3 DEF Reaches
  <2> QED BY <2>1, <2>4, <2>5, <2>6
<1> QED BY <1>1, <1>3, <1>4

LEMMA ReachesAppend ==
    ASSUME NEW q \in Seq(AnyFrames), NEW lo, NEW hi, NEW f \in AnyFrames,
           Reaches(q, lo, hi) \/ (f.msg.type = "hello" /\ f.msg.ws = hi)
    PROVE  Reaches(Append(q, f), lo, hi)
<1>1. /\ Len(Append(q, f)) = Len(q) + 1 /\ Len(q) \in Nat /\ Append(q, f)[Len(q) + 1] = f
      /\ \A i \in 1 .. Len(q) : Append(q, f)[i] = q[i] /\ i \in 1 .. (Len(q) + 1)
      /\ Len(q) + 1 \in 1 .. (Len(q) + 1)
  BY Appended
<1> QED BY <1>1 DEF Reaches, HelloAt

\* The same of all the frames that arrive together.
LEMMA JoinOne ==
    ASSUME NEW S, NEW q \in Seq(S), NEW a \in S
    PROVE  q \o <<a>> = Append(q, a)
OBVIOUS
LEMMA JoinTwo ==
    ASSUME NEW S, NEW q \in Seq(S), NEW a \in S, NEW b \in S
    PROVE  q \o <<a, b>> = Append(Append(q, a), b) /\ Append(q, a) \in Seq(S)
<1>1. \A x \in Seq(S), y \in S : Append(x, y) \in Seq(S) /\ Len(Append(x, y)) = Len(x) + 1
        /\ Append(x, y)[Len(x) + 1] = y /\ \A i \in 1 .. Len(x) : Append(x, y)[i] = x[i]
  BY Appended
<1>2. Append(q, a) \in Seq(S) /\ Append(Append(q, a), b) \in Seq(S) BY <1>1
<1> QED BY <1>2

\* The server greets or sends.
LEMMA ForkDelivers ==
    ASSUME WorkerIInv, ForkIInv, NEW t, Tab = {t}, NEW k \in Socket, NEW msgs, Deliver(k, msgs), NEW z,
           z = [i \in 1 .. Len(msgs) |-> [on |-> k, msg |-> msgs[i]]],
           Owns(t, k) /\ phase[k] = "open" =>
             /\ Carries(page[t].queue \o z, page[t].replica.ws, info)
             /\ Reaches(page[t].queue \o z, page[t].replica.ws, srv.ws),
           \A j \in Socket \ {k} : peer'[j] = peer[j],
           UNCHANGED <<db, tx, phase, srv, made, info, refused, drawn>>
    PROVE  ForkIInv'
<1>1. /\ WorkerTypes /\ page[t] \in WorkerPages /\ SocketsHold(page[t], phase, peer, srv.ws)
      /\ StoreHolds(db, tx, page[t], MadeSoFar, info, drawn) /\ t \in Tab
      /\ PageHolds(page[t], MadeSoFar, info, drawn)
  BY ForkFacts
<1>2. PICK q : q = page'[t] OBVIOUS
<1>3. CASE Owns(t, k) /\ phase[k] = "open"
  <2>1. q = [page[t] EXCEPT !.queue = page[t].queue \o z] BY <1>1, <1>2, <1>3 DEF Deliver
  <2>2. /\ q.running = page[t].running /\ q.settings = page[t].settings /\ q.replica = page[t].replica
        /\ q.current = page[t].current /\ q.queue = page[t].queue \o z
    BY <1>1, <2>1 DEF WorkerPages
  <2>3. PageHolds(q, MadeSoFar, info, drawn) BY <1>1, <1>3, <2>2 DEF PageHolds
  <2>4. StoreHolds(db', tx', q, MadeSoFar, info, drawn) BY <1>1, <2>2 DEF StoreHolds
  <2>5. SocketsHold(q, phase', peer', srv.ws)
    <3>1. \A j \in Socket \ {k} : phase[j] \notin {"connecting", "open"}
      BY <1>1, <1>3 DEF Owns, SocketsHold
    <3> QED BY <1>1, <1>3, <2>2, <3>1 DEF SocketsHold
  <2> QED BY <1>2, <2>3, <2>4, <2>5, ForkStep
<1>4. CASE ~(Owns(t, k) /\ phase[k] = "open")
  <2>1. q = page[t] BY <1>1, <1>2, <1>4 DEF Deliver
  <2>2. phase[k] # "open" BY <1>1, <1>4 DEF Owns, SocketsHold
  <2>3. SocketsHold(q, phase', peer', srv.ws) BY <1>1, <2>1, <2>2 DEF SocketsHold
  <2>4. StoreHolds(db', tx', q, MadeSoFar, info, drawn) BY <1>1, <2>1
  <2> QED BY <1>1, <1>2, <2>1, <2>3, <2>4, ForkStep
<1> QED BY <1>3, <1>4

LEMMA ForkServes ==
    ASSUME WorkerIInv, ForkIInv, NEW t, Tab = {t}, NEW k \in Socket, ServerGreets(k) \/ ServerSends(k)
    PROVE  ForkIInv'
<1>1. /\ WorkerTypes /\ page[t] \in WorkerPages /\ SocketsHold(page[t], phase, peer, srv.ws)
      /\ PageHolds(page[t], MadeSoFar, info, drawn) /\ page[t].queue \in Seq(AnyFrames)
      /\ page[t].replica.ws \in Nat /\ srv.ws \in Nat
      /\ HostsIn(page[t].queue, page[t].replica.ws, srv.ws)
      /\ srv.doc \in Docs
  BY ForkFacts DEF WorkerTypes, Snapshots
<1>2. Pure(srv, info) BY DEF ForkIInv, ServerHolds
<1>3. \A st : /\ SyncMsg(st, srv.doc) \in Syncs /\ SyncMsg(st, srv.doc).type # "hello"
              /\ \A c \in SyncMsg(st, srv.doc).changes : info[c].ws = srv.ws
  <2>1. ASSUME NEW st
        PROVE  /\ SyncMsg(st, srv.doc) \in Syncs /\ SyncMsg(st, srv.doc).type # "hello"
               /\ \A c \in SyncMsg(st, srv.doc).changes : info[c].ws = srv.ws
    <3>1. SyncMsg(st, srv.doc) \in Syncs BY <1>1, SentType
    <3>2. SyncMsg(st, srv.doc).changes \subseteq srv.doc /\ SyncMsg(st, srv.doc).type = "sync"
      BY DEF SyncMsg, Missing
    <3> QED BY <1>2, <3>1, <3>2 DEF Pure
  <2> QED BY <2>1
<1>4. \A m \in Syncs : [on |-> k, msg |-> m] \in AnyFrames /\ [on |-> k, msg |-> m].msg = m
  <2>1. \A m \in Syncs : [on |-> k, msg |-> m] \in FramesDown BY DEF FramesDown
  <2>2. FramesDown \subseteq AnyFrames BY <1>1, AnyTypes
  <2> QED BY <2>1, <2>2
<1> HIDE DEF SyncMsg
<1>5. CASE ServerGreets(k)
  <2> DEFINE hello == [type |-> "hello", ws |-> srv.ws]
             m == SyncMsg(NewSync, srv.doc)
             a == [on |-> k, msg |-> hello]
             b == [on |-> k, msg |-> m]
             msgs == <<hello, m>>
             z == [i \in 1 .. Len(msgs) |-> [on |-> k, msg |-> msgs[i]]]
             q == page[t].queue
  <2>1. /\ Deliver(k, msgs) /\ phase[k] = "open"
        /\ peer' = [peer EXCEPT ![k] = [at |-> "serving", sync |-> Generated(NewSync, srv.doc)]]
        /\ UNCHANGED <<db, tx, phase, srv, made, info, refused, drawn>>
    BY <1>5 DEF ServerGreets, history, ghosts
  <2>2. /\ a \in AnyFrames /\ a.msg.type = "hello" /\ a.msg.ws = srv.ws
        /\ b \in AnyFrames /\ b.msg = m
    <3>1. a \in AnyFrames BY <1>1 DEF AnyFrames
    <3> QED BY <1>3, <1>4, <3>1
  <2>3. z = <<a, b>>
    <3>1. Len(msgs) = 2 /\ msgs[1] = hello /\ msgs[2] = m OBVIOUS
    <3>2. \A i \in 1 .. 2 : i = 1 \/ i = 2 OBVIOUS
    <3> HIDE DEF hello, m, msgs
    <3> QED BY <3>1, <3>2
  <2>4. \A j \in Socket \ {k} : peer'[j] = peer[j] BY <2>1 DEF WorkerTypes
  <2>5. ASSUME Owns(t, k), phase[k] = "open"
        PROVE  /\ Carries(q \o z, page[t].replica.ws, info)
               /\ Reaches(q \o z, page[t].replica.ws, srv.ws)
    <3>1. Carries(q, page[t].replica.ws, info) BY <1>1, <2>5 DEF PageHolds, Owns
    <3> HIDE DEF a, b, z, m
    <3>2. q \o z = Append(Append(q, a), b) /\ Append(q, a) \in Seq(AnyFrames)
      BY <1>1, <2>2, <2>3, JoinTwo
    <3>3. Carries(Append(q, a), page[t].replica.ws, info) BY <1>1, <2>2, <3>1, CarriesAppend
    <3>4. Reaches(Append(q, a), page[t].replica.ws, srv.ws) BY <1>1, <2>2, ReachesAppend
    <3>5. HostsIn(Append(q, a), page[t].replica.ws, srv.ws) BY <1>1, <2>2, HostsAppend
    <3>6. Carries(Append(Append(q, a), b), page[t].replica.ws, info)
      BY <1>1, <1>3, <2>2, <3>2, <3>3, <3>4, <3>5, CarriesAppend DEF m
    <3>7. Reaches(Append(Append(q, a), b), page[t].replica.ws, srv.ws)
      BY <1>1, <2>2, <3>2, <3>4, ReachesAppend
    <3> QED BY <3>2, <3>6, <3>7
  <2> HIDE DEF msgs
  <2>6. PICK y : y = z OBVIOUS
  <2> QED BY <2>1, <2>4, <2>5, <2>6, ForkDelivers
<1>6. CASE ServerSends(k)
  <2> DEFINE m == SyncMsg(peer[k].sync, srv.doc)
             b == [on |-> k, msg |-> m]
             msgs == <<m>>
             z == [i \in 1 .. Len(msgs) |-> [on |-> k, msg |-> msgs[i]]]
             q == page[t].queue
  <2>1. /\ Deliver(k, msgs) /\ phase[k] = "open" /\ peer[k].at = "serving"
        /\ peer' = [peer EXCEPT ![k].sync = Generated(@, srv.doc)]
        /\ UNCHANGED <<db, tx, phase, srv, made, info, refused, drawn>>
    BY <1>6 DEF ServerSends, history, ghosts
  <2>2. b \in AnyFrames /\ b.msg = m BY <1>3, <1>4
  <2>3. z = <<b>> OBVIOUS
  <2>4. \A j \in Socket \ {k} : peer'[j] = peer[j] BY <2>1 DEF WorkerTypes
  <2>5. ASSUME Owns(t, k), phase[k] = "open"
        PROVE  /\ Carries(q \o z, page[t].replica.ws, info)
               /\ Reaches(q \o z, page[t].replica.ws, srv.ws)
    <3>1. Carries(q, page[t].replica.ws, info) BY <1>1, <2>5 DEF PageHolds, Owns
    <3>2. Reaches(q, page[t].replica.ws, srv.ws) BY <1>1, <2>1 DEF SocketsHold
    <3> HIDE DEF b, z, m
    <3>3. q \o z = Append(q, b) BY <1>1, <2>2, <2>3, JoinOne
    <3>4. Carries(Append(q, b), page[t].replica.ws, info)
      BY <1>1, <1>3, <2>2, <3>1, <3>2, CarriesAppend DEF m
    <3>5. Reaches(Append(q, b), page[t].replica.ws, srv.ws) BY <1>1, <2>2, <3>2, ReachesAppend
    <3> QED BY <3>3, <3>4, <3>5
  <2> HIDE DEF msgs
  <2>6. PICK y : y = z OBVIOUS
  <2> QED BY <2>1, <2>4, <2>5, <2>6, ForkDelivers
<1> QED BY <1>5, <1>6

\* A socket that is not open yet is not served.
Fresh ==
    \A k \in Socket : /\ k > dialled => phase[k] = "unused"
                      /\ phase[k] \in {"unused", "connecting"} => peer[k].at = "waiting"

LEMMA FreshMoves ==
    ASSUME Fresh, dialled' = dialled,
           \A k \in Socket : \/ phase'[k] = phase[k]
                             \/ phase'[k] \notin {"unused", "connecting"} /\ ~(k > dialled),
           \A k \in Socket : peer'[k] = peer[k] \/ phase'[k] \notin {"unused", "connecting"}
    PROVE  Fresh'
BY DEF Fresh

LEMMA FreshConnects ==
    ASSUME WorkerTypes, Fresh, NEW t, NEW p, ConnectNow(t, p)
    PROVE  Fresh'
<1>1. dialled \in Nat /\ phase \in [Socket -> Phases]
  BY ConstantsAssumption DEF WorkerTypes, SocketTypes
<1>2. CASE UNCHANGED sockets BY <1>2 DEF Fresh, sockets
<1>3. CASE /\ dialled' = dialled + 1 /\ phase' = [phase EXCEPT ![dialled + 1] = "connecting"]
           /\ UNCHANGED <<up, peer>>
  <2>1. \A k \in Socket : k \in Nat BY ConstantsAssumption DEF Socket
  <2>2. \A k \in Socket : (k > dialled + 1 => k > dialled /\ k # dialled + 1) BY <1>1, <2>1
  <2>3. dialled + 1 > dialled BY <1>1
  <2>4. \A k \in Socket : phase'[k] = IF k = dialled + 1 THEN "connecting" ELSE phase[k] BY <1>1, <1>3
  <2> QED BY <1>3, <2>2, <2>3, <2>4 DEF Fresh
<1> QED BY <1>2, <1>3 DEF ConnectNow

LEMMA FreshSteps == ASSUME WorkerIInv, Fresh, Next PROVE Fresh'
<1>1. /\ WorkerTypes /\ dialled \in Nat /\ phase \in [Socket -> Phases] /\ peer \in [Socket -> Peers]
      /\ \A t \in Tab : page[t] \in WorkerPages
  BY ConstantsAssumption DEF WorkerIInv, WorkerTypes, SocketTypes
<1>2. \A k \in Socket : k \in Nat /\ (Live(k) => ~(k > dialled)) /\ (phase[k] # "unused" => ~(k > dialled))
  BY ConstantsAssumption DEF Socket, Fresh, Live
<1>3. \A t \in Tab, k \in Socket : page[t].current = k => ~(k > dialled)
  BY <1>1, <1>2 DEF WorkerPages
<1>4. ASSUME NEW t, NEW p, NEW k, Live(k), Close(t, p, k), UNCHANGED <<dialled, peer>> PROVE Fresh'
  <2>1. phase' = [phase EXCEPT ![k] = "closing"] BY <1>4 DEF Close
  <2> QED BY <1>1, <1>2, <1>4, <2>1, FreshMoves
<1>5. ASSUME UNCHANGED <<dialled, phase, peer>> PROVE Fresh' BY <1>5 DEF Fresh
<1>6. ASSUME NEW t, NEW p, NEW k, HandlerFails(t, p, k), UNCHANGED <<dialled, peer>> PROVE Fresh'
  BY <1>4, <1>5, <1>6 DEF HandlerFails
<1>7. ASSUME NEW t \in Tab, Request(t) \/ ReconnectTimer(t) \/ Unload(t) PROVE Fresh'
  <2>1. CASE WipeLocalData(t) \/ Unload(t)
    <3>1. phase' \in {[k \in Socket |-> IF k = page[t].current /\ phase[k] # "closed" THEN "closing" ELSE phase[k]],
                      [k \in Socket |-> IF Owns(t, k) /\ phase[k] # "closed" THEN "closing" ELSE phase[k]]}
          /\ UNCHANGED <<dialled, peer>>
      BY <2>1 DEF WipeLocalData, Unload
    <3>2. \A k \in Socket : phase'[k] = phase[k] \/ (phase'[k] = "closing" /\ page[t].current = k)
      BY <3>1 DEF Owns
    <3> QED BY <1>3, <3>1, <3>2, FreshMoves
  <2>2. CASE Load(t) \/ SetAccessToken(t) \/ ReconnectTimer(t)
    BY <1>1, <2>2, FreshConnects DEF Load, SetAccessToken, ReconnectTimer
  <2>3. CASE RefreshSync(t) BY <1>1, <1>5, <2>3, FreshConnects DEF RefreshSync
  <2>4. CASE SetClientId(t) \/ PutWrites(t) BY <1>5, <2>4 DEF SetClientId, PutWrites, sockets
  <2> QED BY <1>7, <2>1, <2>2, <2>3, <2>4 DEF Request
<1>8. ASSUME NEW t \in Tab, HandleFrame(t) PROVE Fresh'
  <2>1. CASE HelloKnown(t) BY <1>5, <2>1 DEF HelloKnown
  <2>2. CASE HelloAdopts(t) BY <1>5, <1>6, <2>2 DEF HelloAdopts
  <2>3. CASE ReceiveSyncMessage(t) BY <1>5, <1>6, <2>3 DEF ReceiveSyncMessage
  <2> QED BY <1>8, <2>1, <2>2, <2>3 DEF HandleFrame
<1>9. ASSUME NEW n \in 1 .. Len(tx), Completes(n) \/ Aborts(n) PROVE Fresh'
  <2>1. CASE Aborts(n) BY <1>5, <1>6, <2>1 DEF Aborts
  <2>2. CASE Completes(n) /\ RequestResumes(tx[n].tab, n)
    BY <1>1, <1>5, <2>2, FreshConnects DEF RequestResumes, sockets
  <2>3. CASE Completes(n) /\ SocketResumes(tx[n].tab, n) /\ UNCHANGED <<peer, dialled>>
    BY <1>5, <1>6, <2>3 DEF SocketResumes
  <2> QED BY <1>9, <2>1, <2>2, <2>3 DEF Completes
<1>10. ASSUME NEW k \in Socket, SocketEvent(k) \/ ServerTask(k) PROVE Fresh'
  <2>1. CASE SocketOpens(k) \/ SocketClosed(k)
    <3>1. /\ phase' \in {[phase EXCEPT ![k] = "open"], [phase EXCEPT ![k] = "closed"]}
          /\ phase[k] # "unused" /\ UNCHANGED <<dialled, peer>>
      BY <2>1 DEF SocketOpens, SocketClosed
    <3> QED BY <1>1, <1>2, <3>1, FreshMoves
  <2>2. CASE \E t \in Tab : SocketBreaks(t, k) BY <1>4, <2>2 DEF SocketBreaks
  <2>3. CASE ServerGreets(k) \/ ServerSends(k)
    <3>1. /\ phase[k] = "open" /\ UNCHANGED <<dialled, phase>>
          /\ \A j \in Socket \ {k} : peer'[j] = peer[j]
      BY <1>1, <2>3 DEF ServerGreets, ServerSends
    <3> QED BY <3>1, FreshMoves
  <2>4. CASE ServerReceives(k)
    <3>1. peer[k].at = "serving" /\ dialled' = dialled /\ (\A j \in Socket \ {k} : peer'[j] = peer[j])
          /\ \/ phase' = phase
             \/ phase' = [phase EXCEPT ![k] = IF Live(k) THEN "closing" ELSE @]
      BY <1>1, <2>4 DEF ServerReceives
    <3>2. phase[k] \notin {"unused", "connecting"} BY <3>1 DEF Fresh
    <3>3. \A j \in Socket : phase'[j] = phase[j] \/ (j = k /\ phase'[j] = "closing") BY <1>1, <3>1
    <3>4. phase'[k] \notin {"unused", "connecting"} BY <3>2, <3>3
    <3> QED BY <1>2, <3>1, <3>2, <3>3, <3>4, FreshMoves
  <2>5. CASE ServerEnds(k)
    <3>1. /\ phase[k] \in {"closing", "closed"} /\ UNCHANGED <<dialled, phase>>
          /\ \A j \in Socket \ {k} : peer'[j] = peer[j]
      BY <1>1, <2>5 DEF ServerEnds
    <3> QED BY <3>1, FreshMoves
  <2> QED BY <1>10, <2>1, <2>2, <2>3, <2>4, <2>5 DEF SocketEvent, ServerTask
<1>11. CASE ForeignChange BY <1>5, <1>11 DEF ForeignChange, sockets
<1>12. CASE Rehost
  <2>1. /\ \A k \in Socket : phase'[k] = phase[k] \/ (phase'[k] = "closing" /\ Live(k))
        /\ \A k \in Socket : peer'[k] = peer[k] \/ peer[k].at = "serving"
        /\ dialled' = dialled
    BY <1>12 DEF Rehost
  <2>2. \A k \in Socket : peer[k].at = "serving" => phase'[k] \notin {"unused", "connecting"}
    BY <2>1 DEF Fresh
  <2> QED BY <1>2, <2>1, <2>2, FreshMoves
<1> QED BY <1>7, <1>8, <1>9, <1>10, <1>11, <1>12 DEF Next, Transaction

\* Sockets open, break and close.
LEMMA ForkSockets ==
    ASSUME WorkerIInv, Fresh, ForkIInv, NEW t, Tab = {t}, NEW k \in Socket, SocketEvent(k) \/ ServerEnds(k)
    PROVE  ForkIInv'
<1>1. /\ WorkerTypes /\ page[t] \in WorkerPages /\ SocketsHold(page[t], phase, peer, srv.ws)
      /\ StoreHolds(db, tx, page[t], MadeSoFar, info, drawn) /\ t \in Tab
      /\ PageHolds(page[t], MadeSoFar, info, drawn) /\ page[t].queue \in Seq(FramesDown)
      /\ phase \in [Socket -> Phases] /\ peer \in [Socket -> Peers]
  BY ForkFacts DEF WorkerTypes, SocketTypes
<1>2. /\ UNCHANGED <<made, info, srv, refused, drawn>> /\ db' = db /\ tx' = tx
  BY DEF SocketEvent, SocketOpens, SocketClosed, SocketBreaks, ServerEnds, history, ghosts
<1>3. PutsHold(tx', page[t].settings.actor, info) BY <1>1, <1>2 DEF StoreHolds
<1>4. CASE SocketOpens(k)
  <2>1. phase' = [phase EXCEPT ![k] = "open"] /\ phase[k] = "connecting" /\ page' = page /\ peer' = peer
    BY <1>4 DEF SocketOpens
  <2>2. peer[k].at = "waiting" BY <2>1 DEF Fresh
  <2>3. \A j \in Socket : phase'[j] = IF j = k THEN "open" ELSE phase[j] BY <1>1, <2>1
  <2>4. SocketsHold(page[t], phase', peer', srv.ws) BY <1>1, <2>1, <2>2, <2>3 DEF SocketsHold
  <2>5. StoreHolds(db', tx', page[t], MadeSoFar, info, drawn) BY <1>1, <1>2
  <2>6. page'[t] = page[t] BY <2>1
  <2> QED BY <1>1, <1>2, <2>4, <2>5, <2>6, ForkStep
<1>5. CASE SocketClosed(k)
  <2>1. phase' = [phase EXCEPT ![k] = "closed"] /\ phase[k] = "closing" /\ peer' = peer
    BY <1>5 DEF SocketClosed
  <2>2. \A j \in Socket : phase'[j] = IF j = k THEN "closed" ELSE phase[j] BY <1>1, <2>1
  <2>3. CASE Owns(t, k) /\ Disconnected(t, k)
    <3>1. PICK q : q = [page[t] EXCEPT !.current = 0, !.connection = "offline",
                                       !.timer = @ \/ page[t].settings.named]
      OBVIOUS
    <3>2. page' = [page EXCEPT ![t] = q] BY <1>1, <2>3, <3>1 DEF Disconnected, WorkerTypes, WorkerPages
    <3>3. /\ q.running = page[t].running /\ q.settings = page[t].settings /\ q.replica = page[t].replica
          /\ q.queue = page[t].queue
      BY <1>1, <3>1 DEF WorkerPages
    <3>4. \A j \in Socket : phase'[j] \notin {"connecting", "open"}
      BY <1>1, <2>1, <2>2, <2>3 DEF SocketsHold, Owns
    <3>5. SocketsHold(q, phase', peer', srv.ws) BY <3>4 DEF SocketsHold
    <3>6. PageHolds(q, MadeSoFar, info, drawn) BY <1>1, <3>3 DEF PageHolds
    <3>7. StoreHolds(db', tx', q, MadeSoFar, info, drawn) BY <1>1, <1>2, <3>3 DEF StoreHolds
    <3>8. page'[t] = q BY <1>1, <3>2 DEF WorkerTypes
    <3> QED BY <1>2, <3>5, <3>6, <3>7, <3>8, ForkStep
  <2>4. CASE UNCHANGED page
    <3>1. SocketsHold(page[t], phase', peer', srv.ws) BY <1>1, <2>1, <2>2 DEF SocketsHold
    <3>2. StoreHolds(db', tx', page[t], MadeSoFar, info, drawn) BY <1>1, <1>2
    <3>3. page'[t] = page[t] BY <2>4
    <3> QED BY <1>1, <1>2, <3>1, <3>2, <3>3, ForkStep
  <2> QED BY <1>5, <2>3, <2>4 DEF SocketClosed
<1>6. CASE \E u \in Tab : SocketBreaks(u, k)
  <2>1. Live(k) /\ Close(t, page[t], k) /\ peer' = peer BY <1>6 DEF SocketBreaks
  <2>2. PICK q : \E m \in 0 .. Len(page[t].queue) :
               /\ page' = [page EXCEPT ![t] = q] /\ q.running = page[t].running
               /\ q.settings = page[t].settings /\ q.replica = page[t].replica
               /\ q.current = page[t].current
               /\ q.queue = SubSeq(page[t].queue, 1, m) /\ SocketsHold(q, phase', peer', srv.ws)
    BY <1>1, <2>1, Closing
  <2>3. SameFace(page[t], q) BY <2>2 DEF SameFace
  <2>4. Carries(page[t].queue, page[t].replica.ws, info) => Carries(q.queue, page[t].replica.ws, info)
    BY <1>1, <2>2, CarriesPrefix
  <2> QED BY <1>2, <1>3, <2>2, <2>3, <2>4, FaceStep
<1>7. CASE ServerEnds(k)
  <2>1. /\ phase[k] \in {"closing", "closed"} /\ phase' = phase /\ page' = page
        /\ \A j \in Socket \ {k} : peer'[j] = peer[j]
    BY <1>1, <1>7 DEF ServerEnds
  <2>2. SocketsHold(page[t], phase', peer', srv.ws) BY <1>1, <2>1 DEF SocketsHold
  <2>3. StoreHolds(db', tx', page[t], MadeSoFar, info, drawn) BY <1>1, <1>2
  <2>4. page'[t] = page[t] BY <2>1
  <2> QED BY <1>1, <1>2, <2>2, <2>3, <2>4, ForkStep
<1> QED BY <1>4, <1>5, <1>6, <1>7 DEF SocketEvent

-----------------------------------------------------------------------------
\* The page comes, is wiped, or goes.
LEMMA NoneOpen ==
    ASSUME NEW p, NEW ph, NEW pe, NEW h, \A k \in Socket : ph[k] \notin {"connecting", "open"}
    PROVE  SocketsHold(p, ph, pe, h)
BY DEF SocketsHold

LEMMA ForkLoads ==
    ASSUME WorkerIInv, ForkIInv, NEW t, Tab = {t}, Load(t)
    PROVE  ForkIInv'
<1>1. /\ WorkerTypes /\ t \in Tab /\ ~page[t].running /\ page[t] = Blank
      /\ db.settings \in SettingsKept /\ db.replica \in Snapshots
      /\ made \in Nat /\ dialled \in Nat /\ drawn \in Nat /\ page \in [Tab -> WorkerPages]
      /\ SocketsHold(page[t], phase, peer, srv.ws)
      /\ StoreHolds(db, tx, page[t], MadeSoFar, info, drawn)
  <2>1. ~page[t].running BY DEF Load
  <2> QED BY <2>1, ForkFacts, ConstantsAssumption DEF WorkerIInv, WorkerTypes, Awaits, PageOK, Databases
<1>2. PICK s : s = IF db.settings = NoSettings THEN [NoSettings EXCEPT !.actor = drawn + 1] ELSE db.settings
  OBVIOUS
<1>3. /\ db' = [db EXCEPT !.settings = s]
      /\ drawn' = IF db.settings = NoSettings THEN drawn + 1 ELSE drawn
      /\ UNCHANGED <<tx, srv, made, info, refused>>
      /\ \E online \in BOOLEAN :
           ConnectNow(t, [Blank EXCEPT !.running = TRUE, !.token = online,
                                   !.settings = s, !.replica = db.replica])
  BY <1>2 DEF Load, history, ghosts
<1>4. PICK online \in BOOLEAN :
           ConnectNow(t, [Blank EXCEPT !.running = TRUE, !.token = online,
                                   !.settings = s, !.replica = db.replica])
  BY <1>3
<1>5. PICK p : p = [Blank EXCEPT !.running = TRUE, !.token = online, !.settings = s, !.replica = db.replica]
  OBVIOUS
<1>6. tx = <<>>
  <2>1. OneTab BY DEF OneTab
  <2> QED BY <1>1, <2>1, NothingUnderWay
<1>7. /\ s \in SettingsKept /\ s # NoSettings /\ s.actor \in 1 .. drawn' /\ drawn' \in Nat /\ drawn <= drawn'
      /\ HoldsAll(s.actor, db.replica, MadeSoFar, info)
  <2>1. NoSettings \in SettingsKept /\ NoSettings.actor = 0 BY <1>1, BlankPage DEF NoSettings
  <2>2. CASE db.settings = NoSettings
    <3>1. s.actor = drawn + 1 /\ s \in SettingsKept /\ drawn' = drawn + 1
      BY <1>1, <1>2, <1>3, <2>1, <2>2 DEF SettingsKept
    <3>2. \A c \in MadeSoFar \ Firsts : info[c].actor # drawn + 1
      <4>1. \A c \in MadeSoFar \ Firsts : info[c].actor \in 0 .. drawn BY DEF ForkIInv, Numbered
      <4> QED BY <1>1, <4>1
    <3>3. db.replica.ws = 0 BY <1>1, <2>1, <2>2 DEF StoreHolds, NoReplica
    <3>4. \A c \in Firsts : info[c].ws \in Nat /\ info[c].ws # 0 BY Numbering DEF ForkIInv, Numbered
    <3>5. \A c \in Firsts : ~(info[c].ws <= db.replica.ws) BY <3>3, <3>4
    <3> QED BY <1>1, <2>1, <3>1, <3>2, <3>5 DEF HoldsAll, Due
  <2>3. CASE db.settings # NoSettings
    <3>1. s = db.settings /\ drawn' = drawn BY <1>2, <1>3, <2>3
    <3>2. s.actor \in 0 .. drawn /\ s.actor # 0 BY <1>1, <2>3, <3>1 DEF StoreHolds
    <3>3. HoldsAll(s.actor, db.replica, MadeSoFar, info) BY <1>1, <2>3, <3>1 DEF StoreHolds
    <3> QED BY <1>1, <2>3, <3>1, <3>2, <3>3
  <2> QED BY <2>2, <2>3
<1>8. p \in WorkerPages /\ p.running /\ p.settings = s /\ p.replica = db.replica /\ p.queue = <<>>
  <2>1. PICK z : z = Blank OBVIOUS
  <2>2. z \in WorkerPages BY <1>1, <2>1, BlankPage
  <2>3. z.queue = <<>> BY <2>1 DEF Blank
  <2>4. p = [z EXCEPT !.running = TRUE, !.token = online, !.settings = s, !.replica = db.replica]
    BY <1>5, <2>1
  <2> QED BY <1>1, <1>7, <2>2, <2>3, <2>4 DEF WorkerPages
<1>9. SocketsHold(p, phase, peer, srv.ws)
  <2>1. \A k \in Socket : phase[k] \notin {"connecting", "open"} BY <1>1 DEF SocketsHold
  <2> QED BY <2>1, NoneOpen
<1>10. PICK q : /\ page' = [page EXCEPT ![t] = q] /\ q.running = p.running
                /\ q.settings = p.settings /\ q.replica = p.replica /\ q.queue = p.queue
                /\ SocketsHold(q, phase', peer', srv.ws)
  BY <1>1, <1>4, <1>5, <1>8, <1>9, Connecting
<1>11. page'[t] = q BY <1>1, <1>10
<1>12. MadeSoFar' = MadeSoFar BY <1>3 DEF MadeSoFar
<1>13. Numbered(MadeSoFar, info, drawn', srv.ws)
  <2>1. \A c \in MadeSoFar \ Firsts : info[c].actor \in 0 .. drawn' BY <1>1, <1>7 DEF ForkIInv, Numbered
  <2> QED BY <2>1 DEF ForkIInv, Numbered
<1>14. Pure(db.replica, info) BY <1>1 DEF StoreHolds
<1>15. PageHolds(q, MadeSoFar, info, drawn')
  <2>1. Carries(<<>>, db.replica.ws, info) BY DEF Carries
  <2> QED BY <1>7, <1>8, <1>10, <1>14, <2>1 DEF PageHolds
<1>16. StoreHolds(db', tx', q, MadeSoFar, info, drawn')
  <2>1. db'.settings = s /\ db'.replica = db.replica BY <1>1, <1>3 DEF WorkerTypes, Databases
  <2>2. s.actor \in 0 .. drawn' /\ s.actor # 0 BY <1>7
  <2>3. PutsHold(tx', q.settings.actor, info) BY <1>3, <1>6 DEF PutsHold
  <2> QED BY <1>8, <1>10, <1>14, <2>1, <2>2, <2>3 DEF StoreHolds
<1> QED BY <1>3, <1>10, <1>11, <1>12, <1>13, <1>15, <1>16 DEF ForkIInv

LEMMA BlankFork ==
    ASSUME ForkIInv, NEW t, Tab = {t}, page'[t] = Blank, tx' = <<>>,
           UNCHANGED <<made, info, srv, refused, drawn>>,
           Pure(db'.replica, info), db'.settings.actor \in 0 .. drawn,
           db'.settings.actor = 0 => db'.settings = NoSettings /\ db'.replica = NoReplica,
           db'.settings # NoSettings => HoldsAll(db'.settings.actor, db'.replica, MadeSoFar, info),
           \A k \in Socket : phase'[k] \notin {"connecting", "open"}
    PROVE  ForkIInv'
<1>1. ~Blank.running BY DEF Blank
<1>2. PageHolds(Blank, MadeSoFar, info, drawn) BY <1>1 DEF PageHolds
<1>3. StoreHolds(db', tx', Blank, MadeSoFar, info, drawn)
  <2>1. PutsHold(tx', Blank.settings.actor, info) BY DEF PutsHold
  <2> HIDE DEF Blank
  <2> QED BY <1>1, <2>1 DEF StoreHolds
<1>4. SocketsHold(Blank, phase', peer', srv.ws) BY NoneOpen
<1> HIDE DEF Blank
<1> QED BY <1>2, <1>3, <1>4, ForkStep

LEMMA ForkWiped ==
    ASSUME WorkerIInv, ForkIInv, NEW t, Tab = {t}, WipeLocalData(t)
    PROVE  ForkIInv'
<1>1. /\ WorkerTypes /\ t \in Tab /\ drawn \in Nat /\ SocketsHold(page[t], phase, peer, srv.ws)
      /\ page \in [Tab -> WorkerPages]
  BY ForkFacts DEF WorkerTypes
<1>2. /\ page' = [page EXCEPT ![t] = Blank] /\ db' = EmptyDb /\ tx' = <<>>
      /\ phase' = [k \in Socket |->
            IF k = page[t].current /\ phase[k] # "closed" THEN "closing" ELSE phase[k]]
      /\ UNCHANGED <<made, info, srv, refused, drawn>>
  <2>1. \A u \in Tab \ {t} : ~page[u].running OBVIOUS
  <2> QED BY <2>1 DEF WipeLocalData, history
<1>3. page'[t] = Blank BY <1>1, <1>2
<1>4. /\ db'.settings = NoSettings /\ db'.settings.actor = 0 /\ Pure(db'.replica, info)
      /\ db'.replica = NoReplica
  BY <1>2 DEF EmptyDb, NoSettings, NoReplica, Pure
<1>5. 0 \in 0 .. drawn BY <1>1
<1>6. \A k \in Socket : phase'[k] \notin {"connecting", "open"} BY <1>1, <1>2 DEF SocketsHold
<1> QED BY <1>2, <1>3, <1>4, <1>5, <1>6, BlankFork

\* What the page that goes away leaves stored has all that its actor wrote.
Saved == HoldsAll(db.settings.actor, db.replica, MadeSoFar, info)
LeavesSaved == \A t \in Tab : Unload(t) => Saved'

LEMMA ForkUnloads ==
    ASSUME WorkerIInv, ForkIInv, NEW t, Tab = {t}, Unload(t), Saved'
    PROVE  ForkIInv'
<1>1. /\ WorkerTypes /\ t \in Tab /\ drawn \in Nat /\ SocketsHold(page[t], phase, peer, srv.ws)
      /\ page \in [Tab -> WorkerPages] /\ tx \in Seq(Puts)
      /\ PageHolds(page[t], MadeSoFar, info, drawn)
      /\ StoreHolds(db, tx, page[t], MadeSoFar, info, drawn)
  BY ForkFacts DEF WorkerTypes
<1>2. /\ page[t].running /\ page' = [page EXCEPT ![t] = Blank] /\ tx' = OfOthers(t)
      /\ phase' = [k \in Socket |-> IF Owns(t, k) /\ phase[k] # "closed" THEN "closing" ELSE phase[k]]
      /\ UNCHANGED <<made, info, srv, refused, drawn>>
  BY DEF Unload, history, ghosts
<1>3. page'[t] = Blank BY <1>1, <1>2
<1>4. PICK u : db' = LeftBy(t, u) BY DEF Unload
<1>5. /\ \/ db'.replica = db.replica
         \/ \E j \in 1 .. Len(tx) : tx[j].store = "replica" /\ db'.replica = tx[j].value
      /\ \/ db'.settings = db.settings
         \/ \E j \in 1 .. Len(tx) : tx[j].store = "settings" /\ db'.settings = tx[j].value
  BY <1>1, <1>4, LeftStored
<1>6. PutsHold(tx, page[t].settings.actor, info) /\ Pure(db.replica, info)
      /\ db.settings.actor = page[t].settings.actor /\ page[t].settings.actor \in 1 .. drawn
  BY <1>1, <1>2 DEF StoreHolds, PageHolds
<1>7. Pure(db'.replica, info)
  <2>1. ASSUME NEW j \in 1 .. Len(tx), tx[j].store = "replica" PROVE Pure(tx[j].value, info)
    BY <1>6, <2>1 DEF PutsHold
  <2> QED BY <1>5, <1>6, <2>1
<1>8. db'.settings.actor = page[t].settings.actor
  <2>1. ASSUME NEW j \in 1 .. Len(tx), tx[j].store = "settings"
        PROVE  tx[j].value.actor = page[t].settings.actor
    BY <1>6, <2>1 DEF PutsHold
  <2> QED BY <1>5, <1>6, <2>1
<1>9. db'.settings.actor \in 0 .. drawn /\ db'.settings.actor # 0 BY <1>1, <1>6, <1>8
<1>10. HoldsAll(db'.settings.actor, db'.replica, MadeSoFar, info)
  <2>1. MadeSoFar' = MadeSoFar /\ info' = info BY <1>2 DEF MadeSoFar
  <2> QED BY <2>1 DEF Saved
<1>11. tx' = <<>>
  <2>1. tx' \in Seq(Puts) BY <1>1, <1>2, OthersGoOn
  <2>2. PICK f : Others(f, tx', tx, t, Len(tx)) BY <1>1, <1>2, OthersGoOn
  <2>3. ASSUME NEW m \in 1 .. Len(tx') PROVE FALSE
    <3>1. f[m] \in 1 .. Len(tx) /\ tx[f[m]].tab # t BY <2>2, <2>3 DEF Others
    <3>2. tx[f[m]] \in Puts BY <1>1, <3>1
    <3>3. tx[f[m]].tab \in Tab BY <3>2 DEF Puts, SettingsPuts, ReplicaPuts
    <3> QED BY <3>1, <3>3
  <2>4. Len(tx') \in Nat BY <2>1
  <2>5. Len(tx') = 0
    <3>1. 1 \notin 1 .. Len(tx') BY <2>3
    <3> QED BY <2>4, <3>1
  <2> QED BY <2>1, <2>5
<1>12. \A k \in Socket : phase'[k] \notin {"connecting", "open"} BY <1>1, <1>2 DEF SocketsHold, Owns
<1> QED BY <1>2, <1>3, <1>7, <1>9, <1>10, <1>11, <1>12, BlankFork

-----------------------------------------------------------------------------
\* A change is written by an actor into a replica that has all of its changes.
Adds(cs, of, ot, dr, h, X, a, n) ==
    /\ IsFiniteSet(cs) /\ Numbered(cs, of, dr, h) /\ n \notin cs /\ X.doc \subseteq cs
    /\ X.ws \in Nat /\ X.ws <= h /\ a \in 0 .. dr /\ Pure(X, of) /\ HoldsAll(a, X, cs, of)
    /\ ot[n] = [ws |-> X.ws, actor |-> a, seq |-> Cardinality({c \in X.doc : of[c].actor = a}) + 1,
                past |-> X.doc]
    /\ \A c \in cs : ot[c] = of[c]

LEMMA AddsNumbered ==
    ASSUME NEW cs, NEW of, NEW ot, NEW dr, NEW h, NEW X, NEW a, NEW n, Adds(cs, of, ot, dr, h, X, a, n)
    PROVE  Numbered(cs \cup {n}, ot, dr, h)
<1> DEFINE mine == ByActor(a, X.ws, cs, of)
           ds == cs \cup {n}
<1>1. {c \in X.doc : of[c].actor = a} = mine
  <2>1. ASSUME NEW c \in cs, of[c].actor = a, of[c].ws = X.ws PROVE c \in X.doc
    <3>0. Due(c, X, of) BY <2>1 DEF Due, Adds
    <3>1. Keeps(X, c, X.ws) BY <2>1, <3>0 DEF Adds, HoldsAll
    <3> QED BY <3>1 DEF Keeps, Adds
  <2> QED BY <2>1 DEF Adds, Pure, ByActor
<1>2. IsFiniteSet(mine) /\ Cardinality(mine) \in Nat /\ n \notin mine
  <2>1. mine \subseteq cs BY DEF ByActor
  <2>2. IsFiniteSet(mine) BY <2>1, FS_Subset DEF Adds
  <2> QED BY <2>1, <2>2, FS_CardinalityType DEF Adds
<1>3. ot[n].ws = X.ws /\ ot[n].actor = a /\ ot[n].seq = Cardinality(mine) + 1
  <2> DEFINE his == {c \in X.doc : of[c].actor = a}
  <2>1. ot[n] = [ws |-> X.ws, actor |-> a, seq |-> Cardinality(his) + 1, past |-> X.doc] BY DEF Adds
  <2>2. his = mine BY <1>1
  <2> HIDE DEF his, mine
  <2> QED BY <2>1, <2>2
<1>4. Cardinality(mine \cup {n}) = Cardinality(mine) + 1 BY <1>2, FS_AddElement
<1>5. ByActor(a, X.ws, ds, ot) = mine \cup {n} BY <1>3 DEF ByActor, Adds
<1>6. ASSUME NEW b, NEW w, b # a \/ w # X.ws PROVE ByActor(b, w, ds, ot) = ByActor(b, w, cs, of)
  BY <1>3, <1>6 DEF ByActor, Adds
<1> HIDE DEF mine
<1>7. \A c \in cs : /\ of[c].seq \in Nat /\ of[c].seq <= Cardinality(ByActor(of[c].actor, of[c].ws, cs, of))
                    /\ c \notin Firsts => of[c].actor \in 0 .. dr /\ of[c].ws <= h
                    /\ of[c].ws \in Nat /\ ot[c] = of[c]
  BY DEF Adds, Numbered
<1>8. ASSUME NEW c \in ds
      PROVE  /\ ot[c].seq \in Nat /\ ot[c].seq <= Cardinality(ByActor(ot[c].actor, ot[c].ws, ds, ot))
             /\ c \notin Firsts => ot[c].actor \in 0 .. dr /\ ot[c].ws <= h
             /\ ot[c].ws \in Nat
  <2>1. CASE c = n
    <3>1. ByActor(ot[c].actor, ot[c].ws, ds, ot) = mine \cup {n} BY <1>3, <1>5, <2>1
    <3>2. Cardinality(mine) + 1 \in Nat /\ Cardinality(mine) + 1 <= Cardinality(mine) + 1 BY <1>2
    <3>3. a \in 0 .. dr /\ X.ws \in Nat /\ X.ws <= h BY DEF Adds
    <3> QED BY <1>3, <1>4, <2>1, <3>1, <3>2, <3>3
  <2>2. CASE c \in cs
    <3>1. CASE of[c].actor # a \/ of[c].ws # X.ws BY <1>6, <1>7, <2>2, <3>1
    <3>2. CASE of[c].actor = a /\ of[c].ws = X.ws
      <4>1. of[c].seq <= Cardinality(mine) /\ of[c].seq \in Nat BY <1>7, <2>2, <3>2 DEF mine
      <4>2. of[c].seq <= Cardinality(mine) + 1 BY <1>2, <4>1
      <4> QED BY <1>4, <1>5, <1>7, <2>2, <3>2, <4>2
    <3> QED BY <3>1, <3>2
  <2> QED BY <2>1, <2>2
<1>9. ASSUME NEW c \in cs, ot[c].actor = a, ot[c].ws = X.ws PROVE ot[c].seq # Cardinality(mine) + 1
  <2>1. of[c].seq <= Cardinality(mine) /\ of[c].seq \in Nat BY <1>7, <1>9 DEF mine
  <2> QED BY <1>2, <1>7, <2>1
<1>10. \A c, d \in ds : ot[c].actor = ot[d].actor /\ ot[c].ws = ot[d].ws /\ ot[c].seq = ot[d].seq => c = d
  <2>1. \A c, d \in cs : ot[c].actor = ot[d].actor /\ ot[c].ws = ot[d].ws /\ ot[c].seq = ot[d].seq => c = d
    BY <1>7 DEF Adds, Numbered
  <2> QED BY <1>3, <1>9, <2>1
<1>11. Firsts \subseteq ds /\ \A c \in Firsts : ot[c] = Beginnings[c] BY <1>7 DEF Adds, Numbered
<1> QED BY <1>8, <1>10, <1>11 DEF Numbered

\* What replicas and queues hold of the changes before, they hold after it.
LEMMA AddsKeep ==
    ASSUME NEW cs, NEW of, NEW ot, NEW dr, NEW h, NEW X, NEW a, NEW n, Adds(cs, of, ot, dr, h, X, a, n)
    PROVE  /\ \A Y : Y.doc \subseteq cs /\ Pure(Y, of) => Pure(Y, ot)
           /\ \A Y, b : b # a /\ HoldsAll(b, Y, cs, of) => HoldsAll(b, Y, cs \cup {n}, ot)
<1>1. ot[n].actor = a BY DEF Adds
<1>2. \A Y : Y.doc \subseteq cs /\ Pure(Y, of) => Pure(Y, ot) BY DEF Adds, Pure
<1>3. \A Y, b : b # a /\ HoldsAll(b, Y, cs, of) => HoldsAll(b, Y, cs \cup {n}, ot)
  BY <1>1 DEF Adds, HoldsAll, Due
<1> QED BY <1>2, <1>3

\* The replica it is written into is its actor's.
LEMMA AddsHold ==
    ASSUME NEW cs, NEW of, NEW ot, NEW dr, NEW h, NEW X, NEW a, NEW n, Adds(cs, of, ot, dr, h, X, a, n),
           NEW Y, Y.ws = X.ws, Y.doc = X.doc \cup {n}
    PROVE  Pure(Y, ot) /\ HoldsAll(a, Y, cs \cup {n}, ot)
<1>1. ot[n].ws = X.ws /\ ot[n].actor = a BY DEF Adds
<1>2. Pure(Y, ot) BY <1>1 DEF Adds, Pure
<1>3. ASSUME NEW c \in cs, of[c].actor = a, Due(c, Y, of) PROVE Keeps(Y, c, of[c].ws)
  <2>0. Due(c, X, of) BY <1>3 DEF Due
  <2>1. Keeps(X, c, of[c].ws) BY <1>3, <2>0 DEF Adds, HoldsAll
  <2> QED BY <2>1 DEF Keeps
<1>4. Keeps(Y, n, ot[n].ws) BY <1>1 DEF Keeps
<1> QED BY <1>2, <1>3, <1>4 DEF HoldsAll, Adds, Due

LEMMA CarriesStays ==
    ASSUME NEW q, NEW lo, NEW cs, NEW of, NEW ot, Carries(q, lo, of), \A c \in cs : ot[c] = of[c],
           \A i \in 1 .. Len(q) : ~HelloAt(q, i) => q[i].msg.changes \subseteq cs
    PROVE  Carries(q, lo, ot)
<1> SUFFICES ASSUME NEW i \in 1 .. Len(q), ~HelloAt(q, i), NEW c \in q[i].msg.changes
             PROVE  /\ lo <= ot[c].ws
                    /\ \A j \in 1 .. (i - 1) : HelloAt(q, j) => q[j].msg.ws <= ot[c].ws
                    /\ ot[c].ws = lo \/ \E j \in 1 .. (i - 1) : HelloAt(q, j) /\ q[j].msg.ws = ot[c].ws
  BY DEF Carries
<1>1. ot[c] = of[c] OBVIOUS
<1> HIDE DEF HelloAt
<1> QED BY <1>1 DEF Carries

\* The puts' snapshots have changes made.
LEMMA PutsMade ==
    ASSUME WorkerTypes, NEW i \in 1 .. Len(tx), tx[i].store # "settings"
    PROVE  tx[i].value.doc \subseteq MadeSoFar
<1>1. tx[i] \in ReplicaPuts BY DEF WorkerTypes, Puts, SettingsPuts
<1> QED BY <1>1 DEF ReplicaPuts, Snapshots, Docs, MadeSoFar

LEMMA ForkAdds ==
    ASSUME WorkerIInv, ForkIInv, NEW t, Tab = {t}, made < MaxChanges, NEW X, X \in Snapshots,
           X.ws <= srv.ws, Pure(X, info), NEW a \in 0 .. drawn, HoldsAll(a, X, MadeSoFar, info),
           made' = NextChange, info' = [info EXCEPT ![NextChange] = Written(X.doc, X.ws, a)]
    PROVE  /\ Adds(MadeSoFar, info, info', drawn, srv.ws, X, a, NextChange)
           /\ MadeSoFar' = MadeSoFar \cup {NextChange}
<1>1. /\ WorkerTypes /\ made \in Nat /\ MaxChanges \in Nat /\ MadeSoFar \subseteq Change
  BY ForkFacts, ConstantsAssumption
<1>2. NextChange \in Change /\ NextChange \notin MadeSoFar
  BY <1>1 DEF NextChange, Change, MadeSoFar
<1>3. info' [NextChange] = Written(X.doc, X.ws, a) /\ \A c \in MadeSoFar : info'[c] = info[c]
  BY <1>1, <1>2 DEF WorkerTypes, InfoTypes
<1>4. MadeSoFar' = MadeSoFar \cup {NextChange} BY <1>1 DEF MadeSoFar, NextChange
<1>5. IsFiniteSet(MadeSoFar) BY <1>1, FS_Interval DEF MadeSoFar
<1>6. X.doc \subseteq MadeSoFar /\ X.ws \in Nat BY DEF Snapshots, Docs, MadeSoFar
<1>7. Numbered(MadeSoFar, info, drawn, srv.ws) BY DEF ForkIInv
<1> QED BY <1>2, <1>3, <1>4, <1>5, <1>6, <1>7 DEF Adds, Written

LEMMA ForkPuts ==
    ASSUME WorkerIInv, ForkIInv, NEW t, Tab = {t}, PutWrites(t)
    PROVE  ForkIInv'
<1>1. /\ t \in Tab /\ WorkerTypes /\ page[t] \in WorkerPages /\ page \in [Tab -> WorkerPages]
      /\ tx \in Seq(Puts) /\ drawn \in Nat /\ srv.ws \in Nat /\ page[t].replica.ws \in Nat
      /\ MadeSoFar \subseteq Change
      /\ page[t].replica.doc \subseteq MadeSoFar /\ srv.doc \subseteq MadeSoFar
      /\ HostsIn(page[t].queue, page[t].replica.ws, srv.ws)
      /\ \A i \in 1 .. Len(page[t].queue) :
            ~HelloAt(page[t].queue, i) => page[t].queue[i].msg.changes \subseteq MadeSoFar
      /\ PageHolds(page[t], MadeSoFar, info, drawn)
      /\ StoreHolds(db, tx, page[t], MadeSoFar, info, drawn)
      /\ SocketsHold(page[t], phase, peer, srv.ws)
  BY ForkFacts DEF WorkerTypes
<1>2. PICK r : r = [page[t].replica EXCEPT !.doc = @ \cup {NextChange}] OBVIOUS
<1>3. /\ page[t].running /\ made < MaxChanges /\ made' = NextChange
      /\ info' = [info EXCEPT ![NextChange] =
                     Written(page[t].replica.doc, page[t].replica.ws, page[t].settings.actor)]
      /\ page' = [page EXCEPT ![t].replica = r, ![t].settings.dirty = TRUE,
                              ![t].requestAt = "replica", ![t].requestFor = NextChange]
      /\ tx' = Append(tx, Put(t, "replica", r, "request"))
      /\ UNCHANGED <<db, phase, peer, srv, refused, drawn>>
  BY <1>2 DEF PutWrites, Ready, sockets, ghosts
<1>4. r.ws = page[t].replica.ws /\ r.doc = page[t].replica.doc \cup {NextChange}
  BY <1>1, <1>2 DEF WorkerPages, Snapshots
<1>5. PICK q : q = [page[t] EXCEPT !.replica = r, !.settings.dirty = TRUE,
                                   !.requestAt = "replica", !.requestFor = NextChange]
  OBVIOUS
<1>6. page'[t] = q BY <1>1, <1>3, <1>5
<1>7. /\ q.running = page[t].running /\ q.settings.actor = page[t].settings.actor /\ q.replica = r
      /\ q.queue = page[t].queue /\ q.current = page[t].current
  BY <1>1, <1>5 DEF WorkerPages, SettingsKept
<1>8. /\ page[t].settings.actor \in 1 .. drawn /\ Pure(page[t].replica, info)
      /\ HoldsAll(page[t].settings.actor, page[t].replica, MadeSoFar, info)
      /\ Carries(page[t].queue, page[t].replica.ws, info)
  BY <1>1, <1>3 DEF PageHolds
<1>9. page[t].settings.actor \in 0 .. drawn /\ page[t].settings.actor # Foreign
  BY <1>1, <1>8 DEF Foreign
<1>10. page[t].replica \in Snapshots /\ page[t].replica.ws <= srv.ws BY <1>1 DEF WorkerPages, HostsIn
<1>11. /\ Adds(MadeSoFar, info, info', drawn, srv.ws, page[t].replica, page[t].settings.actor, NextChange)
       /\ MadeSoFar' = MadeSoFar \cup {NextChange}
  BY <1>3, <1>8, <1>9, <1>10, ForkAdds
<1>12. /\ \A Y : Y.doc \subseteq MadeSoFar /\ Pure(Y, info) => Pure(Y, info')
       /\ \A Y, b : b # page[t].settings.actor /\ HoldsAll(b, Y, MadeSoFar, info) => HoldsAll(b, Y, MadeSoFar', info')
       /\ Pure(r, info') /\ HoldsAll(page[t].settings.actor, r, MadeSoFar', info')
       /\ Numbered(MadeSoFar', info', drawn, srv.ws)
  <2>1. Numbered(MadeSoFar', info', drawn, srv.ws) BY <1>11, AddsNumbered
  <2>2. \A Y : Y.doc \subseteq MadeSoFar /\ Pure(Y, info) => Pure(Y, info') BY <1>11, AddsKeep
  <2>3. \A Y, b : b # page[t].settings.actor /\ HoldsAll(b, Y, MadeSoFar, info)
                      => HoldsAll(b, Y, MadeSoFar \cup {NextChange}, info')
    BY <1>11, AddsKeep
  <2>4. Pure(r, info') /\ HoldsAll(page[t].settings.actor, r, MadeSoFar \cup {NextChange}, info')
    BY <1>4, <1>11, AddsHold
  <2> QED BY <1>11, <2>1, <2>2, <2>3, <2>4
<1>13. ServerHolds(srv, refused, MadeSoFar', info')
  <2>1. ServerHolds(srv, refused, MadeSoFar, info) BY DEF ForkIInv
  <2> QED BY <1>1, <1>9, <1>12, <2>1 DEF ServerHolds
<1>14. PageHolds(q, MadeSoFar', info', drawn)
  <2>1. \A c \in MadeSoFar : info'[c] = info[c] BY <1>11 DEF Adds
  <2>0. \A i \in 1 .. Len(page[t].queue) :
          ~HelloAt(page[t].queue, i) => page[t].queue[i].msg.changes \subseteq MadeSoFar
    BY <1>1
  <2>2. Carries(page[t].queue, page[t].replica.ws, info') BY <1>8, <2>0, <2>1, CarriesStays
  <2> QED BY <1>4, <1>7, <1>8, <1>12, <2>2 DEF PageHolds
<1>15. StoreHolds(db', tx', q, MadeSoFar', info', drawn)
  <2>1. Pure(db.replica, info')
    <3>1. db.replica.doc \subseteq MadeSoFar BY <1>1 DEF WorkerTypes, Databases, Snapshots, Docs, MadeSoFar
    <3> QED BY <1>1, <1>12, <3>1 DEF StoreHolds
  <2>2. PutsHold(tx, page[t].settings.actor, info')
    <3>1. ASSUME NEW i \in 1 .. Len(tx), tx[i].store # "settings" PROVE Pure(tx[i].value, info')
      <4>1. Pure(tx[i].value, info) BY <1>1, <3>1 DEF StoreHolds, PutsHold
      <4> QED BY <1>1, <1>12, <3>1, <4>1, PutsMade
    <3>2. \A i \in 1 .. Len(tx) : tx[i].store = "settings" => tx[i].value.actor = page[t].settings.actor
      BY <1>1 DEF StoreHolds, PutsHold
    <3> QED BY <3>1, <3>2 DEF PutsHold
  <2>3. PutsHold(tx', page[t].settings.actor, info')
    <3>1. Put(t, "replica", r, "request").store # "settings" /\ Put(t, "replica", r, "request").value = r
      BY DEF Put
    <3>2. PICK w : w = Put(t, "replica", r, "request") OBVIOUS
    <3>3. tx \in Seq(Puts \cup {w}) BY <1>1, LongerSeq
    <3>4. PutsHold(Append(tx, w), page[t].settings.actor, info')
      BY <1>12, <2>2, <3>1, <3>2, <3>3, PutsAppend
    <3> QED BY <1>3, <3>2, <3>4
  <2>4. db' = db BY <1>3
  <2> QED BY <1>1, <1>3, <1>7, <2>1, <2>3, <2>4 DEF StoreHolds
<1>16. SocketsHold(q, phase', peer', srv.ws) BY <1>1, <1>3, <1>4, <1>7 DEF SocketsHold
<1>17. srv' = srv /\ refused' = refused /\ drawn' = drawn BY <1>3
<1> QED BY <1>6, <1>12, <1>13, <1>14, <1>15, <1>16, <1>17 DEF ForkIInv

-----------------------------------------------------------------------------
\* The server merges what it receives of its own workspace.
LEMMA ForkMerges ==
    ASSUME WorkerIInv, ForkIInv, NEW t, Tab = {t}, NEW k \in Socket, ServerReceives(k),
           \A c \in Head(up[k]).changes : info[c].ws = srv.ws
    PROVE  ForkIInv'
<1> DEFINE m == Head(up[k])
<1>1. /\ WorkerTypes /\ t \in Tab /\ srv \in Snapshots /\ srv.doc \in Docs
      /\ up[k] \in Seq(FramesUp) /\ up[k] # <<>> /\ peer[k].at = "serving"
      /\ peer \in [Socket -> Peers]
      /\ ServerHolds(srv, refused, MadeSoFar, info) /\ Numbered(MadeSoFar, info, drawn, srv.ws)
      /\ PageHolds(page[t], MadeSoFar, info, drawn)
      /\ StoreHolds(db, tx, page[t], MadeSoFar, info, drawn)
      /\ SocketsHold(page[t], phase, peer, srv.ws)
  BY ForkFacts DEF WorkerTypes, SocketTypes, ServerReceives, ForkIInv, Snapshots
<1>2. m.changes \in Docs
  <2>1. m \in FramesUp BY <1>1
  <2> QED BY <2>1 DEF FramesUp, Syncs
<1>3. ~Forks(srv.doc, m.changes) BY <1>1, <1>2, NoForks DEF ServerHolds
<1>4. PICK doc \in Applied(srv.doc, m.changes) :
      /\ srv' = [srv EXCEPT !.doc = doc] /\ peer' = [peer EXCEPT ![k].sync = Received(@, doc, m)]
      /\ UNCHANGED <<phase, refused, page, db, tx, made, info, drawn>>
  BY <1>3 DEF ServerReceives, history
<1>5. srv.doc \subseteq doc /\ doc \subseteq srv.doc \cup m.changes BY <1>1, <1>2, MergedDocs
<1>6. srv'.ws = srv.ws /\ srv'.doc = doc BY <1>1, <1>4 DEF Snapshots
<1>7. ServerHolds(srv', refused, MadeSoFar, info)
  <2>1. Pure(srv', info) BY <1>1, <1>5, <1>6 DEF ServerHolds, Pure
  <2>2. HoldsAll(Foreign, srv', MadeSoFar, info)
    BY <1>1, <1>5, <1>6 DEF ServerHolds, HoldsAll, Keeps, Due
  <2> QED BY <1>1, <2>1, <2>2 DEF ServerHolds
<1>8. SocketsHold(page[t], phase', peer', srv'.ws)
  <2>1. \A j \in Socket : peer'[j].at = peer[j].at BY <1>1, <1>4 DEF Peers
  <2> QED BY <1>1, <1>4, <1>6, <2>1 DEF SocketsHold
<1>9. MadeSoFar' = MadeSoFar /\ page'[t] = page[t] /\ db' = db /\ tx' = tx /\ refused' = refused
      /\ info' = info /\ drawn' = drawn
  BY <1>4 DEF MadeSoFar
<1> QED BY <1>1, <1>6, <1>7, <1>8, <1>9 DEF ForkIInv

LEMMA ForkForeign ==
    ASSUME WorkerIInv, ForkIInv, NEW t, Tab = {t}, ForeignChange
    PROVE  ForkIInv'
<1>1. /\ WorkerTypes /\ t \in Tab /\ srv \in Snapshots /\ srv.ws \in Nat /\ drawn \in Nat
      /\ srv.doc \subseteq MadeSoFar /\ page[t].replica.doc \subseteq MadeSoFar
      /\ db.replica.doc \subseteq MadeSoFar
      /\ \A i \in 1 .. Len(page[t].queue) :
            ~HelloAt(page[t].queue, i) => page[t].queue[i].msg.changes \subseteq MadeSoFar
      /\ ServerHolds(srv, refused, MadeSoFar, info)
      /\ PageHolds(page[t], MadeSoFar, info, drawn)
      /\ StoreHolds(db, tx, page[t], MadeSoFar, info, drawn)
      /\ SocketsHold(page[t], phase, peer, srv.ws)
  BY ForkFacts DEF WorkerTypes, ForkIInv, Databases, Snapshots, Docs, MadeSoFar
<1>2. /\ made < MaxChanges /\ made' = NextChange
      /\ info' = [info EXCEPT ![NextChange] = Written(srv.doc, srv.ws, Foreign)]
      /\ srv' = [srv EXCEPT !.doc = @ \cup {NextChange}]
      /\ UNCHANGED <<page, db, tx, phase, peer, refused, drawn>>
  BY DEF ForeignChange, sockets, ghosts
<1>3. Foreign \in 0 .. drawn /\ srv.ws <= srv.ws BY <1>1 DEF Foreign
<1>4. Pure(srv, info) /\ HoldsAll(Foreign, srv, MadeSoFar, info) /\ refused = {}
  BY <1>1 DEF ServerHolds
<1>5. /\ Adds(MadeSoFar, info, info', drawn, srv.ws, srv, Foreign, NextChange)
      /\ MadeSoFar' = MadeSoFar \cup {NextChange}
  BY <1>1, <1>2, <1>3, <1>4, ForkAdds
<1>6. srv'.ws = srv.ws /\ srv'.doc = srv.doc \cup {NextChange} BY <1>1, <1>2 DEF Snapshots
<1>7. Numbered(MadeSoFar', info', drawn, srv.ws) BY <1>5, AddsNumbered
<1>8. \A Y : Y.doc \subseteq MadeSoFar /\ Pure(Y, info) => Pure(Y, info') BY <1>5, AddsKeep
<1>9. \A Y, b : b # Foreign /\ HoldsAll(b, Y, MadeSoFar, info) => HoldsAll(b, Y, MadeSoFar', info')
  BY <1>5, AddsKeep
<1>10. Pure(srv', info') /\ HoldsAll(Foreign, srv', MadeSoFar', info') BY <1>5, <1>6, AddsHold
<1>11. ServerHolds(srv', refused', MadeSoFar', info') BY <1>2, <1>4, <1>10 DEF ServerHolds
<1>12. \A c \in MadeSoFar : info'[c] = info[c] BY <1>5 DEF Adds
<1>13. PageHolds(page[t], MadeSoFar', info', drawn)
  <2> SUFFICES ASSUME page[t].running
               PROVE  /\ page[t].settings.actor \in 1 .. drawn /\ Pure(page[t].replica, info')
                      /\ HoldsAll(page[t].settings.actor, page[t].replica, MadeSoFar', info')
                      /\ Carries(page[t].queue, page[t].replica.ws, info')
    BY DEF PageHolds
  <2>1. /\ page[t].settings.actor \in 1 .. drawn /\ Pure(page[t].replica, info)
        /\ HoldsAll(page[t].settings.actor, page[t].replica, MadeSoFar, info)
        /\ Carries(page[t].queue, page[t].replica.ws, info)
    BY <1>1 DEF PageHolds
  <2>2. page[t].settings.actor # Foreign BY <1>1, <2>1 DEF Foreign
  <2>3. \A i \in 1 .. Len(page[t].queue) :
            ~HelloAt(page[t].queue, i) => page[t].queue[i].msg.changes \subseteq MadeSoFar
    BY <1>1
  <2>4. Carries(page[t].queue, page[t].replica.ws, info') BY <1>12, <2>1, <2>3, CarriesStays
  <2> QED BY <1>1, <1>8, <1>9, <2>1, <2>2, <2>4
<1>14. StoreHolds(db, tx, page[t], MadeSoFar', info', drawn)
  <2>1. Pure(db.replica, info') BY <1>1, <1>8 DEF StoreHolds
  <2>2. PutsHold(tx, page[t].settings.actor, info')
    <3>1. ASSUME NEW i \in 1 .. Len(tx), tx[i].store # "settings" PROVE Pure(tx[i].value, info')
      <4>1. Pure(tx[i].value, info) BY <1>1, <3>1 DEF StoreHolds, PutsHold
      <4> QED BY <1>1, <1>8, <3>1, <4>1, PutsMade
    <3>2. \A i \in 1 .. Len(tx) : tx[i].store = "settings" => tx[i].value.actor = page[t].settings.actor
      BY <1>1 DEF StoreHolds, PutsHold
    <3> QED BY <3>1, <3>2 DEF PutsHold
  <2>3. ASSUME ~page[t].running, db.settings # NoSettings
        PROVE  HoldsAll(db.settings.actor, db.replica, MadeSoFar', info')
    <3>1. HoldsAll(db.settings.actor, db.replica, MadeSoFar, info) BY <1>1, <2>3 DEF StoreHolds
    <3>2. db.settings.actor # Foreign BY <1>1, <2>3 DEF StoreHolds, Foreign
    <3> QED BY <1>9, <3>1, <3>2
  <2> QED BY <1>1, <2>1, <2>2, <2>3 DEF StoreHolds
<1>15. page'[t] = page[t] /\ db' = db /\ tx' = tx /\ drawn' = drawn /\ phase' = phase /\ peer' = peer
  BY <1>2
<1> QED BY <1>1, <1>6, <1>7, <1>11, <1>13, <1>14, <1>15 DEF ForkIInv

LEMMA ForkRehosts ==
    ASSUME WorkerIInv, ForkIInv, NEW t, Tab = {t}, Rehost
    PROVE  ForkIInv'
<1>1. /\ t \in Tab /\ srv.ws \in Nat /\ Numbered(MadeSoFar, info, drawn, srv.ws) /\ refused = {}
      /\ PageHolds(page[t], MadeSoFar, info, drawn)
      /\ StoreHolds(db, tx, page[t], MadeSoFar, info, drawn)
  BY ForkFacts DEF ForkIInv, ServerHolds
<1>2. /\ srv' = [ws |-> srv.ws + 1, doc |-> Begins(srv.ws + 1, Foreign)]
      /\ phase' = [j \in Socket |-> IF Live(j) THEN "closing" ELSE phase[j]]
      /\ UNCHANGED <<page, db, tx, made, info, refused, drawn>>
  BY DEF Rehost, history, ghosts
<1>3. MadeSoFar' = MadeSoFar BY <1>2 DEF MadeSoFar
<1>4. Numbered(MadeSoFar, info, drawn, srv'.ws)
  <2>1. \A c \in MadeSoFar \ Firsts : info[c].ws <= srv'.ws BY <1>1, <1>2 DEF Numbered
  <2> QED BY <1>1, <2>1 DEF Numbered
<1>5. ServerHolds(srv', refused, MadeSoFar, info)
  <2>1. \A c \in MadeSoFar \ Firsts : info[c].ws < srv'.ws BY <1>1, <1>2 DEF Numbered
  <2>2. ASSUME NEW c \in MadeSoFar, info[c].actor = Foreign, Due(c, srv', info)
        PROVE  Keeps(srv', c, info[c].ws)
    <3>1. CASE c \in Firsts
      <4>1. srv'.ws = srv.ws + 1 /\ srv.ws + 1 \in Nat /\ srv'.doc = Begins(srv.ws + 1, Foreign)
        BY <1>1, <1>2
      <4> QED BY <1>1, <2>2, <3>1, <4>1, BegunHolds
    <3>2. CASE c \notin Firsts BY <2>1, <3>2 DEF Keeps
    <3> QED BY <3>1, <3>2
  <2>3. Pure(srv', info) BY <1>1, <1>2, BegunPure
  <2> QED BY <1>1, <2>2, <2>3 DEF ServerHolds, HoldsAll
<1>6. \A j \in Socket : phase'[j] \notin {"connecting", "open"}
  <2>1. \A j \in Socket : j # 0 BY ConstantsAssumption DEF Socket
  <2> QED BY <1>2, <2>1 DEF Live
<1>7. SocketsHold(page[t], phase', peer', srv'.ws) BY <1>6, NoneOpen
<1>8. page'[t] = page[t] /\ db' = db /\ tx' = tx /\ drawn' = drawn /\ info' = info /\ refused' = refused
  BY <1>2
<1> QED BY <1>1, <1>3, <1>4, <1>5, <1>7, <1>8 DEF ForkIInv

LEMMA ForkStarts ==
    ASSUME Init
    PROVE  Fresh /\ ForkIInv
<1>1. /\ page = [t \in Tab |-> Blank] /\ tx = <<>> /\ made = Len(Beginnings) /\ dialled = 0
      /\ refused = {} /\ phase = [k \in Socket |-> "unused"] /\ peer = [k \in Socket |-> Waiting]
      /\ \/ db = Enrolled /\ drawn = 1 /\ srv = Enrolled.replica
         \/ db = EmptyDb /\ drawn = 0 /\ srv = [ws |-> 1, doc |-> Begins(1, Foreign)]
  BY DEF Init
<1>2. Fresh BY <1>1 DEF Fresh, Waiting
<1>3. MadeSoFar = Firsts /\ MadeSoFar \subseteq Change
  <2>1. MadeSoFar = Firsts BY <1>1 DEF MadeSoFar, Firsts
  <2> QED BY <2>1, Numbering, ConstantsAssumption DEF Firsts, Change
<1>4. \A c \in Firsts : info[c] = Beginnings[c] BY <1>3 DEF Init
<1>5. Numbered(MadeSoFar, info, drawn, srv.ws)
  <2>1. ASSUME NEW c \in Firsts
        PROVE  info[c].seq <= Cardinality(ByActor(info[c].actor, info[c].ws, MadeSoFar, info))
    <3> DEFINE his == ByActor(info[c].actor, info[c].ws, MadeSoFar, info)
    <3>1. his \subseteq Firsts /\ c \in his BY <1>3 DEF ByActor
    <3>2. IsFiniteSet(Firsts) BY Numbering, FS_Interval DEF Firsts
    <3>3. IsFiniteSet(his) BY <3>1, <3>2, FS_Subset
    <3>4. Cardinality(his) \in Nat /\ Cardinality(his) # 0 BY <3>1, <3>3, FS_CardinalityType, FS_EmptySet
    <3>5. info[c].seq = 1 BY <1>4, Numbering
    <3> HIDE DEF his
    <3>6. 1 <= Cardinality(his) BY <3>4
    <3> QED BY <3>5, <3>6 DEF his
  <2>2. \A c \in Firsts : info[c].seq = 1 /\ info[c].ws \in Nat BY <1>4, Numbering
  <2>3. \A c, d \in Firsts : info[c].actor = info[d].actor /\ info[c].ws = info[d].ws => c = d
    BY <1>4, Numbering
  <2>4. 1 \in Nat OBVIOUS
  <2> QED BY <1>3, <1>4, <2>1, <2>2, <2>3, <2>4 DEF Numbered
<1>6. ASSUME NEW X, NEW a, X.ws = 1, Begins(1, a) \subseteq X.doc
      PROVE  HoldsAll(a, X, MadeSoFar, info)
  <2>1. 1 \in Nat OBVIOUS
  <2>2. \A c \in Firsts : info[c].actor = a /\ Due(c, X, info) => Keeps(X, c, info[c].ws)
    BY <1>5, <1>6, <2>1, BegunHolds
  <2> QED BY <1>3, <2>2 DEF HoldsAll
<1>7. ASSUME NEW X, X.ws = 1, \A c \in X.doc : \E a : c \in Begins(1, a)
      PROVE  Pure(X, info)
  BY <1>4, <1>7 DEF Pure, Begins
<1>8. ServerHolds(srv, refused, MadeSoFar, info)
  <2>1. srv.ws = 1 /\ Begins(1, Foreign) \subseteq srv.doc
        /\ \A c \in srv.doc : \E a : c \in Begins(1, a)
    BY <1>1 DEF Enrolled
  <2> QED BY <1>1, <1>6, <1>7, <2>1 DEF ServerHolds
<1>9. /\ db.settings.actor \in 0 .. drawn /\ Pure(db.replica, info)
      /\ (db.settings.actor = 0 => db.settings = NoSettings /\ db.replica = NoReplica)
      /\ (db.settings # NoSettings => HoldsAll(db.settings.actor, db.replica, MadeSoFar, info))
  <2>1. CASE db = Enrolled /\ drawn = 1
    <3>1. /\ db.settings.actor = 1 /\ db.replica.ws = 1 /\ Begins(1, 1) \subseteq db.replica.doc
          /\ \A c \in db.replica.doc : \E a : c \in Begins(1, a)
      BY <2>1 DEF Enrolled
    <3> QED BY <1>6, <1>7, <2>1, <3>1
  <2>2. CASE db = EmptyDb /\ drawn = 0 BY <2>2 DEF EmptyDb, NoSettings, NoReplica, Pure
  <2> QED BY <1>1, <2>1, <2>2
<1>10. ASSUME NEW t \in Tab
       PROVE  /\ PageHolds(page[t], MadeSoFar, info, drawn)
              /\ StoreHolds(db, tx, page[t], MadeSoFar, info, drawn)
              /\ SocketsHold(page[t], phase, peer, srv.ws)
  <2>1. page[t] = Blank /\ ~Blank.running BY <1>1 DEF Blank
  <2>2. PutsHold(tx, page[t].settings.actor, info) BY <1>1 DEF PutsHold
  <2> HIDE DEF Blank
  <2>3. PageHolds(page[t], MadeSoFar, info, drawn) BY <2>1 DEF PageHolds
  <2>4. StoreHolds(db, tx, page[t], MadeSoFar, info, drawn) BY <1>9, <2>1, <2>2 DEF StoreHolds
  <2>5. SocketsHold(page[t], phase, peer, srv.ws) BY <1>1, NoneOpen
  <2> QED BY <2>3, <2>4, <2>5
<1> QED BY <1>2, <1>5, <1>8, <1>10 DEF ForkIInv

\* The server receives changes of its own workspace only.
TakesOwn == \A k \in Socket : ServerReceives(k) => \A c \in Head(up[k]).changes : info[c].ws = srv.ws

LEMMA ForkSteps ==
    ASSUME WorkerIInv, Fresh, ForkIInv, OneTab, [Next]_vars, [LeavesSaved]_vars, [TakesOwn]_vars
    PROVE  ForkIInv'
<1>0. PICK t : Tab = {t} BY ConstantsAssumption DEF OneTab
<1>1. CASE UNCHANGED vars
  <2>1. UNCHANGED <<page, db, tx, made, info, srv, refused, drawn, phase, peer>>
    BY <1>1 DEF vars, sockets, history, ghosts
  <2>2. MadeSoFar' = MadeSoFar BY <2>1 DEF MadeSoFar
  <2> QED BY <2>1, <2>2 DEF ForkIInv
<1>2. CASE Next /\ LeavesSaved /\ TakesOwn
  <2>1. CASE Request(t) \/ HandleFrame(t) \/ ReconnectTimer(t) \/ Unload(t)
    <3>1. CASE Unload(t) BY <1>0, <1>2, <3>1, ForkUnloads DEF LeavesSaved
    <3>2. CASE RefreshSync(t) BY <1>0, <3>2, ForkConnects, ForkRefreshes
    <3> QED BY <1>0, <2>1, <3>1, <3>2, ForkLoads, ForkConnects, ForkNamed, ForkPuts, ForkWiped,
            ForkGreeted, ForkAdopts, ForkReceives
         DEF Request, HandleFrame
  <2>2. ASSUME NEW n \in 1 .. Len(tx), Completes(n) \/ Aborts(n) PROVE ForkIInv'
    <3>1. CASE Aborts(n) BY <1>0, <3>1, ForkAborts
    <3>2. CASE Completes(n)
      <4>1. tx[n].tab = t BY <1>0, StoreCommits
      <4>2. \/ RequestResumes(t, n)
            \/ SocketResumes(t, n) /\ peer' = peer
        BY <3>2, <4>1 DEF Completes
      <4> QED BY <1>0, <3>2, <4>2, ForkRequestEnds, ForkSocketEnds
    <3> QED BY <2>2, <3>1, <3>2
  <2>3. ASSUME NEW k \in Socket, SocketEvent(k) \/ ServerTask(k) PROVE ForkIInv'
    <3>1. CASE ServerReceives(k) BY <1>0, <1>2, <3>1, ForkMerges DEF TakesOwn
    <3> QED BY <1>0, <2>3, <3>1, ForkSockets, ForkServes DEF ServerTask
  <2>4. CASE ForeignChange BY <1>0, <2>4, ForkForeign
  <2>5. CASE Rehost BY <1>0, <2>5, ForkRehosts
  <2> QED BY <1>0, <1>2, <2>1, <2>2, <2>3, <2>4, <2>5 DEF Next, Transaction
<1> QED BY <1>1, <1>2

\* With one tab, neither end ever refuses the other's frame (README.md:4-5) but for two
\* causes.  A page that goes away while the snapshot it leaves in IndexedDB lacks a change of
\* its own: the actor id survives in the settings, and its next edits bear the lost ones'
\* numbers.  And a frame that brings a server set up afresh the changes of the old workspace,
\* which refreshSync sends before the hello is handled (runtime.worker.ts:381-385): they bear
\* the numbers of the first changes of the new replica.
THEOREM FramesForkTwoWays ==
    ASSUME OneTab
    PROVE  Spec /\ [][LeavesSaved]_vars /\ [][TakesOwn]_vars => []FramesAccepted
<1>1. Init => WorkerIInv /\ Fresh /\ ForkIInv BY WorkerStarts, ForkStarts
<1>2. WorkerIInv /\ Fresh /\ ForkIInv /\ [Next]_vars /\ [LeavesSaved]_vars /\ [TakesOwn]_vars
        => (WorkerIInv /\ Fresh /\ ForkIInv)'
  <2> SUFFICES ASSUME WorkerIInv, Fresh, ForkIInv, [Next]_vars, [LeavesSaved]_vars, [TakesOwn]_vars
               PROVE  WorkerIInv' /\ Fresh' /\ ForkIInv'
    OBVIOUS
  <2>1. WorkerIInv' BY WorkerSteps
  <2>2. Fresh'
    <3>1. CASE Next BY <3>1, FreshSteps
    <3>2. CASE UNCHANGED vars BY <3>2 DEF vars, sockets, Fresh
    <3> QED BY <3>1, <3>2
  <2>3. ForkIInv' BY ForkSteps
  <2> QED BY <2>1, <2>2, <2>3
<1>3. ForkIInv => FramesAccepted BY DEF ForkIInv, ServerHolds, FramesAccepted
<1> QED BY <1>1, <1>2, <1>3, PTL DEF Spec
=============================================================================
