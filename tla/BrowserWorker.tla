--------------------------- MODULE BrowserWorker ---------------------------
(***************************************************************************)
(* The browser client: a web worker that owns a WASM replica, its snapshot *)
(* and settings in IndexedDB, and one WebSocket at a time.                 *)
(*                                                                         *)
(* The worker runs two queues of asynchronous handlers, one for requests   *)
(* of the page (request) and one for frames of its sockets (socket).  A    *)
(* handler stops at each IndexedDB transaction it awaits, and the other    *)
(* queue, close events and timers run meanwhile.  page[t] holds the        *)
(* worker's variables of tab t, all lost when the page goes; db is what    *)
(* IndexedDB holds, shared by the tabs; tx are the transactions under way. *)
(* The server is its document and one sync state per connection.           *)
(***************************************************************************)
EXTENDS Naturals, FiniteSets, Sequences, SequencesExt, AutomergeSync

CONSTANTS
    Tab,           \* pages of the application open in one browser
    Workspaces,    \* bound: workspaces the server successively hosts
    MaxChanges,    \* bound: changes, the first of every replica among them
    MaxSockets,    \* bound: WebSockets ever opened
    MaxActors,     \* bound: Automerge actors the browser ever draws
    Budgets        \* what may happen in a behaviour

Change == 1..MaxChanges
Socket == 1..MaxSockets
Actor == 1..MaxActors
Foreign == 0                   \* author of the changes other clients bring to the server

\* Edits of the user, changes of others, page losses, failed transactions, broken
\* connections, servers set up afresh, wipes; and whether the browser was enrolled before.
Budget == [enrolled : BOOLEAN, puts : Nat, foreign : Nat, unloads : Nat, failures : Nat, drops : Nat,
           rehosts : Nat, wipes : Nat]

\* The first change of an actor's replica names the workspace.  It is the same whenever that
\* replica is created, so these changes are numbered before all others.
Beginnings == SetToSeq([ws : 1..Workspaces, actor : 0..MaxActors, seq : {1}, past : {{}}])
Firsts == 1..Len(Beginnings)
Begins(ws, actor) == {c \in Firsts : Beginnings[c].ws = ws /\ Beginnings[c].actor = actor}

ASSUME ConstantsAssumption ==
    /\ Tab # {} /\ Budgets \subseteq Budget
    /\ {Workspaces, MaxChanges, MaxSockets, MaxActors} \subseteq Nat \ {0}
    /\ Len(Beginnings) <= MaxChanges

VARIABLES
    page,      \* page[t]: the variables of t's worker
    db,        \* the two IndexedDB records: settings and replica
    tx,        \* IndexedDB transactions begun and not complete, oldest first
    phase,     \* phase[k]: readyState of socket k
    up,        \* up[k]: frames on the way to the server
    peer,      \* peer[k]: the server's end of k
    srv,       \* the workspace and document the server hosts
    made,      \* changes written so far
    info,      \* info[c]: workspace, actor and sequence number of c, and what preceded it
    acked,     \* changes whose request was answered with success
    refused,   \* changes of the frames one of the ends refused to merge
    dialled, drawn, budget

ghosts == <<acked, refused>>
sockets == <<phase, up, peer, dialled>>
history == <<made, info>>
vars == <<page, db, tx, sockets, srv, history, ghosts, drawn, budget>>

NoSettings == [named |-> FALSE, dirty |-> FALSE, actor |-> 0]
NoReplica == [ws |-> 0, doc |-> {}]
EmptyDb == [settings |-> NoSettings, replica |-> NoReplica]

\* The module-level variables before initialisation.
Blank == [running |-> FALSE, token |-> FALSE, settings |-> NoSettings,
          replica |-> NoReplica, sync |-> NewSync, current |-> 0,
          connection |-> "offline", timer |-> FALSE, queue |-> <<>>,
          socketAt |-> "idle", socketOn |-> 0, requestAt |-> "idle", requestFor |-> 0]

-----------------------------------------------------------------------------
(* Sockets of a page.                                                      *)

Live(k) == k # 0 /\ phase[k] \in {"connecting", "open"}

\* Mutation: nothing is sent while no write is pending.
Pumps_WhenDirty(p, k) == /\ k # 0 /\ phase[k] = "open"
                         /\ p.settings.dirty
                         /\ p.replica # NoReplica
                         /\ ~Quiet(p.sync, p.replica.doc)

\* pumpSync on socket k: whether a message goes out, the page after it, the wire after it.
Pumps(p, k) == /\ k # 0 /\ phase[k] = "open"
               /\ p.replica # NoReplica
               /\ ~Quiet(p.sync, p.replica.doc)

Pumped(p, k) ==
    IF Pumps(p, k) THEN [p EXCEPT !.sync = Generated(@, p.replica.doc)] ELSE p

WireAfter(p, k) ==
    IF Pumps(p, k) THEN [up EXCEPT ![k] = Append(@, SyncMsg(p.sync, p.replica.doc))] ELSE up

\* connectNow on page state p, which becomes page[t].
ConnectNow(t, p) ==
    IF ~p.settings.named \/ Live(p.current)
    THEN /\ page' = [page EXCEPT ![t] = p]
         /\ UNCHANGED sockets
    ELSE IF ~p.token
    THEN /\ page' = [page EXCEPT ![t] = [p EXCEPT !.timer = FALSE, !.connection = "offline"]]
         /\ UNCHANGED sockets
    ELSE /\ dialled < MaxSockets
         /\ dialled' = dialled + 1
         /\ phase' = [phase EXCEPT ![dialled + 1] = "connecting"]
         /\ page' = [page EXCEPT ![t] = [p EXCEPT !.timer = FALSE, !.connection = "connecting",
                                                  !.current = dialled + 1]]
         /\ UNCHANGED <<up, peer>>

\* Socket k closes: of the frames its event loop has not dispatched some are lost.
Close(t, p, k) ==
    \E n \in 0..Len(p.queue) :
        /\ \A i \in (n + 1)..Len(p.queue) : p.queue[i].on = k
        /\ page' = [page EXCEPT ![t] = [p EXCEPT !.queue = SubSeq(p.queue, 1, n)]]
        /\ phase' = [phase EXCEPT ![k] = "closing"]

\* The catch of receiveSocketMessage: it closes the socket its frame came from.
HandlerFails(t, p, k) ==
    LET q == [p EXCEPT !.socketAt = "idle", !.socketOn = 0] IN
    IF Live(k) THEN Close(t, q, k)
    ELSE page' = [page EXCEPT ![t] = q] /\ UNCHANGED phase

-----------------------------------------------------------------------------
(* IndexedDB.                                                              *)

Put(t, store, value, by) == [tab |-> t, store |-> store, value |-> value, by |-> by]

Committed(d, w) == IF w.store = "settings" THEN [d EXCEPT !.settings = w.value]
                                           ELSE [d EXCEPT !.replica = w.value]

\* Transactions on one store run in the order they were begun.
Oldest(i) == \A j \in 1..(i - 1) : tx[j].store # tx[i].store

Without(s, i) == SubSeq(s, 1, i - 1) \o SubSeq(s, i + 1, Len(s))

\* A page that goes away leaves some of its transactions committed, in their order.
Mine(t) == {i \in 1..Len(tx) : tx[i].tab = t}
LeftBy(t, n) ==
    LET kept == {i \in Mine(t) : i <= n}
        after[i \in 0..Len(tx)] ==
            IF i = 0 THEN db ELSE IF i \in kept THEN Committed(after[i - 1], tx[i]) ELSE after[i - 1]
    IN after[Len(tx)]

\* Those of the other pages go on.
OfOthers(t) ==
    LET rest[i \in 0..Len(tx)] ==
            IF i = 0 THEN <<>> ELSE IF tx[i].tab # t THEN Append(rest[i - 1], tx[i]) ELSE rest[i - 1]
    IN rest[Len(tx)]

-----------------------------------------------------------------------------
(* Requests of the page, one at a time.                                    *)

Ready(t) == page[t].running /\ page[t].requestAt = "idle"

\* initialize: settings are read or drawn afresh and saved, the snapshot is restored, then
\* the worker connects.  A page opened offline has no access token yet.
Load(t) ==
    LET fresh == db.settings = NoSettings
        settings == IF fresh THEN [NoSettings EXCEPT !.actor = drawn + 1] ELSE db.settings
    IN /\ ~page[t].running
       /\ fresh => drawn < MaxActors
       /\ drawn' = IF fresh THEN drawn + 1 ELSE drawn
       /\ db' = [db EXCEPT !.settings = settings]
       /\ \E online \in BOOLEAN :
            ConnectNow(t, [Blank EXCEPT !.running = TRUE, !.token = online,
                                        !.settings = settings, !.replica = db.replica])
       /\ UNCHANGED <<tx, srv, history, ghosts, budget>>

\* set-access-token, from the page's authentication timer.
SetAccessToken(t) ==
    /\ Ready(t) /\ ~page[t].token
    /\ ConnectNow(t, [page[t] EXCEPT !.token = TRUE])
    /\ UNCHANGED <<db, tx, srv, history, ghosts, drawn, budget>>

\* setClientId: saved, then connected (in RequestResumes).
SetClientId(t) ==
    /\ Ready(t) /\ ~page[t].settings.named /\ page[t].settings # NoSettings
    /\ LET s == [page[t].settings EXCEPT !.named = TRUE]
       IN /\ page' = [page EXCEPT ![t].settings = s, ![t].requestAt = "name"]
          /\ tx' = Append(tx, Put(t, "settings", s, "request"))
    /\ UNCHANGED <<db, sockets, srv, history, ghosts, drawn, budget>>

\* refreshSync, called by the page every five seconds.
RefreshSync(t) ==
    /\ Ready(t)
    /\ IF Live(page[t].current)
       THEN /\ page' = [page EXCEPT ![t] = Pumped(page[t], page[t].current)]
            /\ up' = WireAfter(page[t], page[t].current)
            /\ UNCHANGED <<phase, peer, dialled>>
       ELSE ConnectNow(t, page[t])
    /\ UNCHANGED <<db, tx, srv, history, ghosts, drawn, budget>>

NextChange == made + 1

Written(doc, ws, actor) ==
    [ws |-> ws, actor |-> actor,
     seq |-> Cardinality({c \in doc : info[c].actor = actor}) + 1, past |-> doc]

\* Mutation: only the settings are saved.
PutWrites_Unpersisted(t) ==
    LET p == page[t]
        s == [p.settings EXCEPT !.dirty = TRUE]
    IN /\ Ready(t) /\ p.replica # NoReplica /\ p.settings # NoSettings
       /\ made < MaxChanges /\ budget.puts > 0
       /\ made' = NextChange
       /\ info' = [info EXCEPT ![NextChange] =
                     Written(p.replica.doc, p.replica.ws, p.settings.actor)]
       /\ page' = [page EXCEPT ![t].replica.doc = @ \cup {NextChange}, ![t].settings = s,
                               ![t].requestAt = "settings", ![t].requestFor = NextChange]
       /\ tx' = Append(tx, Put(t, "settings", s, "request"))
       /\ budget' = [budget EXCEPT !.puts = @ - 1]
       /\ UNCHANGED <<db, sockets, srv, ghosts, drawn>>

\* putWrites up to its first await: the change is in the replica, the flag is raised, the
\* snapshot is on its way to IndexedDB.
PutWrites(t) ==
    LET p == page[t]
        replica == [p.replica EXCEPT !.doc = @ \cup {NextChange}]
    IN /\ Ready(t) /\ p.replica # NoReplica /\ p.settings # NoSettings
       /\ made < MaxChanges /\ budget.puts > 0
       /\ made' = NextChange
       /\ info' = [info EXCEPT ![NextChange] =
                     Written(p.replica.doc, p.replica.ws, p.settings.actor)]
       /\ page' = [page EXCEPT ![t].replica = replica, ![t].settings.dirty = TRUE,
                               ![t].requestAt = "replica", ![t].requestFor = NextChange]
       /\ tx' = Append(tx, Put(t, "replica", replica, "request"))
       /\ budget' = [budget EXCEPT !.puts = @ - 1]
       /\ UNCHANGED <<db, sockets, srv, ghosts, drawn>>

\* A request goes on when the transaction it awaits is complete.
RequestResumes(t, n) ==
    LET p == page[t]
        done == [p EXCEPT !.requestAt = "idle", !.requestFor = 0]
    IN \/ /\ p.requestAt = "replica"
          /\ IF p.settings = NoSettings
             THEN page' = [page EXCEPT ![t] = done] /\ tx' = Without(tx, n)
             ELSE /\ page' = [page EXCEPT ![t].requestAt = "settings"]
                  /\ tx' = Append(Without(tx, n), Put(t, "settings", p.settings, "request"))
          /\ UNCHANGED <<sockets, acked>>
       \/ /\ p.requestAt = "settings"
          /\ page' = [page EXCEPT ![t] = Pumped(done, p.current)]
          /\ up' = WireAfter(done, p.current)
          /\ acked' = acked \cup {p.requestFor}
          /\ tx' = Without(tx, n)
          /\ UNCHANGED <<phase, peer, dialled>>
       \/ /\ p.requestAt = "name"
          /\ ConnectNow(t, done)
          /\ tx' = Without(tx, n)
          /\ UNCHANGED acked

\* wipeLocalData: everything is dropped, then the database is deleted, which another open
\* tab blocks; on success the page ends its worker and reloads.
WipeLocalData(t) ==
    LET alone == \A u \in Tab \ {t} : ~page[u].running
        gone == [page[t] EXCEPT !.timer = FALSE, !.current = 0, !.replica = NoReplica,
                                !.settings = NoSettings]
    IN /\ Ready(t) /\ budget.wipes > 0
       /\ page' = [page EXCEPT ![t] = IF alone THEN Blank ELSE gone]
       /\ db' = IF alone THEN EmptyDb ELSE db
       /\ tx' = IF alone THEN <<>> ELSE tx
       /\ phase' = [k \in Socket |->
            IF k = page[t].current /\ phase[k] # "closed" THEN "closing" ELSE phase[k]]
       /\ acked' = IF alone THEN {} ELSE acked
       /\ budget' = [budget EXCEPT !.wipes = @ - 1]
       /\ UNCHANGED <<up, peer, dialled, srv, history, refused, drawn>>

-----------------------------------------------------------------------------
(* Merging, at either end.                                                 *)

\* Automerge refuses a change whose actor and sequence number another change has.
Forks(doc, new) ==
    \E x \in doc, y \in new :
        x # y /\ info[x].actor = info[y].actor /\ info[x].seq = info[y].seq

\* A change that builds on what the document lacks stays aside.
Fitting(doc, new) == {c \in new : info[c].past \subseteq doc \cup new}

\* The documents a merge can leave: one that is refused has applied what came before.
Applied(doc, new) ==
    IF Forks(doc, new)
    THEN {doc \cup s : s \in {s \in SUBSET Fitting(doc, new) :
                             ~Forks(doc, s) /\ \A c \in s : info[c].past \subseteq doc \cup s}}
    ELSE {doc \cup Fitting(doc, new)}

-----------------------------------------------------------------------------
(* Frames, one at a time.                                                  *)

\* Mutation: the save of the lowered flag is not awaited.
AfterMerge_Unawaited(t, p, k, rest) ==
    LET idle == [p EXCEPT !.socketAt = "idle", !.socketOn = 0]
        s == [p.settings EXCEPT !.dirty = FALSE]
    IN /\ page' = [page EXCEPT ![t] = IF Pumps(p, k) THEN Pumped(idle, k)
                                      ELSE [idle EXCEPT !.settings = s]]
       /\ up' = WireAfter(p, k)
       /\ tx' = IF Pumps(p, k) \/ ~p.settings.dirty THEN rest
                ELSE Append(rest, Put(t, "settings", s, "socket"))

\* The end of receiveSocketMessage for a binary frame: answer, or lower the flag.
AfterMerge(t, p, k, rest) ==
    LET idle == [p EXCEPT !.socketAt = "idle", !.socketOn = 0] IN
    IF Pumps(p, k) \/ ~p.settings.dirty
    THEN /\ page' = [page EXCEPT ![t] = Pumped(idle, k)]
         /\ up' = WireAfter(p, k)
         /\ tx' = rest
    ELSE LET s == [p.settings EXCEPT !.dirty = FALSE]
         IN /\ page' = [page EXCEPT ![t] = [p EXCEPT !.settings = s, !.socketAt = "clean",
                                                     !.socketOn = k]]
            /\ tx' = Append(rest, Put(t, "settings", s, "socket"))
            /\ UNCHANGED up

\* The end of a server_hello: connected, and the first message goes out.
Greeted(p) == [p EXCEPT !.socketAt = "idle", !.socketOn = 0, !.connection = "connected"]

Popped(t) == [page[t] EXCEPT !.queue = Tail(@)]
Frame(t) == Head(page[t].queue)
Handles(t, type) == /\ page[t].running /\ page[t].socketAt = "idle"
                    /\ page[t].queue # <<>> /\ Frame(t).msg.type = type

\* server_hello of the workspace the replica holds: a new sync state.
HelloKnown(t) ==
    /\ Handles(t, "hello")
    /\ page[t].replica.ws = Frame(t).msg.ws
    /\ LET k == Frame(t).on
           p == Greeted([Popped(t) EXCEPT !.sync = NewSync])
       IN /\ page' = [page EXCEPT ![t] = Pumped(p, k)]
          /\ up' = WireAfter(p, k)
    /\ UNCHANGED <<db, tx, phase, peer, dialled, srv, history, ghosts, drawn, budget>>

\* server_hello of another workspace: a replica begun in it takes the place of the old one.
HelloAdopts(t) ==
    /\ Handles(t, "hello")
    /\ page[t].replica.ws # Frame(t).msg.ws
    /\ LET k == Frame(t).on
           replica == [ws |-> Frame(t).msg.ws,
                       doc |-> Begins(Frame(t).msg.ws, page[t].settings.actor)]
       IN IF page[t].settings = NoSettings
          THEN HandlerFails(t, Popped(t), k) /\ UNCHANGED tx
          ELSE /\ page' = [page EXCEPT ![t] =
                     [Popped(t) EXCEPT !.replica = replica, !.sync = NewSync,
                                       !.settings.dirty = FALSE,
                                       !.socketAt = "adopt", !.socketOn = k]]
               /\ tx' = Append(tx, Put(t, "replica", replica, "socket"))
               /\ UNCHANGED phase
    /\ UNCHANGED <<db, up, peer, dialled, srv, history, ghosts, drawn, budget>>

\* A binary frame: merged, persisted when it changed the document, answered.
ReceiveSyncMessage(t) ==
    /\ Handles(t, "sync")
    /\ LET k == Frame(t).on
           m == Frame(t).msg
           old == page[t].replica.doc
       IN \/ /\ page[t].replica = NoReplica
             /\ HandlerFails(t, Popped(t), k)
             /\ UNCHANGED <<tx, up, refused>>
          \/ \E doc \in Applied(old, m.changes) :
                LET p == [Popped(t) EXCEPT !.replica.doc = doc, !.sync = Received(@, doc, m)] IN
                /\ page[t].replica # NoReplica /\ ~Forks(old, m.changes)
                /\ IF doc # old
                   THEN /\ page' = [page EXCEPT ![t] =
                              [p EXCEPT !.socketAt = "merged", !.socketOn = k]]
                        /\ tx' = Append(tx, Put(t, "replica", p.replica, "socket"))
                        /\ UNCHANGED up
                   ELSE AfterMerge(t, p, k, tx)
                /\ UNCHANGED <<phase, refused>>
          \/ \E doc \in Applied(old, m.changes) :
                /\ page[t].replica # NoReplica /\ Forks(old, m.changes)
                /\ HandlerFails(t, [Popped(t) EXCEPT !.replica.doc = doc, !.sync.flying = FALSE], k)
                /\ refused' = refused \cup m.changes
                /\ UNCHANGED <<tx, up>>
    /\ UNCHANGED <<db, peer, dialled, srv, history, acked, drawn, budget>>

\* A frame's handler goes on when the transaction it awaits is complete.
SocketResumes(t, n) ==
    LET p == page[t]
        k == p.socketOn
    IN \/ /\ p.socketAt = "merged"
          /\ AfterMerge(t, p, k, Without(tx, n))
          /\ UNCHANGED phase
       \/ /\ p.socketAt = "clean"
          /\ page' = [page EXCEPT ![t].socketAt = "idle", ![t].socketOn = 0]
          /\ tx' = Without(tx, n)
          /\ UNCHANGED <<phase, up>>
       \/ /\ p.socketAt = "adopt"
          /\ IF p.settings = NoSettings
             THEN HandlerFails(t, p, k) /\ tx' = Without(tx, n)
             ELSE /\ page' = [page EXCEPT ![t].socketAt = "adopted"]
                  /\ tx' = Append(Without(tx, n), Put(t, "settings", p.settings, "socket"))
                  /\ UNCHANGED phase
          /\ UNCHANGED up
       \/ /\ p.socketAt = "adopted"
          /\ page' = [page EXCEPT ![t] = Pumped(Greeted(p), k)]
          /\ up' = WireAfter(p, k)
          /\ tx' = Without(tx, n)
          /\ UNCHANGED phase

\* A transaction completes and the handler that awaits it goes on.
Completes(n) ==
    /\ n <= Len(tx) /\ Oldest(n)
    /\ db' = Committed(db, tx[n])
    /\ \/ tx[n].by = "request" /\ RequestResumes(tx[n].tab, n)
       \/ tx[n].by = "socket" /\ SocketResumes(tx[n].tab, n) /\ UNCHANGED <<peer, dialled, acked>>
    /\ UNCHANGED <<srv, history, refused, drawn, budget>>

\* A transaction is aborted: the request is answered with an error, the socket is closed.
Aborts(n) ==
    /\ n <= Len(tx) /\ Oldest(n) /\ budget.failures > 0
    /\ budget' = [budget EXCEPT !.failures = @ - 1]
    /\ tx' = Without(tx, n)
    /\ LET t == tx[n].tab
       IN \/ /\ tx[n].by = "request"
             /\ page' = [page EXCEPT ![t].requestAt = "idle", ![t].requestFor = 0]
             /\ UNCHANGED phase
          \/ tx[n].by = "socket" /\ HandlerFails(t, page[t], page[t].socketOn)
    /\ UNCHANGED <<db, up, peer, dialled, srv, history, ghosts, drawn>>

-----------------------------------------------------------------------------
(* Sockets: opening, breaking, reconnecting.                               *)

Owns(t, k) == page[t].running /\ page[t].current = k

\* The client hello, which brings no changes.
ClientHello == [type |-> "hello", heads |-> {}, changes |-> {}]

\* The open event: the client hello is sent.
SocketOpens(k) ==
    /\ phase[k] = "connecting"
    /\ phase' = [phase EXCEPT ![k] = "open"]
    /\ up' = [up EXCEPT ![k] = Append(@, ClientHello)]
    /\ UNCHANGED <<page, db, tx, peer, dialled, srv, history, ghosts, drawn, budget>>

\* The connection breaks, or the server closes it.
SocketBreaks(t, k) ==
    /\ Owns(t, k) /\ Live(k) /\ budget.drops > 0
    /\ Close(t, page[t], k)
    /\ budget' = [budget EXCEPT !.drops = @ - 1]
    /\ UNCHANGED <<db, tx, up, peer, dialled, srv, history, ghosts, drawn>>

\* disconnected and scheduleReconnect, for the socket in use.
Disconnected(t, k) ==
    page' = [page EXCEPT ![t].current = 0, ![t].connection = "offline",
                         ![t].timer = @ \/ page[t].settings.named]

\* The close event; a socket that is no longer the one in use is ignored.
SocketClosed(k) ==
    /\ phase[k] = "closing"
    /\ phase' = [phase EXCEPT ![k] = "closed"]
    /\ \/ \E t \in Tab : Owns(t, k) /\ Disconnected(t, k)
       \/ (\A t \in Tab : ~Owns(t, k)) /\ UNCHANGED page
    /\ UNCHANGED <<db, tx, up, peer, dialled, srv, history, ghosts, drawn, budget>>

ReconnectTimer(t) ==
    /\ page[t].running /\ page[t].timer
    /\ ConnectNow(t, [page[t] EXCEPT !.timer = FALSE])
    /\ UNCHANGED <<db, tx, srv, history, ghosts, drawn, budget>>

\* The page goes away: its memory and sockets are lost, some of its transactions too.
Unload(t) ==
    /\ page[t].running /\ budget.unloads > 0
    /\ budget' = [budget EXCEPT !.unloads = @ - 1]
    /\ page' = [page EXCEPT ![t] = Blank]
    /\ \E n \in 0..Len(tx) : db' = LeftBy(t, n)
    /\ tx' = OfOthers(t)
    /\ phase' = [k \in Socket |->
         IF Owns(t, k) /\ phase[k] # "closed" THEN "closing" ELSE phase[k]]
    /\ UNCHANGED <<up, peer, dialled, srv, history, ghosts, drawn>>

-----------------------------------------------------------------------------
(* The server.                                                             *)

Waiting == [at |-> "waiting", sync |-> NewSync]
Ended == [at |-> "ended", sync |-> NewSync]

\* Frames of the server reach the page that owns an open socket.
Deliver(k, msgs) ==
    page' = [t \in Tab |->
      IF Owns(t, k) /\ phase[k] = "open"
      THEN [page[t] EXCEPT !.queue = @ \o [i \in 1..Len(msgs) |-> [on |-> k, msg |-> msgs[i]]]]
      ELSE page[t]]

\* serve_socket answers the hello with its own and its first message.
ServerGreets(k) ==
    /\ phase[k] = "open"
    /\ peer[k].at = "waiting" /\ up[k] # <<>> /\ Head(up[k]).type = "hello"
    /\ up' = [up EXCEPT ![k] = Tail(@)]
    /\ peer' = [peer EXCEPT ![k] = [at |-> "serving", sync |-> Generated(NewSync, srv.doc)]]
    /\ Deliver(k, <<[type |-> "hello", ws |-> srv.ws], SyncMsg(NewSync, srv.doc)>>)
    /\ UNCHANGED <<db, tx, phase, dialled, srv, history, ghosts, drawn, budget>>

\* A frame arrives: merged, or refused, which ends the connection.
ServerReceives(k) ==
    /\ peer[k].at = "serving" /\ up[k] # <<>>
    /\ LET m == Head(up[k]) IN
       \E doc \in Applied(srv.doc, m.changes) :
          /\ srv' = [srv EXCEPT !.doc = doc]
          /\ IF Forks(srv.doc, m.changes)
             THEN /\ refused' = refused \cup m.changes
                  /\ peer' = [peer EXCEPT ![k] = Ended]
                  /\ up' = [up EXCEPT ![k] = <<>>]
                  /\ phase' = [phase EXCEPT ![k] = IF Live(k) THEN "closing" ELSE @]
             ELSE /\ peer' = [peer EXCEPT ![k].sync = Received(@, doc, m)]
                  /\ up' = [up EXCEPT ![k] = Tail(@)]
                  /\ UNCHANGED <<phase, refused>>
    /\ UNCHANGED <<page, db, tx, dialled, history, acked, drawn, budget>>

\* After a frame or a notification the task sends what there is to send.
ServerSends(k) ==
    /\ phase[k] = "open" /\ peer[k].at = "serving"
    /\ ~Quiet(peer[k].sync, srv.doc)
    /\ peer' = [peer EXCEPT ![k].sync = Generated(@, srv.doc)]
    /\ Deliver(k, <<SyncMsg(peer[k].sync, srv.doc)>>)
    /\ UNCHANGED <<db, tx, phase, up, dialled, srv, history, ghosts, drawn, budget>>

\* The task of a connection that is gone ends; frames on the way may be lost.
ServerEnds(k) ==
    /\ phase[k] \in {"closing", "closed"} /\ peer[k].at # "ended"
    /\ peer' = [peer EXCEPT ![k] = Ended]
    /\ up' = [up EXCEPT ![k] = <<>>]
    /\ UNCHANGED <<page, db, tx, phase, dialled, srv, history, ghosts, drawn, budget>>

\* Another client's change reaches the server.
ForeignChange ==
    /\ made < MaxChanges /\ budget.foreign > 0
    /\ made' = NextChange
    /\ info' = [info EXCEPT ![NextChange] = Written(srv.doc, srv.ws, Foreign)]
    /\ srv' = [srv EXCEPT !.doc = @ \cup {NextChange}]
    /\ budget' = [budget EXCEPT !.foreign = @ - 1]
    /\ UNCHANGED <<page, db, tx, sockets, ghosts, drawn>>

\* The server is set up afresh, with a new workspace; its connections end.
Rehost ==
    /\ srv.ws < Workspaces /\ budget.rehosts > 0
    /\ srv' = [ws |-> srv.ws + 1, doc |-> Begins(srv.ws + 1, Foreign)]
    /\ phase' = [k \in Socket |-> IF Live(k) THEN "closing" ELSE phase[k]]
    /\ peer' = [k \in Socket |-> IF peer[k].at = "serving" THEN Ended ELSE peer[k]]
    /\ up' = [k \in Socket |-> <<>>]
    /\ budget' = [budget EXCEPT !.rehosts = @ - 1]
    /\ UNCHANGED <<page, db, tx, dialled, history, ghosts, drawn>>

-----------------------------------------------------------------------------
(* A browser that has never run xo, or one enrolled earlier.               *)
Enrolled == [settings |-> [named |-> TRUE, dirty |-> FALSE, actor |-> 1],
             replica |-> [ws |-> 1, doc |-> Begins(1, 1) \cup Begins(1, Foreign)]]

Init ==
    /\ budget \in Budgets
    /\ \/ /\ budget.enrolled /\ db = Enrolled /\ drawn = 1
          /\ srv = Enrolled.replica
       \/ /\ ~budget.enrolled /\ db = EmptyDb /\ drawn = 0
          /\ srv = [ws |-> 1, doc |-> Begins(1, Foreign)]
    /\ page = [t \in Tab |-> Blank]
    /\ tx = <<>>
    /\ phase = [k \in Socket |-> "unused"]
    /\ up = [k \in Socket |-> <<>>]
    /\ peer = [k \in Socket |-> Waiting]
    /\ made = Len(Beginnings)
    /\ info = [c \in Change |-> IF c \in Firsts THEN Beginnings[c]
                               ELSE [ws |-> 0, actor |-> 0, seq |-> 0, past |-> {}]]
    /\ acked = {} /\ refused = {}
    /\ dialled = 0

Request(t) == \/ Load(t) \/ SetAccessToken(t) \/ SetClientId(t) \/ RefreshSync(t)
              \/ PutWrites(t) \/ WipeLocalData(t)
HandleFrame(t) == HelloKnown(t) \/ HelloAdopts(t) \/ ReceiveSyncMessage(t)
Transaction == \E n \in 1..Len(tx) : Completes(n) \/ Aborts(n)
SocketEvent(k) == SocketOpens(k) \/ SocketClosed(k) \/ (\E t \in Tab : SocketBreaks(t, k))
ServerTask(k) == ServerGreets(k) \/ ServerReceives(k) \/ ServerSends(k) \/ ServerEnds(k)

Next ==
    \/ \E t \in Tab : Request(t) \/ HandleFrame(t) \/ ReconnectTimer(t) \/ Unload(t)
    \/ Transaction
    \/ \E k \in Socket : SocketEvent(k) \/ ServerTask(k)
    \/ ForeignChange \/ Rehost

Spec == Init /\ [][Next]_vars

\* Event loops run their handlers, transactions end, sockets open or close, the server's
\* tasks run, and the page's interval timers fire.  Users, faults and page loads have none.
Fairness ==
    /\ \A t \in Tab : /\ WF_vars(HandleFrame(t)) /\ WF_vars(ReconnectTimer(t))
                      /\ WF_vars(SetAccessToken(t)) /\ WF_vars(RefreshSync(t))
    /\ WF_vars(Transaction)
    /\ \A k \in Socket : /\ WF_vars(SocketOpens(k) \/ SocketClosed(k))
                         /\ WF_vars(ServerTask(k))

FairSpec == Spec /\ Fairness

-----------------------------------------------------------------------------
\* The variables have their types, and each queue awaits one transaction exactly while a
\* handler of it is under way (requestQueue, socketQueue).
TypeOK ==
    /\ \A t \in Tab : /\ page[t].replica.doc \subseteq 1..made
                      /\ page[t].current \in 0..dialled
                      /\ page[t].connection \in {"offline", "connecting", "connected"}
                      /\ page[t].socketAt \in {"idle", "merged", "clean", "adopt", "adopted"}
                      /\ page[t].requestAt \in {"idle", "name", "replica", "settings"}
    /\ db.replica.doc \subseteq 1..made /\ srv.doc \subseteq 1..made
    /\ phase \in [Socket -> {"unused", "connecting", "open", "closing", "closed"}]
    /\ acked \subseteq 1..made /\ refused \subseteq 1..made
    /\ budget \in Budget
    /\ \A t \in Tab :
         /\ Cardinality({n \in Mine(t) : tx[n].by = "request"})
              = IF page[t].requestAt = "idle" THEN 0 ELSE 1
         /\ Cardinality({n \in Mine(t) : tx[n].by = "socket"})
              = IF page[t].socketAt = "idle" THEN 0 ELSE 1

\* A write the page was told is saved stays in the IndexedDB snapshot of its workspace,
\* whatever the handlers of the two queues persist after it (architecture.md:59).
AckedPersisted ==
    \A c \in acked : info[c].ws = db.replica.ws => c \in db.replica.doc

\* An uninterrupted stay: the page runs, named and signed in, from some point on.
Stays == <>[](\E t \in Tab : page[t].running /\ page[t].token /\ page[t].settings.named
                             /\ page[t].replica # NoReplica)

\* What frees the worker from delivering c: its workspace is hosted no more, it was wiped,
\* or one of the ends has begun to refuse the other's frames.
Excused(c) == info[c].ws # srv.ws \/ c \notin acked \/ refused # {}

\* Writes saved on this device reach the server once the page stays open, whatever
\* sockets broke, transactions failed or flags were lowered before (putWrites, disconnected).
SavedWritesArrive ==
    Stays => \A c \in Change \ Firsts : (c \in acked) ~> (c \in srv.doc \/ Excused(c))

\* Neither end ever refuses the other's frame: what README.md:4-5 says of browser clients
\* that "accept edits without connectivity, and synchronize".
FramesAccepted == refused = {}
=============================================================================
