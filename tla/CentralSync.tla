---------------------------- MODULE CentralSync ----------------------------
(***************************************************************************)
(* Centralised synchronisation of one Automerge workspace document.        *)
(*                                                                         *)
(* Every native client and the server own a CentralReplica: an in-memory   *)
(* document (mem) and the last fsynced snapshot of it (disk).  A client    *)
(* runs synchronize_once on one WebSocket at a time; the server runs       *)
(* serve_socket once per accepted WebSocket.  Both ends of a connection    *)
(* are modelled, with the await points of the code as separate steps, and  *)
(* so is the broadcast channel on which server tasks tell each other that  *)
(* the document changed.                                                   *)
(*                                                                         *)
(* A document is the set of the Automerge changes it contains; the sync    *)
(* protocol between two documents is that of AutomergeSync.                *)
(***************************************************************************)
EXTENDS Naturals, FiniteSets, Sequences, AutomergeSync

CONSTANTS
    Client,            \* the native clients
    Server,            \* the one xo-syncd process
    MaxChanges,        \* bound: Automerge changes ever written
    MaxDials,          \* bound: connections a client ever opens
    Budgets,           \* what may happen in a behaviour: writes, dials, crashes, failures, drops
    Capacity           \* capacity of the server's broadcast channel (128 in the code)

Replica == Client \cup {Server}
Change == 1..MaxChanges

\* The i-th connection a client opens.
Conn == Client \X (1..MaxDials)
Owner == [k \in Conn |-> k[1]]

\* A budget bounds one behaviour: changes written at each replica, connections opened by
\* each client, process crashes, snapshot writes that fail, and connections that break by
\* themselves, at either end or under an item-API request.
Budget == [writes : [Replica -> Nat], dials : [Client -> Nat],
           crashes : Nat, failures : Nat, drops : Nat]

ASSUME ConstantsAssumption ==
    /\ Server \notin Client
    /\ MaxChanges \in Nat /\ MaxDials \in Nat
    /\ Budgets \subseteq Budget
    /\ Capacity \in Nat \ {0}

VARIABLES
    made,      \* number of changes written so far
    info,      \* info[c]: author, per-author sequence number and causal past of c
    mem,       \* mem[r]: changes in r's in-memory document
    disk,      \* disk[r]: changes in r's durable snapshot
    acked,     \* changes whose put_record returned Ok
    api,       \* progress of the item-API commit that holds the mutation lock
    requested,    \* what that commit has put since the last DocumentChanged
    unannounced,  \* what commits that ended early have put since the last DocumentChanged
    cend,      \* cend[k]: phase of the client end of connection k
    send,      \* send[k]: phase of the server end of connection k
    cst, sst,  \* Automerge sync state of the client and the server end
    up, down,  \* frames in flight to the server and to the client
    wake,      \* wake[k]: the client loop has an unread ContentChanged or Lagged event
    notif,     \* notif[k]: unread server notifications of connection k
    lagged,    \* lagged[k]: the receiver of k has been overrun
    budget     \* what may still happen

docVars  == <<made, info, mem, disk, acked>>
connVars == <<cend, send, cst, sst, up, down, wake, notif, lagged>>
apiVars == <<api, requested, unannounced>>
vars == <<docVars, apiVars, connVars, budget>>

-----------------------------------------------------------------------------
\* The hello either end opens with.
HelloMsg == [type |-> "hello", heads |-> {}, changes |-> {}]

\* Two different changes with one author and sequence number: Automerge refuses the second.
Forks(doc, new) ==
    \E x \in doc, y \in new : /\ x # y
                              /\ info[x].author = info[y].author
                              /\ info[x].seq = info[y].seq

-----------------------------------------------------------------------------
(* The server's broadcast channel.                                         *)

Looping == {"loop", "announce", "pump"}
Subscribed(k) == send[k] \in Looping

\* notifications.send: every subscribed receiver gets the message, a full one loses its oldest.
\* Tasks outside receivers have no receiver.
Broadcast(msg, receivers) ==
    /\ notif' = [k \in Conn |->
                    IF k \notin receivers THEN <<>>
                    ELSE IF Len(notif[k]) < Capacity THEN Append(notif[k], msg)
                    ELSE Append(Tail(notif[k]), msg)]
    /\ lagged' = [k \in Conn |->
                    k \in receivers /\ (lagged[k] \/ Len(notif[k]) = Capacity)]

Receivers == {k \in Conn : Subscribed(k)}

-----------------------------------------------------------------------------
(* CentralReplica: writing a record.                                       *)

NextChange == made + 1

\* Mutation: sequence numbers are off by two.
AddChange_SeqOffByTwo(r) ==
    /\ made < MaxChanges /\ budget.writes[r] > 0
    /\ made' = NextChange
    /\ info' = [info EXCEPT ![NextChange] =
                  [author |-> r,
                   seq |-> Cardinality({c \in mem[r] : info[c].author = r}) - 1,
                   past |-> mem[r]]]
    /\ mem' = [mem EXCEPT ![r] = @ \cup {NextChange}]

\* The document gets a new change that depends on everything in it.
AddChange(r) ==
    /\ made < MaxChanges /\ budget.writes[r] > 0
    /\ made' = NextChange
    /\ info' = [info EXCEPT ![NextChange] =
                  [author |-> r,
                   seq |-> Cardinality({c \in mem[r] : info[c].author = r}) + 1,
                   past |-> mem[r]]]
    /\ mem' = [mem EXCEPT ![r] = @ \cup {NextChange}]

\* Mutation: success is reported without a flush.
PutFlushed_Lazy(r) ==
    /\ AddChange(r)
    /\ budget' = [budget EXCEPT !.writes[r] = @ - 1]
    /\ acked' = acked \cup {NextChange}
    /\ UNCHANGED disk

\* put, then flush: the whole document replaces the snapshot.
PutFlushed(r) ==
    /\ AddChange(r)
    /\ disk' = [disk EXCEPT ![r] = mem[r] \cup {NextChange}]
    /\ acked' = acked \cup {NextChange}
    /\ budget' = [budget EXCEPT !.writes[r] = @ - 1]

\* A failed flush: atomic_write fails before or after its rename.
FlushFails(r) ==
    /\ budget.failures > 0
    /\ disk' \in {disk, [disk EXCEPT ![r] = mem'[r]]}

\* put, then flush fails: the error returns, the change stays in memory.
PutUnflushed(r) ==
    /\ AddChange(r)
    /\ FlushFails(r)
    /\ budget' = [budget EXCEPT !.writes[r] = @ - 1, !.failures = @ - 1]
    /\ UNCHANGED acked

\* A client's put_record; on success its event wakes the client loop.
ClientPut(c) ==
    /\ \/ /\ PutFlushed(c)
          /\ wake' = [k \in Conn |->
                        wake[k] \/ (Owner[k] = c /\ cend[k] \in {"loop", "pump"})]
       \/ /\ PutUnflushed(c)
          /\ UNCHANGED wake
    /\ UNCHANGED <<apiVars, cend, send, cst, sst, up, down, notif, lagged>>

\* commit_revision of an item-API request, under the mutation lock: the revision
\* record, then the head record.  A failed put ends the request.
ServerApiPut(from, to) ==
    /\ api = from
    /\ \/ /\ PutFlushed(Server)
          /\ api' = to
          /\ requested' = requested \cup {NextChange}
          /\ UNCHANGED unannounced
       \/ /\ PutUnflushed(Server)
          /\ api' = "idle"
          /\ requested' = {}
          /\ unannounced' = unannounced \cup requested \cup {NextChange}
    /\ UNCHANGED connVars

\* A request starts only while the budget leaves room for both records.
ServerApiRevision == budget.writes[Server] >= 2 /\ ServerApiPut("idle", "revision")
ServerApiHead == ServerApiPut("revision", "head")

\* The caller goes while set_head waits for the document: the future is dropped with the
\* revision in the document.
ServerApiDropped ==
    /\ api = "revision" /\ budget.drops > 0
    /\ budget' = [budget EXCEPT !.drops = @ - 1]
    /\ api' = "idle"
    /\ requested' = {}
    /\ unannounced' = unannounced \cup requested
    /\ UNCHANGED <<docVars, connVars>>

\* DocumentChanged goes to every subscribed task: its next message tells whatever the
\* document holds by then.
AnnounceDocument ==
    /\ Broadcast("doc", Receivers)
    /\ requested' = {}
    /\ unannounced' = {}

\* The request announces the change to the connection tasks and returns.
ServerApiNotify ==
    /\ api = "head"
    /\ api' = "idle"
    /\ AnnounceDocument
    /\ UNCHANGED <<docVars, cend, send, cst, sst, up, down, wake, budget>>

-----------------------------------------------------------------------------
(* Applying a received sync message and flushing the result.               *)

\* Mutation: a merge is not flushed.
ApplyFlushed_Lazy(r, m) ==
    /\ ~Forks(mem[r], m.changes)
    /\ mem' = [mem EXCEPT ![r] = @ \cup m.changes]
    /\ UNCHANGED <<made, info, disk, acked, budget>>

\* Mutation: the snapshot is replaced by the increment.
ApplyFlushed_Increment(r, m) ==
    /\ ~Forks(mem[r], m.changes)
    /\ mem' = [mem EXCEPT ![r] = @ \cup m.changes]
    /\ disk' = IF mem'[r] # mem[r] THEN [disk EXCEPT ![r] = m.changes] ELSE disk
    /\ UNCHANGED <<made, info, acked, budget>>

\* The new changes are applied; a changed document is flushed before success.
ApplyFlushed(r, m) ==
    /\ ~Forks(mem[r], m.changes)
    /\ mem' = [mem EXCEPT ![r] = @ \cup m.changes]
    /\ disk' = IF mem'[r] # mem[r] THEN [disk EXCEPT ![r] = mem'[r]] ELSE disk
    /\ UNCHANGED <<made, info, acked, budget>>

\* The flush fails: the message is in the document, the caller gets the error.
ApplyUnflushed(r, m) ==
    /\ ~Forks(mem[r], m.changes)
    /\ m.changes \ mem[r] # {}
    /\ mem' = [mem EXCEPT ![r] = @ \cup m.changes]
    /\ FlushFails(r)
    /\ budget' = [budget EXCEPT !.failures = @ - 1]
    /\ UNCHANGED <<made, info, acked>>

\* Automerge rejects the message.
ApplyRejected(r, m) ==
    /\ Forks(mem[r], m.changes)
    /\ UNCHANGED <<docVars, budget>>

-----------------------------------------------------------------------------
(* The client end: run and synchronize_once.                               *)

OpenClient(k) == cend[k] \in {"hello", "loop", "pump"}
OpenServer(k) == send[k] \in {"hello", "gap"} \cup Looping

\* Frames sent to an end that has gone are lost.
SendUp(k, m) == up' = IF OpenServer(k) THEN [up EXCEPT ![k] = Append(@, m)] ELSE up
SendDown(k, ms) == down' = IF OpenClient(k) THEN [down EXCEPT ![k] = @ \o ms] ELSE down

\* The ends in K go: what only they could still read goes with them.
CloseClients(K) ==
    /\ cend' = [k \in Conn |-> IF k \in K THEN "closed" ELSE cend[k]]
    /\ cst' = [k \in Conn |-> IF k \in K THEN NewSync ELSE cst[k]]
    /\ down' = [k \in Conn |-> IF k \in K THEN <<>> ELSE down[k]]
    /\ wake' = [k \in Conn |-> wake[k] /\ k \notin K]

CloseServers(K) ==
    /\ send' = [k \in Conn |-> IF k \in K THEN "closed" ELSE send[k]]
    /\ sst' = [k \in Conn |-> IF k \in K THEN NewSync ELSE sst[k]]
    /\ up' = [k \in Conn |-> IF k \in K THEN <<>> ELSE up[k]]

\* run dials when its last attempt is over; the client hello travels with the connection.
Connect(k) ==
    /\ budget.dials[Owner[k]] > 0
    /\ cend[k] = "idle"
    /\ \A j \in Conn : Owner[j] = Owner[k] /\ j[2] < k[2] => cend[j] = "closed"
    /\ budget' = [budget EXCEPT !.dials[Owner[k]] = @ - 1]
    /\ cend' = [cend EXCEPT ![k] = "hello"]
    /\ send' = [send EXCEPT ![k] = "hello"]
    /\ UNCHANGED <<docVars, apiVars, cst, sst, up, down, wake, notif, lagged>>

\* server_hello arrives: new SyncState, subscribe to the replica, first message.
ClientHello(k) ==
    /\ cend[k] = "hello" /\ down[k] # <<>>
    /\ Head(down[k]).type = "hello"
    /\ down' = [down EXCEPT ![k] = Tail(@)]
    /\ cend' = [cend EXCEPT ![k] = "loop"]
    /\ LET doc == mem[Owner[k]] IN
         /\ cst' = [cst EXCEPT ![k] = Generated(NewSync, doc)]
         /\ SendUp(k, SyncMsg(NewSync, doc))
    /\ UNCHANGED <<docVars, apiVars, send, sst, wake, notif, lagged, budget>>

ClientReceive(k) ==
    LET c == Owner[k]  m == Head(down[k]) IN
    /\ cend[k] = "loop" /\ down[k] # <<>>
    /\ \/ /\ ApplyFlushed(c, m)
          /\ down' = [down EXCEPT ![k] = Tail(@)]
          /\ cend' = [cend EXCEPT ![k] = "pump"]
          /\ cst' = [cst EXCEPT ![k] = Received(@, mem[c], m)]
          /\ wake' = [wake EXCEPT ![k] = @ \/ mem'[c] # mem[c]]
       \/ /\ ApplyUnflushed(c, m) \/ ApplyRejected(c, m)
          /\ CloseClients({k})
    /\ UNCHANGED <<apiVars, send, sst, up, notif, lagged>>

\* ContentChanged and Lagged are both answered by generating a message.
ClientEvent(k) ==
    /\ cend[k] = "loop" /\ wake[k]
    /\ wake' = [wake EXCEPT ![k] = FALSE]
    /\ cend' = [cend EXCEPT ![k] = "pump"]
    /\ UNCHANGED <<docVars, apiVars, send, cst, sst, up, down, notif, lagged, budget>>

ClientPump(k) ==
    LET doc == mem[Owner[k]] IN
    /\ cend[k] = "pump"
    /\ cend' = [cend EXCEPT ![k] = "loop"]
    /\ IF Quiet(cst[k], doc)
       THEN UNCHANGED <<cst, up>>
       ELSE /\ cst' = [cst EXCEPT ![k] = Generated(@, doc)]
            /\ SendUp(k, SyncMsg(cst[k], doc))
    /\ UNCHANGED <<docVars, apiVars, send, sst, down, wake, notif, lagged, budget>>

\* The client end stops: it reads that the server task has finished ...
ClientSeesClose(k) ==
    /\ cend[k] \in {"hello", "loop"} /\ send[k] = "closed" /\ down[k] = <<>>
    /\ CloseClients({k})
    /\ UNCHANGED <<docVars, apiVars, send, sst, up, notif, lagged, budget>>

\* ... or a receive (or the hello timeout) or a send fails.
ClientDrops(k) ==
    /\ OpenClient(k) /\ budget.drops > 0
    /\ budget' = [budget EXCEPT !.drops = @ - 1]
    /\ CloseClients({k})
    /\ UNCHANGED <<docVars, apiVars, send, sst, up, notif, lagged>>

-----------------------------------------------------------------------------
(* The server end: serve_socket.                                           *)

\* client_hello arrives: add_client announces the presence, server_hello goes out and
\* the first sync message follows it, before the task subscribes to notifications.
ServerGreet(k) ==
    /\ send[k] = "hello"
    /\ send' = [send EXCEPT ![k] = "gap"]
    /\ sst' = [sst EXCEPT ![k] = Generated(NewSync, mem[Server])]
    /\ SendDown(k, <<HelloMsg, SyncMsg(NewSync, mem[Server])>>)
    /\ Broadcast("presence", Receivers)
    /\ UNCHANGED <<docVars, apiVars, cend, cst, up, wake, budget>>

ServerSubscribe(k) ==
    /\ send[k] = "gap"
    /\ send' = [send EXCEPT ![k] = "loop"]
    /\ UNCHANGED <<docVars, apiVars, cend, cst, sst, up, down, wake, notif, lagged, budget>>

\* serve_socket returns; if it had called add_client, remove_client announces that.
EndTask(k) ==
    /\ CloseServers({k})
    /\ IF send[k] = "hello" THEN UNCHANGED <<notif, lagged>>
       ELSE Broadcast("presence", Receivers \ {k})

\* A binary frame: apply and flush, then announce a change and generate the answer.
ServerReceive(k) ==
    LET m == Head(up[k]) IN
    /\ send[k] = "loop" /\ up[k] # <<>>
    /\ \/ /\ ApplyFlushed(Server, m)
          /\ send' = [send EXCEPT ![k] = IF mem'[Server] # mem[Server]
                                         THEN "announce" ELSE "pump"]
          /\ sst' = [sst EXCEPT ![k] = Received(@, mem[Server], m)]
          /\ up' = [up EXCEPT ![k] = Tail(@)]
          /\ UNCHANGED <<notif, lagged>>
       \/ /\ ApplyUnflushed(Server, m) \/ ApplyRejected(Server, m)
          /\ EndTask(k)
    /\ UNCHANGED <<apiVars, cend, cst, down, wake>>

\* Mutation: a merged frame is not announced to the other tasks.
ServerAnnounce_Silent(k) ==
    /\ send[k] = "announce"
    /\ send' = [send EXCEPT ![k] = "pump"]
    /\ UNCHANGED <<docVars, apiVars, cend, cst, sst, up, down, wake, notif, lagged, budget>>

ServerAnnounce(k) ==
    /\ send[k] = "announce"
    /\ send' = [send EXCEPT ![k] = "pump"]
    /\ AnnounceDocument
    /\ UNCHANGED <<docVars, api, cend, cst, sst, up, down, wake, budget>>

\* A notification: DocumentChanged generates a message, Lagged is only skipped over.
ServerNotified(k) ==
    /\ send[k] = "loop"
    /\ \/ /\ lagged[k]
          /\ lagged' = [lagged EXCEPT ![k] = FALSE]
          /\ UNCHANGED <<notif, send>>
       \/ /\ ~lagged[k] /\ notif[k] # <<>>
          /\ notif' = [notif EXCEPT ![k] = Tail(@)]
          /\ send' = IF Head(notif[k]) = "doc" THEN [send EXCEPT ![k] = "pump"] ELSE send
          /\ UNCHANGED lagged
    /\ UNCHANGED <<docVars, apiVars, cend, cst, sst, up, down, wake, budget>>

ServerPump(k) ==
    /\ send[k] = "pump"
    /\ send' = [send EXCEPT ![k] = "loop"]
    /\ IF Quiet(sst[k], mem[Server])
       THEN UNCHANGED <<sst, down>>
       ELSE /\ sst' = [sst EXCEPT ![k] = Generated(@, mem[Server])]
            /\ SendDown(k, <<SyncMsg(sst[k], mem[Server])>>)
    /\ UNCHANGED <<docVars, apiVars, cend, cst, up, wake, notif, lagged, budget>>

\* The task reads that the client has closed ...
ServerSeesClose(k) ==
    /\ send[k] \in {"hello", "loop"} /\ cend[k] = "closed" /\ up[k] = <<>>
    /\ EndTask(k)
    /\ UNCHANGED <<docVars, apiVars, cend, cst, down, wake, budget>>

\* ... or a receive (or the hello timeout) or a send fails; the announcement cannot.
ServerDrops(k) ==
    /\ OpenServer(k) /\ send[k] # "announce" /\ budget.drops > 0
    /\ budget' = [budget EXCEPT !.drops = @ - 1]
    /\ EndTask(k)
    /\ UNCHANGED <<docVars, apiVars, cend, cst, down, wake>>

-----------------------------------------------------------------------------
(* Process crashes: open_or_create loads the last snapshot.                *)

\* Mutation: a restarted client starts from an empty document.
ClientCrash_Blank(c) ==
    /\ budget.crashes > 0
    /\ budget' = [budget EXCEPT !.crashes = @ - 1]
    /\ mem' = [mem EXCEPT ![c] = {}]
    /\ CloseClients({k \in Conn : Owner[k] = c /\ OpenClient(k)})
    /\ UNCHANGED <<made, info, disk, acked, apiVars, send, sst, up, notif, lagged>>

ClientCrash(c) ==
    /\ budget.crashes > 0
    /\ budget' = [budget EXCEPT !.crashes = @ - 1]
    /\ mem' = [mem EXCEPT ![c] = disk[c]]
    /\ CloseClients({k \in Conn : Owner[k] = c /\ OpenClient(k)})
    /\ UNCHANGED <<made, info, disk, acked, apiVars, send, sst, up, notif, lagged>>

ServerCrash ==
    /\ budget.crashes > 0
    /\ budget' = [budget EXCEPT !.crashes = @ - 1]
    /\ mem' = [mem EXCEPT ![Server] = disk[Server]]
    /\ CloseServers({k \in Conn : OpenServer(k)})
    /\ notif' = [k \in Conn |-> <<>>]
    /\ lagged' = [k \in Conn |-> FALSE]
    /\ api' = "idle" /\ requested' = {} /\ unannounced' = {}
    /\ UNCHANGED <<made, info, disk, acked, cend, cst, down, wake>>

-----------------------------------------------------------------------------
Init ==
    /\ made = 0
    /\ info = [c \in Change |-> [author |-> Server, seq |-> 0, past |-> {}]]
    /\ mem = [r \in Replica |-> {}]
    /\ disk = [r \in Replica |-> {}]
    /\ acked = {}
    /\ api = "idle" /\ requested = {} /\ unannounced = {}
    /\ cend = [k \in Conn |-> "idle"]
    /\ send = [k \in Conn |-> "idle"]
    /\ cst = [k \in Conn |-> NewSync]
    /\ sst = [k \in Conn |-> NewSync]
    /\ up = [k \in Conn |-> <<>>]
    /\ down = [k \in Conn |-> <<>>]
    /\ wake = [k \in Conn |-> FALSE]
    /\ notif = [k \in Conn |-> <<>>]
    /\ lagged = [k \in Conn |-> FALSE]
    /\ budget \in Budgets

ClientStep(k) ==
    \/ Connect(k) \/ ClientHello(k) \/ ClientReceive(k) \/ ClientEvent(k)
    \/ ClientPump(k) \/ ClientSeesClose(k)

ServerStep(k) ==
    \/ ServerGreet(k) \/ ServerSubscribe(k) \/ ServerReceive(k)
    \/ ServerAnnounce(k) \/ ServerNotified(k) \/ ServerPump(k) \/ ServerSeesClose(k)

Next ==
    \/ \E c \in Client : ClientPut(c) \/ ClientCrash(c)
    \/ ServerApiRevision \/ ServerApiHead \/ ServerApiDropped \/ ServerApiNotify
    \/ ServerCrash
    \/ \E k \in Conn : ClientStep(k) \/ ServerStep(k) \/ ClientDrops(k) \/ ServerDrops(k)

Spec == Init /\ [][Next]_vars

\* Both ends of a connection and a request that is not dropped are scheduled tasks; users,
\* disks and networks owe nothing.
Fairness ==
    /\ \A k \in Conn : WF_vars(ClientStep(k)) /\ WF_vars(ServerStep(k))
    /\ WF_vars(ServerApiHead) /\ WF_vars(ServerApiNotify)

FairSpec == Spec /\ Fairness

-----------------------------------------------------------------------------
(* Correctness.                                                            *)

Message == [type : {"sync", "hello"}, heads : SUBSET Change, changes : SUBSET Change]
SyncRecord == [heard : BOOLEAN, theirs : SUBSET Change, said : BOOLEAN,
               last : SUBSET Change, flying : BOOLEAN]
ChangeInfo == [author : Replica, seq : Nat, past : SUBSET Change]

DocTypes ==
    /\ made \in 0..MaxChanges
    /\ info \in [Change -> ChangeInfo]
    /\ mem \in [Replica -> SUBSET Change]
    /\ disk \in [Replica -> SUBSET Change]
    /\ acked \in SUBSET Change

ConnTypes ==
    /\ cend \in [Conn -> {"idle", "hello", "loop", "pump", "closed"}]
    /\ send \in [Conn -> {"idle", "hello", "gap", "closed"} \cup Looping]
    /\ cst \in [Conn -> SyncRecord] /\ sst \in [Conn -> SyncRecord]
    /\ up \in [Conn -> Seq(Message)] /\ down \in [Conn -> Seq(Message)]
    /\ wake \in [Conn -> BOOLEAN]
    /\ notif \in [Conn -> Seq({"doc", "presence"})]
    /\ lagged \in [Conn -> BOOLEAN]

\* Every variable keeps its type.
TypeOK == /\ DocTypes /\ ConnTypes
          /\ api \in {"idle", "revision", "head"}
          /\ requested \in SUBSET Change /\ unannounced \in SUBSET Change
          /\ budget \in Budget

Closed(S) == \A c \in S : info[c].past \subseteq S

\* No document, in memory or on disk, ever holds a change without the changes it was
\* written on: incremental messages, reconnections, failed flushes and restarts included.
CausallyClosed == \A r \in Replica : Closed(mem[r]) /\ Closed(disk[r])

\* A record whose put_record returned Ok is in its writer's durable snapshot from then on,
\* whatever is merged, fails to flush or crashes later.
AckedDurable == \A c \in acked : c \in disk[info[c].author]

\* What a frame for r announces is a whole document, and what it omits r already holds.
Fits(m, r) ==
    /\ m.changes \subseteq m.heads /\ m.heads \subseteq 1..made /\ Closed(m.heads)
    /\ m.changes # {} => m.heads \ m.changes \subseteq mem[r]

\* Every frame in flight can be applied when it arrives, in whatever state the writes,
\* merges, failures and restarts since it was generated have left its receiver.
FramesFit ==
    \A k \in Conn : /\ \A i \in 1..Len(up[k]) : Fits(up[k][i], Server)
                    /\ \A i \in 1..Len(down[k]) : Fits(down[k][i], Owner[k])

\* While an end of a connection is open, it still holds every change the other end has
\* been told, or is about to be told, that it holds.
PeersKnown ==
    \A k \in Conn :
        /\ OpenClient(k) =>
             /\ sst[k].theirs \subseteq mem[Owner[k]]
             /\ \A i \in 1..Len(up[k]) : up[k][i].heads \subseteq mem[Owner[k]]
        /\ OpenServer(k) =>
             /\ cst[k].theirs \subseteq mem[Server]
             /\ \A i \in 1..Len(down[k]) : down[k][i].heads \subseteq mem[Server]
        /\ ~OpenClient(k) => down[k] = <<>>
        /\ ~OpenServer(k) => up[k] = <<>>
        /\ cend[k] = "idle" => send[k] = "idle" /\ cst[k].theirs = {} /\ sst[k].theirs = {}

\* Snapshots lag behind memory, and memory holds only what was written.
DocsWritten ==
    /\ acked \subseteq 1..made
    /\ \A r \in Replica : disk[r] \subseteq mem[r] /\ mem[r] \subseteq 1..made

\* The inductive invariant behind CausallyClosed and AckedDurable.
IInv == /\ TypeOK /\ DocsWritten /\ CausallyClosed /\ AckedDurable
        /\ FramesFit /\ PeersKnown

\* Two different changes that any replica holds never share author and sequence number;
\* Automerge would refuse to merge them, and the two replicas could never converge.
NoSeqFork ==
    LET held == UNION {mem[r] \cup disk[r] : r \in Replica} IN
    \A x, y \in held :
        info[x].author = info[y].author /\ info[x].seq = info[y].seq => x = y

\* The inductive invariant behind NoSeqFork: while a behaviour does not have both a failed
\* flush and a crash nothing is ever forgotten, so an author still holds whatever it has
\* written and counts it in the next sequence number.
Own(r) == {c \in mem[r] : info[c].author = r}
Flushed == budget.failures = 0 /\ mem = disk
NothingForgotten == Flushed \/ budget.crashes = 0
Counted ==
    \A c \in 1..made :
        /\ c \in mem[info[c].author]
        /\ info[c].seq <= Cardinality(Own(info[c].author))
        /\ \A d \in 1..made : info[c].author = info[d].author /\ info[c].seq = info[d].seq => c = d
SeqInv == NothingForgotten /\ Counted

\* A change a client got from somebody else is in the server's durable snapshot:
\* "The server fsyncs accepted Automerge changes before they can be observed by another
\* client" (architecture.md).
ServerDurableBeforeObserved ==
    \A c \in Client : \A x \in mem[c] : info[x].author # c => x \in disk[Server]

\* The inductive invariant behind it: while no flush fails every snapshot is the document,
\* and what is on its way to a client or has arrived there is the client's own or the server's.
ObservedInv ==
    /\ Flushed
    /\ \A k \in Conn : \A i \in 1..Len(down[k]) : down[k][i].changes \subseteq mem[Server]
    /\ \A c \in Client : mem[c] \subseteq Own(c) \cup mem[Server]

\* c has a connection, or can still open one.
Reachable(c) == budget.dials[c] > 0 \/ \E k \in Conn : Owner[k] = c /\ OpenClient(k)

\* Writes and failures being finitely many, the server ends up with the document of every
\* client that still reaches it, and the client with the server's: no wake-up between the
\* tasks is lost for good.  The client may lack only what item requests put that were dropped
\* between their two records and that no DocumentChanged has followed.
EventuallyConverged ==
    <>[](\A c \in Client : Reachable(c) =>
            mem[c] \subseteq mem[Server] /\ mem[Server] \ mem[c] \subseteq unannounced)

\* The promise this protocol implements.
Docs == INSTANCE CausalDocs WITH
            used <- 1..made,
            author <- [c \in Change |-> info[c].author],
            past <- [c \in Change |-> info[c].past],
            doc <- mem
ImplementsCausalDocs == Docs!Spec
=============================================================================
