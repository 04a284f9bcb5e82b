------------------------------- MODULE Presence -------------------------------
(* Who is connected: the server's roster, the lists it sends, and the connection loop   *)
(* of a native client (xo-syncd/src/central.rs, xo/src/central_client.rs).              *)
(*                                                                                      *)
(* A connection task adds its client to the roster, sends the list it reads then, and   *)
(* only later subscribes to the notifications that make it send the list again.  Each   *)
(* await is a step.  Documents are left to CentralSync.                                 *)
EXTENDS Naturals, Sequences, SequencesExt, FiniteSets

CONSTANTS
    Clients,          \* native sessions
    Label,            \* the client_id each of them is configured with
    Attempts,         \* connections each session makes
    Room,             \* capacity of the notification channel (128 in the code)
    PresenceBudget    \* how many document changes, losses, sends that block and shutdowns

ASSUME PresenceAssumption == Attempts \in [Clients -> Nat] /\ Room \in Nat \ {0}

Links == UNION {{c} \X (1 .. Attempts[c]) : c \in Clients}
Labels == {Label[c] : c \in Clients}

VARIABLES
    task,     \* the server's task of each connection
    roster,   \* clients: how many tasks have added each label
    mail,     \* notifications a task has not taken yet
    wire,     \* lists on their way to the client
    link,     \* the client's end of each connection
    status,   \* CentralClientStatus
    peers,    \* connected_clients of each session's replica
    stop,     \* sessions that were told to shut down
    luck      \* remaining budget, and the tasks that missed a notification

presenceVars == <<task, roster, mail, wire, link, status, peers, stop, luck>>

Listening(k) == task[k] = "loop"
ClientIds == {l \in Labels : roster[l] > 0}

-----------------------------------------------------------------------------
(* The server *)

\* notifications.send: subscribed tasks get the notification, a full receiver loses its
\* oldest; a task that has not subscribed yet gets nothing.
Notify(what, tasks) ==
    /\ mail' = [k \in Links |->
                  IF k \notin tasks THEN <<>>
                  ELSE IF Len(mail[k]) < Room THEN Append(mail[k], what)
                  ELSE Append(Tail(mail[k]), what)]
    /\ luck' = [luck EXCEPT
          !.missed = @ \cup {k \in Links :
                \/ what = "presence" /\ task[k] = "greeted"
                \/ k \in tasks /\ Len(mail[k]) = Room /\ Head(mail[k]) = "presence"},
          !.docs = IF what = "doc" THEN @ - 1 ELSE @]

Listeners == {k \in Links : Listening(k)}

\* client_hello arrived: add_client, then every subscribed task is notified.
AddClient(k) ==
    /\ task[k] = "accepted" /\ link[k] # "closed"
    /\ task' = [task EXCEPT ![k] = "added"]
    /\ roster' = [roster EXCEPT ![Label[k[1]]] = @ + 1]
    /\ Notify("presence", Listeners)
    /\ UNCHANGED <<wire, link, status, peers, stop>>

\* server_hello carries the list as it is now; a send to a client that has gone fails later.
SendList(k, to) ==
    /\ task' = [task EXCEPT ![k] = to]
    /\ wire' = IF link[k] = "closed" THEN wire ELSE [wire EXCEPT ![k] = Append(@, ClientIds)]

ServerHello(k) ==
    /\ task[k] = "added"
    /\ SendList(k, "greeted")
    /\ UNCHANGED <<roster, mail, link, status, peers, stop, luck>>

Subscribe(k) ==
    /\ task[k] = "greeted"
    /\ task' = [task EXCEPT ![k] = "loop"]
    /\ UNCHANGED <<roster, mail, wire, link, status, peers, stop, luck>>

\* PresenceChanged makes the task send the list; DocumentChanged is CentralSync's.
TakeNotification(k) ==
    /\ Listening(k) /\ mail[k] # <<>>
    /\ mail' = [mail EXCEPT ![k] = Tail(@)]
    /\ IF Head(mail[k]) = "presence" THEN SendList(k, "loop") ELSE UNCHANGED <<task, wire>>
    /\ UNCHANGED <<roster, link, status, peers, stop, luck>>

\* The label goes with its first task, whatever other task has it.
RemoveClient_Label(k) ==
    /\ task[k] \in {"added", "greeted", "loop"} /\ link[k] = "closed"
    /\ task' = [task EXCEPT ![k] = "ended"]
    /\ roster' = [roster EXCEPT ![Label[k[1]]] = 0]
    /\ Notify("presence", Listeners \ {k})
    /\ UNCHANGED <<wire, link, status, peers, stop>>

\* Nobody is told that a client went.
RemoveClient_Silent(k) ==
    /\ task[k] \in {"added", "greeted", "loop"} /\ link[k] = "closed"
    /\ task' = [task EXCEPT ![k] = "ended"]
    /\ roster' = [roster EXCEPT ![Label[k[1]]] = @ - 1]
    /\ mail' = [mail EXCEPT ![k] = <<>>]
    /\ UNCHANGED <<wire, link, status, peers, stop, luck>>

\* The task reads the end of its connection, or fails to send on it: remove_client.
RemoveClient(k) ==
    /\ task[k] \in {"added", "greeted", "loop"} /\ link[k] = "closed"
    /\ task' = [task EXCEPT ![k] = "ended"]
    /\ roster' = [roster EXCEPT ![Label[k[1]]] = @ - 1]
    /\ Notify("presence", Listeners \ {k})
    /\ UNCHANGED <<wire, link, status, peers, stop>>

\* A connection that went before its hello ends without having been added.
HelloNeverCame(k) ==
    /\ task[k] = "accepted" /\ link[k] = "closed"
    /\ task' = [task EXCEPT ![k] = "ended"]
    /\ UNCHANGED <<roster, mail, wire, link, status, peers, stop, luck>>

-----------------------------------------------------------------------------
(* A native session: run and synchronize_once *)

Alive == {"dialing", "open", "greeted", "sending"}
Current(c) == {i \in 1 .. Attempts[c] : link[<<c, i>>] \in Alive}
Next1(c) == {i \in 1 .. Attempts[c] : /\ link[<<c, i>>] = "unused"
                                   /\ \A j \in 1 .. i - 1 : link[<<c, j>>] = "closed"}

\* The loop starts an attempt: connect_async and the send of the hello have no timeout and
\* see no shutdown.
Dial(c) ==
    /\ status[c] = "connecting" /\ ~stop[c] /\ Current(c) = {}
    /\ \E i \in Next1(c) : link' = [link EXCEPT ![<<c, i>>] = "dialing"]
    /\ UNCHANGED <<task, roster, mail, wire, status, peers, stop, luck>>

\* The server answers the upgrade and has a task for the connection; the client's hello
\* follows at once.
PeerAnswers(k) ==
    /\ link[k] = "dialing"
    /\ link' = [link EXCEPT ![k] = "open"]
    /\ task' = [task EXCEPT ![k] = "accepted"]
    /\ UNCHANGED <<roster, mail, wire, status, peers, stop, luck>>

\* server_hello, which is awaited ten seconds at most: the list is shown and the session is
\* connected.
ReadHello(k) ==
    /\ link[k] = "open" /\ wire[k] # <<>>
    /\ link' = [link EXCEPT ![k] = "greeted"]
    /\ wire' = [wire EXCEPT ![k] = Tail(@)]
    /\ peers' = [peers EXCEPT ![k[1]] = Head(wire[k])]
    /\ status' = [status EXCEPT ![k[1]] = "connected"]
    /\ UNCHANGED <<task, roster, mail, stop, luck>>

ReadPresence(k) ==
    /\ link[k] = "greeted" /\ wire[k] # <<>>
    /\ wire' = [wire EXCEPT ![k] = Tail(@)]
    /\ peers' = [peers EXCEPT ![k[1]] = Head(wire[k])]
    /\ UNCHANGED <<task, roster, mail, link, status, stop, luck>>

\* A branch of the loop awaits a send that the network does not take: nothing else is read,
\* no list and no request to shut down.
Blocks(k) ==
    /\ link[k] = "greeted" /\ luck.blocks > 0
    /\ link' = [link EXCEPT ![k] = "sending"]
    /\ luck' = [luck EXCEPT !.blocks = @ - 1]
    /\ UNCHANGED <<task, roster, mail, wire, status, peers, stop>>

Unblocks(k) ==
    /\ link[k] = "sending"
    /\ link' = [link EXCEPT ![k] = "greeted"]
    /\ UNCHANGED <<task, roster, mail, wire, status, peers, stop, luck>>

Close1(k) == /\ link' = [link EXCEPT ![k] = "closed"]
             /\ wire' = [wire EXCEPT ![k] = <<>>]

\* The connection breaks, or was never made: the session is offline and shows nobody.
LoseConnection(k) ==
    /\ link[k] \in Alive /\ luck.losses > 0
    /\ Close1(k)
    /\ status' = [status EXCEPT ![k[1]] = "offline"]
    /\ peers' = [peers EXCEPT ![k[1]] = {}]
    /\ luck' = [luck EXCEPT !.losses = @ - 1]
    /\ UNCHANGED <<task, roster, mail, stop>>

\* The delay is over: the next attempt.
Retry(c) ==
    /\ status[c] = "offline" /\ ~stop[c]
    /\ status' = [status EXCEPT ![c] = "connecting"]
    /\ UNCHANGED <<task, roster, mail, wire, link, peers, stop, luck>>

RequestShutdown(c) ==
    /\ ~stop[c] /\ luck.stops > 0
    /\ stop' = [stop EXCEPT ![c] = TRUE]
    /\ luck' = [luck EXCEPT !.stops = @ - 1]
    /\ UNCHANGED <<task, roster, mail, wire, link, status, peers>>

\* The loop of a connected session says goodbye.
StopConnected(k) ==
    /\ stop[k[1]] /\ link[k] = "greeted"
    /\ Close1(k)
    /\ status' = [status EXCEPT ![k[1]] = "stopped"]
    /\ UNCHANGED <<task, roster, mail, peers, stop, luck>>

\* The request is seen only before an attempt, and not while the loop waits for the next.
StopIdle_Waiting(c) ==
    /\ stop[c] /\ Current(c) = {} /\ status[c] = "connecting"
    /\ status' = [status EXCEPT ![c] = "stopped"]
    /\ UNCHANGED <<task, roster, mail, wire, link, peers, stop, luck>>

\* Between two attempts, and before the first, the request is seen at once.  An attempt
\* under way is not interrupted.
StopIdle(c) ==
    /\ stop[c] /\ Current(c) = {} /\ status[c] \in {"offline", "connecting"}
    /\ status' = [status EXCEPT ![c] = "stopped"]
    /\ UNCHANGED <<task, roster, mail, wire, link, peers, stop, luck>>

\* Another connection changes the document.
DocumentChanged ==
    /\ luck.docs > 0
    /\ Notify("doc", Listeners)
    /\ UNCHANGED <<task, roster, wire, link, status, peers, stop>>

PresenceInit ==
    /\ task = [k \in Links |-> "none"]
    /\ roster = [l \in Labels |-> 0]
    /\ mail = [k \in Links |-> <<>>]
    /\ wire = [k \in Links |-> <<>>]
    /\ link = [k \in Links |-> "unused"]
    /\ status = [c \in Clients |-> "connecting"]
    /\ peers = [c \in Clients |-> {}]
    /\ stop = [c \in Clients |-> FALSE]
    /\ luck \in PresenceBudget

TaskStep(k) == \/ AddClient(k) \/ ServerHello(k) \/ Subscribe(k) \/ TakeNotification(k)
               \/ RemoveClient(k) \/ HelloNeverCame(k)
SessionStep(c) == \/ Dial(c) \/ Retry(c) \/ StopIdle(c)
                  \/ \E i \in 1 .. Attempts[c] : \/ ReadHello(<<c, i>>) \/ ReadPresence(<<c, i>>)
                                              \/ StopConnected(<<c, i>>)

PresenceNext ==
    \/ \E k \in Links : \/ TaskStep(k) \/ LoseConnection(k)
                        \/ PeerAnswers(k) \/ Blocks(k) \/ Unblocks(k)
    \/ \E c \in Clients : SessionStep(c) \/ RequestShutdown(c)
    \/ DocumentChanged

\* Tasks and sessions are scheduled by tokio; losses, shutdowns and changes may not come, a
\* peer may never answer an upgrade and a network never take a frame.
PresenceFairness == /\ \A k \in Links : WF_presenceVars(TaskStep(k))
                    /\ \A c \in Clients : WF_presenceVars(SessionStep(c))

PresenceSpec == PresenceInit /\ [][PresenceNext]_presenceVars
PresenceFairSpec == PresenceSpec /\ PresenceFairness

-----------------------------------------------------------------------------
(* Properties *)

PresenceTypeOK ==
    /\ task \in [Links -> {"none", "accepted", "added", "greeted", "loop", "ended"}]
    /\ roster \in [Labels -> Nat]
    /\ mail \in [Links -> Seq({"presence", "doc"})]
    /\ \A k \in Links : Len(mail[k]) <= Room
    /\ wire \in [Links -> Seq(SUBSET Labels)]
    /\ link \in [Links -> {"unused", "closed"} \cup Alive]
    /\ status \in [Clients -> {"connecting", "connected", "offline", "stopped"}]
    /\ peers \in [Clients -> SUBSET Labels]
    /\ stop \in [Clients -> BOOLEAN]

\* A label is on the roster exactly while a task that added it has not removed it, also
\* when a client reconnects before the server saw its old connection go.
RosterCounts ==
    \A l \in Labels :
        roster[l] = Cardinality({k \in Links : /\ Label[k[1]] = l
                                               /\ task[k] \in {"added", "greeted", "loop"}})

Online == {c \in Clients : \E i \in 1 .. Attempts[c] : link[<<c, i>>] \in {"greeted", "sending"}}

\* A task whose notifications all reached it and whose session is connected and reads.
Served(c) == \E i \in 1 .. Attempts[c] : link[<<c, i>>] = "greeted" /\ <<c, i>> \notin luck.missed

\* Every session whose task missed no notification comes to show the labels connected, and
\* a session that is not connected shows nobody (unless it stopped for good).
PeersConverge ==
    <>[](\A c \in Clients :
            /\ Served(c) => peers[c] = {Label[d] : d \in Online}
            /\ c \notin Online /\ status[c] # "stopped" => peers[c] = {})

\* The session awaits its peer where it does not look at the shutdown.
Held(c) == \E i \in 1 .. Attempts[c] : link[<<c, i>>] \in {"dialing", "sending"}

\* A session told to shut down stops, wherever in its loop the request finds it, unless it
\* stays held for ever by a peer that never answers its upgrade or never takes its frame.
ShutdownStops ==
    \A c \in Clients : <>[]Held(c) \/ (stop[c] ~> status[c] = "stopped")
=============================================================================
