---------------------------- MODULE ServerLifecycle ----------------------------
(* The server process: accepting connections, handling requests, upgrading to the sync  *)
(* socket, and stopping (xo-syncd/src/server.rs, main.rs, the item operations of        *)
(* central.rs).                                                                         *)
(*                                                                                      *)
(* A request is a future its connection polls: it is dropped, wherever it waits, when    *)
(* the client goes or the server stops.  What it held is released, what it wrote stays. *)
EXTENDS Naturals, FiniteSets

CONSTANTS
    Sockets,       \* TCP connections
    Items,         \* item ids; those not in Existing are generated for new items
    Existing,      \* items that are there at the start
    Nobody,        \* no request holds the mutation lock
    ServerBudget   \* bound: requests, clients that go, failures, whether accept fails

ASSUME ServerAssumption == Existing \subseteq Items /\ Nobody \notin Sockets

VARIABLES
    serve,     \* where serve is
    asked,     \* ctrl-c was pressed
    http,      \* the connection task of each socket and the request it handles
    sock,      \* the task spawned for an upgraded socket
    joined,    \* the tasks serve took out of the set of sockets
    lock,      \* CentralWorkspace::mutation
    store,     \* each item: revisions stored and the one its head asserts
    chance     \* remaining budget

serverVars == <<serve, asked, http, sock, joined, lock, store, chance>>

\* What a route needs and does.  The body is read before the work, the permission checked
\* before the body; a webhook has a body and needs no token.
Route == [needs : BOOLEAN, body : BOOLEAN, does : {"read", "create", "patch", "delete",
                                                   "upgrade"}]
Routes == {
    [needs |-> FALSE, body |-> FALSE, does |-> "read"],     \* healthz, llm.txt, PWA, config
    [needs |-> FALSE, body |-> TRUE, does |-> "create"],    \* POST /api/webhook/:name
    [needs |-> TRUE, body |-> TRUE, does |-> "create"],     \* POST /api/items, /api/item/:type
    [needs |-> TRUE, body |-> FALSE, does |-> "read"],      \* GET /api/items/:id, API keys
    [needs |-> TRUE, body |-> TRUE, does |-> "patch"],
    [needs |-> TRUE, body |-> FALSE, does |-> "delete"],
    [needs |-> TRUE, body |-> FALSE, does |-> "upgrade"]}   \* GET /api/sync

Idle == [at |-> "idle"]
Over == [at |-> "over"]
NewItem == [stored |-> 0, head |-> 0, live |-> FALSE]

Running(k) == http[k].at \notin {"none", "over"}
Handling(k) == Running(k) /\ http[k] # Idle

-----------------------------------------------------------------------------
(* handle: one request *)

To(k, at) == http' = [http EXCEPT ![k].at = at]

\* The response: the connection is ready for the next request.
Respond(k) == http' = [http EXCEPT ![k] = Idle]

\* A request arrives and is dispatched by its method and path.
RequestArrives(k) ==
    /\ http[k] = Idle /\ chance.requests > 0
    /\ \E route \in Routes, item \in Items :
          /\ route.does = "create" => store[item].stored = 0
                                      /\ \A j \in Sockets : Handling(j) => http[j].item # item
          /\ route.does # "create" => item \in Existing
          /\ http' = [http EXCEPT ![k] = [at |-> "auth", route |-> route, item |-> item]]
    /\ chance' = [chance EXCEPT !.requests = @ - 1]
    /\ UNCHANGED <<serve, asked, sock, joined, lock, store>>

\* authorize_request: a refused token ends the request with 401.
Authorized(k) ==
    /\ http[k].at = "auth"
    /\ \/ To(k, IF http[k].route.body THEN "body" ELSE "work")
       \/ http[k].route.needs /\ Respond(k)
    /\ UNCHANGED <<serve, asked, sock, joined, lock, store, chance>>

\* read_body_limited and the parsers: 400, 413 or 415 for a body that is broken, too large,
\* or of another type; a page that cannot be captured is 422.
BodyRead(k) ==
    /\ http[k].at = "body"
    /\ To(k, "work") \/ Respond(k)
    /\ UNCHANGED <<serve, asked, sock, joined, lock, store, chance>>

\* Reads answer with what there is.
Reads(k) ==
    /\ http[k].at = "work" /\ http[k].route.does = "read"
    /\ Respond(k)
    /\ UNCHANGED <<serve, asked, sock, joined, lock, store, chance>>

\* A mutation waits for the lock, then looks at the item again: 404 or 409 if it is not
\* there, or there already, or the patched id is another.
TakesLock(k) ==
    /\ http[k].at = "work" /\ http[k].route.does \in {"create", "patch", "delete"}
    /\ lock = Nobody
    /\ LET i == http[k].item
           fits == IF http[k].route.does = "create" THEN store[i].stored = 0
                   ELSE store[i].live
       IN  \/ /\ fits
              /\ lock' = k
              /\ To(k, "revision")
           \/ /\ ~fits \/ http[k].route.does = "patch"
              /\ Respond(k)
              /\ UNCHANGED lock
    /\ UNCHANGED <<serve, asked, sock, joined, store, chance>>

\* commit_revision: the revision record, then the head; a failed flush is a 500.
PutsRevision(k) ==
    /\ http[k].at = "revision"
    /\ store' = [store EXCEPT ![http[k].item].stored = @ + 1]
    /\ To(k, "head")
    /\ UNCHANGED <<serve, asked, sock, joined, lock, chance>>

SetsHead(k) ==
    /\ http[k].at = "head"
    /\ store' = [store EXCEPT ![http[k].item] =
                    [@ EXCEPT !.head = store[http[k].item].stored,
                              !.live = http[k].route.does # "delete"]]
    /\ lock' = Nobody
    /\ http' = [http EXCEPT ![k].at = "answer"]
    /\ UNCHANGED <<serve, asked, sock, joined, chance>>

StoreFails(k) ==
    /\ http[k].at \in {"revision", "head"} /\ chance.failures > 0
    /\ Respond(k)
    /\ lock' = Nobody
    /\ chance' = [chance EXCEPT !.failures = @ - 1]
    /\ UNCHANGED <<serve, asked, sock, joined, store>>

Answers(k) ==
    /\ http[k].at = "answer"
    /\ Respond(k)
    /\ UNCHANGED <<serve, asked, sock, joined, lock, store, chance>>

\* websocket_upgrade: the socket's task waits for the upgrade while 101 is sent; the
\* connection's own task ends with it.
Upgrades(k) ==
    /\ http[k].at = "work" /\ http[k].route.does = "upgrade"
    /\ sock[k] = "none"
    /\ sock' = [sock EXCEPT ![k] = "awaiting"]
    /\ To(k, "switching")
    /\ UNCHANGED <<serve, asked, joined, lock, store, chance>>

Upgraded(k) ==
    /\ http[k].at = "switching"
    /\ sock' = [sock EXCEPT ![k] = "serving"]
    /\ http' = [http EXCEPT ![k] = Over]
    /\ UNCHANGED <<serve, asked, joined, lock, store, chance>>

-----------------------------------------------------------------------------
(* What ends a task *)

\* The connection's future is dropped with the request it polls; an upgrade that was
\* waiting for it fails.
Dropped(K) ==
    /\ http' = [k \in Sockets |-> IF k \in K THEN Over ELSE http[k]]
    /\ sock' = [k \in Sockets |->
                  IF k \in K /\ sock[k] = "awaiting" THEN "over" ELSE sock[k]]
    /\ lock' = IF lock \in K THEN Nobody ELSE lock

ClientGoes(k) ==
    /\ chance.gone > 0
    /\ \/ Running(k) /\ Dropped({k})
       \/ /\ sock[k] = "serving"
          /\ sock' = [sock EXCEPT ![k] = "over"]
          /\ UNCHANGED <<http, lock>>
    /\ chance' = [chance EXCEPT !.gone = @ - 1]
    /\ UNCHANGED <<serve, asked, joined, store>>

\* Shutdown was sent, or its sender and the task sets are gone with a failed serve: what
\* still runs is polled until it sees that, or until the abort reaches it.
Stopping == serve \in {"draining", "joining", "failed"}

\* A connection task sees the shutdown before its request is done.
Cancelled(k) ==
    /\ Stopping /\ Running(k)
    /\ Dropped({k})
    /\ UNCHANGED <<serve, asked, joined, store, chance>>

\* The socket's task sees the shutdown only while connections are joined.
SocketCancelled_Draining(k) ==
    /\ serve = "draining" /\ sock[k] = "serving"
    /\ sock' = [sock EXCEPT ![k] = "over"]
    /\ UNCHANGED <<serve, asked, http, joined, lock, store, chance>>

SocketCancelled(k) ==
    /\ Stopping /\ sock[k] = "serving"
    /\ sock' = [sock EXCEPT ![k] = "over"]
    /\ UNCHANGED <<serve, asked, http, joined, lock, store, chance>>

-----------------------------------------------------------------------------
(* serve and main *)

Accepts(k) ==
    /\ serve = "accepting" /\ http[k].at = "none"
    /\ http' = [http EXCEPT ![k] = Idle]
    /\ UNCHANGED <<serve, asked, sock, joined, lock, store, chance>>

\* accept fails: serve returns without joining anything.  Its tasks run on until they notice,
\* and the process goes on waiting for ctrl-c.
AcceptFails ==
    /\ serve = "accepting" /\ chance.accept
    /\ serve' = "failed"
    /\ UNCHANGED <<asked, http, sock, joined, lock, store, chance>>

CtrlC == /\ ~asked /\ asked' = TRUE
         /\ UNCHANGED <<serve, http, sock, joined, lock, store, chance>>

Shutdown ==
    /\ serve = "accepting" /\ asked
    /\ serve' = "draining"
    /\ UNCHANGED <<asked, http, sock, joined, lock, store, chance>>

\* The socket tasks are taken while connections still run.
TakesSockets_Early ==
    /\ serve = "draining"
    /\ serve' = "joining"
    /\ joined' = {k \in Sockets : sock[k] # "none"}
    /\ UNCHANGED <<asked, http, sock, lock, store, chance>>

\* All connection tasks were joined: the socket tasks are taken.
TakesSockets ==
    /\ serve = "draining" /\ \A k \in Sockets : ~Running(k)
    /\ serve' = "joining"
    /\ joined' = {k \in Sockets : sock[k] # "none"}
    /\ UNCHANGED <<asked, http, sock, lock, store, chance>>

Returns ==
    /\ serve = "joining" /\ \A k \in joined : sock[k] = "over"
    /\ serve' = "returned"
    /\ UNCHANGED <<asked, http, sock, joined, lock, store, chance>>

\* main joins the server after ctrl-c and ends the process, and with it what a failed serve
\* has left running.
Exits ==
    /\ asked /\ serve \in {"returned", "failed"}
    /\ serve' = "exited"
    /\ http' = [k \in Sockets |-> IF Running(k) THEN Over ELSE http[k]]
    /\ sock' = [k \in Sockets |-> IF sock[k] = "none" THEN "none" ELSE "over"]
    /\ lock' = Nobody
    /\ UNCHANGED <<asked, joined, store, chance>>

ServerInit ==
    /\ serve = "accepting" /\ asked = FALSE
    /\ http = [k \in Sockets |-> [at |-> "none"]]
    /\ sock = [k \in Sockets |-> "none"]
    /\ joined = {} /\ lock = Nobody
    /\ store = [i \in Items |-> IF i \in Existing THEN [stored |-> 1, head |-> 1, live |-> TRUE]
                                ELSE NewItem]
    /\ chance \in ServerBudget

HandleStep(k) ==
    \/ Authorized(k) \/ BodyRead(k) \/ Reads(k) \/ TakesLock(k) \/ PutsRevision(k)
    \/ SetsHead(k) \/ Answers(k) \/ Upgrades(k) \/ Upgraded(k)
EndStep(k) == Cancelled(k) \/ SocketCancelled(k)
MainStep == Shutdown \/ TakesSockets \/ Returns \/ Exits

ServerNext ==
    \/ \E k \in Sockets : \/ RequestArrives(k) \/ HandleStep(k) \/ StoreFails(k)
                          \/ ClientGoes(k) \/ EndStep(k) \/ Accepts(k)
    \/ AcceptFails \/ CtrlC \/ MainStep

\* Tasks are scheduled by tokio.  Nothing is assumed of clients or of requests.
ServerFairness == WF_serverVars(MainStep) /\ \A k \in Sockets : WF_serverVars(EndStep(k))

ServerSpec == ServerInit /\ [][ServerNext]_serverVars
ServerFairSpec == ServerSpec /\ ServerFairness

-----------------------------------------------------------------------------
(* Properties *)

ServerTypeOK ==
    /\ serve \in {"accepting", "draining", "joining", "returned", "failed", "exited"}
    /\ \A k \in Sockets : http[k].at \in {"none", "idle", "over", "auth", "body", "work",
                                          "revision", "head", "answer", "switching"}
    /\ sock \in [Sockets -> {"none", "awaiting", "serving", "over"}]
    /\ lock \in Sockets \cup {Nobody}
    /\ joined \subseteq Sockets

\* When a serve that was asked to stop has returned no task runs and nothing is locked, also
\* when requests were dropped that held the mutation lock or an upgrade registered its task
\* late: the documents are closed under nobody (server.rs:105-119).  A serve that returns
\* because accept failed promises nothing of the kind.
NothingRunsAfter ==
    serve = "returned" =>
        /\ lock = Nobody
        /\ \A k \in Sockets : ~Running(k) /\ sock[k] \in {"none", "over"}

\* Asked to stop, the process ends, whatever its clients do.
StopsWhenAsked == asked ~> serve = "exited"
=============================================================================
