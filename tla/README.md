# xo: verification project

TLA+ models of xo, an offline-first note workspace whose native and browser
clients hold Automerge replicas and synchronise through one server,
`xo-syncd`. The modules are translated from the Rust and TypeScript sources;
`PROJECT.json` maps each definition to the lines it stands for.

## The system

| Part | State it keeps | Operations | Correct when |
|---|---|---|---|
| Record store (`automerge_store.rs`) | one Automerge document in memory, its snapshot file | put, merge a sync message, flush (write, fsync, rename), reload | documents are causally closed; an acknowledged write survives |
| Replica (`central_replica.rs`) | a store, an event channel, connection status | put a record, generate and receive sync messages | every local change wakes the client task |
| Client connection (`central_client.rs`) | per attempt: WebSocket, sync state; across attempts: retry delay, known peers | connect, hello, select over socket, events and timer, reconnect, shut down | a connected client reaches the server's document; a shutdown ends it anywhere |
| Central workspace (`central.rs`) | replica, clock, mutation lock, client counts, notification channel | serve a socket, create, patch and delete items | a change one client sent reaches the others, after it is durable; the roster counts connections |
| Records and resolution (`records.rs`, `resolution.rs`, `hlc.rs`) | immutable revisions, one head per author, hybrid clocks | put a revision, set a head, load and resolve a note | a note can always be loaded, nothing asserted is forgotten, conflicts are explicit |
| Native session (`session.rs`) | replica, clock, projection, lock | save, delete, restore, configure | a save keeps what it replaces |
| Browser worker (`runtime.worker.ts`, `xo-pwa`) | WASM replica, IndexedDB settings and snapshot, socket, dirty flag | mutate a note, connect, receive, reconnect, change workspace, wipe | nothing unsent is thrown away or called clean |
| Browser page (`main.tsx`, `workspace-ui.tsx`, `runtime.ts`) | view, rows, selection, editor, calls of the worker | query, save, refresh, give up | what is shown answers what was asked; loading and saving end |
| Projection (`projection.rs`) | Markdown files, manifests, expected writes | materialise records into files | the files come to show the records, and edits are not overwritten |
| HTTP server (`server.rs`, `main.rs`) | connection and socket tasks, the mutation lock | accept, handle, upgrade, shut down | nothing runs or is locked after it returned; it ends when asked |
| API keys and tokens (`api_keys.rs`, `auth.rs`) | keys in memory and in a file, the cached key set | create, remove, verify, refresh the set | what was answered survives; valid tokens are accepted |
| Native OAuth (`oauth.rs`) | `auth.json`, shared by programs | load, refresh, log in, save | a person who logged in stays signed in |
| Browser OAuth (`auth.ts`) | `localStorage` shared by tabs, each tab's `sessionStorage` | load, refresh, redirect, exchange, save | the stored refresh token is one the provider takes |
| Terminal application (`app.rs`, `main.rs`) | the list, marks, modes, the open picker | keys, editor, actions, refresh | the list is the replica's; a key changes what it was meant for |
| Configuration (`session.rs`, `behavior.rs`, `steel_runtime.rs`, `plugin.rs`) | replicated revisions of `xo.scm`, local plugin files | load, complete, write back, install | what a load writes every client reads, loads end, local plugins stay local |
| Steel plugin run (`steel_plugin.rs`) | capabilities, queued operations | host calls, result, apply | it changes and reaches only what was granted |
| Import and export (`content_io.rs`) | a snapshot, files | check, save; plan, write | an import is whole or nothing, an export has every note |
| URL capture (`url_capture.rs`) | pinned addresses, redirects, bytes | validate, resolve, request, read | only public addresses, within the limits |
| Sync state, local index, LLM text, LSP, codecs, installer | none in use, or derived | | not in the core |

**Interactions.** A native session owns a replica that a client task shares
with it: a put merges into the document, flushes, and queues an event; the task
sleeps in a select over socket, events, shutdown and a timer. The server holds
one replica for all its connection tasks and the item API. Each task has a sync
state of its own and learns of changes made by others through one broadcast
channel of 128 slots. Every commit of a note is two puts, the revision and then
the author's head; merges run between any two. Browser and native clients
resolve notes with the same code and stamp them with different clocks. The
terminal application and the browser page see replica events, refresh, and act
on what they last showed; the projection and the configuration are derived from
the records at such a refresh, and loading the configuration may write one.

**What is hard.** Interleavings of tasks over shared documents; wake-ups that
must not be lost between a generated message and the next wait; flushes that
fail after memory has changed; crashes around a flush and the reuse of sequence
numbers; connections broken with frames in flight; a full notification channel;
commits that follow what was read earlier; clocks that lag; two queues of
handlers over one replica in the browser; files that a person edits under a
pass; requests dropped where they wait; programs and tabs that share one
refresh token; a list that moves under an open picker.

`PROJECT.json` lists the hazards at their lines, each with the properties that
catch it going wrong.

## The modules

| Module | Models |
|---|---|
| `CausalDocs` | the abstract promise: replicas with causally closed documents that write, merge and restart without losing an acknowledged write |
| `AutomergeSync` | the sync protocol seen from one end of a connection |
| `CentralSync` | both ends of the synchronisation, the stores below them, item-API commits, faults |
| `NoteHistory` | one note's revisions, heads and clocks, written by several editors on top of `CausalDocs` |
| `BrowserWorker` | the browser's worker: socket, queues, IndexedDB, reload, wipe |
| `Projection`, `Presence`, `AccessControl`, `ServerLifecycle`, `UrlCapture`, `NativeSignIn`, `TerminalApp`, `WorkspaceConfig`, `ConfigText`, `BrowserUi`, `ContentFiles`, `PluginRun`, `BrowserSignIn` | the thirteen components around the replicated records, one each |
| `ComponentTypes` | the type invariants of twelve of the thirteen as one (the state of `ConfigText` is a text) |
| `MC...` | TLC instances; `MCComponents` holds the thirteen |
| `CentralSyncProofs`, `NoteHistoryProofs` | theorems about `CentralSync`, `NoteHistory` |
| `ServerProofs` | theorems about `ServerLifecycle`, `UrlCapture`, `AccessControl`, `Presence` |
| `BrowserWorkerProofs` | theorems about `BrowserWorker` |
| `ClientProofs`, `WorkspaceProofs` | theorems about `BrowserUi`, `TerminalApp`, `BrowserSignIn` and `NativeSignIn`; `PluginRun`, `WorkspaceConfig`, `Projection` and `ContentFiles` |
| `ComponentProofs` | the theorem about `ComponentTypes`, from lemmas of the three before |
| `Induction` | induction and recursion over numbers, for the proofs |

### CentralSync

A change is a number; its author, sequence number and causal past are recorded
when it is made (`info`). `mem[r]` is a replica's document in memory and `disk[r]` its
snapshot. A connection has two ends with a phase each (`cend`, `send`); each end
holds Automerge's sync state (`cst`, `sst`: what the peer is known to have, what
was announced last, whether an answer is awaited), and each direction is a
sequence of frames (`up`, `down`). `requested` are the changes an item request has put
and not announced, `unannounced` those of requests that ended so. `notif` and `lagged` are a server task's
receiver of the broadcast channel, `wake` is a client task's unread event, and
`api` is the item request that holds the mutation lock.

| Action | Code |
|---|---|
| `ClientPut`, `ServerApiRevision`, `ServerApiHead`, `ServerApiNotify` | a put is memory, then flush, then acknowledgement and event; an item commit is two puts and one notification |
| `ServerApiDropped` | the request is dropped where it awaits the document for the head: the revision stays, and nobody is told (`unannounced`). Nothing is awaited between the head and the notification |
| `Connect`, `ClientHello`, `ServerGreet`, `ServerSubscribe` | the handshake: the server generates its first message before it subscribes |
| `ClientReceive`, `ClientEvent`, `ClientPump` | the client's select loop; generating is a step of its own after receiving |
| `ServerReceive`, `ServerAnnounce`, `ServerPump`, `ServerNotified` | the server's select loop; merge, announcement and answer are separate steps |
| `ClientSeesClose`, `ServerSeesClose`, `ClientDrops`, `ServerDrops`, `EndTask` | the ends of a connection |
| `ClientCrash`, `ServerCrash` | memory is lost, the snapshot is reloaded |

The Automerge sync protocol is a library: its operators (`AutomergeSync`'s
`Missing`, `Quiet`, `Generated`, `Received`) are external and modelled from how the code uses it.
Its Bloom filter is taken without false positives, so a message carries exactly
the changes the peer is not known to have.


### NoteHistory

A record put is one change of a document; a revision's identity is the change
that stored it, as its hash is unique in the code. `plan[e]`, `seen[e]` and
`stored[e]` are the local variables of a commit: the predecessors it read, the
revisions its text was read at, and the revision between the two puts. Native
and server commits are `Read`, `Load`, `PutRevision`, `SetHead` with merges
between any two; one replica runs one commit at a time (`Free`: the session's
`&mut self`, the server's mutation lock). The browser worker does all of it in
one turn (`BrowserCommit`). `Merge` moves changes between a client and the
server, and `Crash` ends the operations of a replica and resets its clock. All
document steps are those of `CausalDocs`, which `CentralSync` implements, so the
transport is not repeated. Which flushes succeed is `CentralSync`'s subject:
here a failed put keeps its record and ends the commit, and restarts keep
documents.


### BrowserWorker

`page[t]` holds the variables of a tab's worker: replica, dirty flag, socket,
token, and where each of its two queues is (`requestAt`, `socketAt`). A handler
stops at every IndexedDB transaction it awaits; transactions begun and not
complete are `tx`, and what IndexedDB holds is `db`. Handlers of the other
queue, close events and timers run meanwhile; the page may go at any point and
be loaded again, with the replica and the actor IndexedDB then has. `putWrites`
puts the edit into the replica before its snapshot is persisted, as in the code.
The server's end is its document and one sync state for each socket. Either end refuses
a frame whose changes reuse a sequence number (`refused`), keeping what it had applied
before it met the change; a change that builds on what a document lacks stays aside and
is sent again. The first change of a replica, which names the workspace, belongs to its
actor and has number 1 in every workspace (`Begins`): it is the same whenever that
replica is created. `acked` are the edits the page was told are saved.

### The thirteen components

They share no state with one another beyond the records, so each is a module
with a specification of its own.

- `Projection`: one pass of `reconcile_files` at a time over the records taken
  at its start: obsolete files first, then writes, with the manifest last. The
  person's edits, other record changes, a failed step and a crash come between
  any two steps. A content stands for its hash.
- `Presence`: the roster, the list in `server_hello`, the subscription after it,
  the bounded channel, and the native connection loop with retries and shutdown. An
  attempt to connect ends when the peer answers or the connection is lost, and a branch
  of the loop may wait for a send the network does not take (`Blocks`).
- `AccessControl`: requests that check permission after permission against the
  shared key set, fetch and replace it; API keys in memory and in the file.
- `ServerLifecycle`: accept loop, routes, the two records of a commit under the
  mutation lock, upgrades, cancellation of a request wherever it waits, and the
  two stages of the shutdown. When accept fails, `serve` returns at once and its tasks run
  on until they notice, or until the process exits.
- `UrlCapture`: validation, a lookup that may differ each time, pinned
  addresses, redirects, chunks.
- `NativeSignIn`: programs that read `auth.json` as a whole, refresh or log in,
  and write it as a whole; a refresh may fail before or after the provider has
  exchanged the token (`Refresh`, `AnswerLost`).
- `BrowserSignIn`: tabs that share tokens and each have a sign-in of their own,
  with the refresh timer, lost answers, closed tabs and the wipe.
- `TerminalApp`: the event loop with its list, views, search, marks, modes,
  pickers, editor, actions with their effects, and the refreshes that replace the
  list; merges come at any point, also while the loop waits for an editor. Merges bring
  notes or a configuration, whose views have what they ask for, an order and subviews; a
  refresh takes the configuration first and the notes later, as the code does.
- `WorkspaceConfig`: revisions of the configuration, the completion a load
  writes, plugins that are installed and removed, and what each client shows.
- `ConfigText`: the forms of `xo.scm`: which are read, what a load completes,
  and what is written back.
- `BrowserUi`: the page's state and effects, calls with their two-minute limit,
  the worker's request queue, answers that come late or never.
- `ContentFiles`: an import checked against a snapshot and saved note by note; an
  export with its allocation of file names.
- `PluginRun`: a plugin that asks for anything in any order, the host's checks,
  the end of the run, and the operations applied one after the other.

## What the runs show

| Run | Instance | Result |
|---|---|---|
| `sync_faults` | two clients; up to two writes per side, two dials, one crash, one failed flush, one broken connection | documents in memory and on disk stay causally closed, acknowledged writes stay in the snapshot, every frame in flight can be applied |
| `sync_converge` | seven scenarios without failing flushes | the inductive invariant; no sequence number is used twice; nothing is observed before it is durable; connected clients converge, but for what a dropped item request put until an announcement follows; the protocol implements `CausalDocs` |
| `sync_undurable` | one write relayed, one failed flush | **violated**: another client receives a change the server has not flushed |
| `sync_lagged` | a channel of one slot, one broken connection | **violated**: a task that lost a notification never sends the change |
| `note_commits` | native session, browser, two API clients; three or four operations, one crash | notes can always be loaded; nothing asserted leaves the history; conflicts are the concurrent heads; a browser's save is what it shows |
| `note_skew` | one native and one browser operation | **violated**: a lagging clock makes a save lose to its own predecessor and be listed as its conflict |
| `note_stale` | one API and two browser operations | **violated**: a save follows a revision its editor was never shown |
| `browser_saves` | one tab; two edits, or one edit around a broken connection, a reload, an aborted transaction, a server set up afresh or a wipe | an edit answered as saved stays in IndexedDB and, once the page stays and while no frame is refused, reaches the server that hosts its workspace |
| `browser_fork` | two edits around the loss of the page | **violated**: an edit sent before it was persisted is lost with the page, its sequence number is used again, and the server refuses the browser's frames |
| `components` | each of the thirteen components, one at a time | see below |
| `config_default` | two clients, one edit | **violated**: the built-in configuration a fresh client writes wins over a person's |
| `config_plugins` | two clients, one plugin command | **violated**: the actions of an effect-only plugin are replicated |

The seven violated properties quote what the repository says of itself; each is a
finding in `PROJECT.json`.

`components` puts the modules side by side: `focus` names the one that runs in a
behaviour, the others rest in an initial state. What it shows of each:

| Component | Property |
|---|---|
| Projection | `EditsRespected`: what a person typed is destroyed only in the window between the check of a file and its replacement; `EventuallyProjected`: undisturbed, the files come to show the records, through moves, swaps and collisions of paths |
| Presence | `RosterCounts`; `PeersConverge`: sessions that missed no notification come to show who is connected; `ShutdownStops`: a session told to shut down stops, unless a peer that never answers its upgrade, or a network that never takes its frame, holds it for ever |
| AccessControl | `KeysDurable`; `ValidTokenAccepted`: a valid token is refused only if the provider could not be asked or another request replaced the key set between this one's refresh and its second check |
| ServerLifecycle | `NothingRunsAfter`: when a serve that was asked to stop has returned, no task runs and nothing is locked (nothing is said of one whose accept failed); `StopsWhenAsked` |
| UrlCapture | `OnlyPublicContacted` |
| NativeSignIn | `StaysSignedIn`: four steps spoil an entry of `auth.json` and nothing else does: an answer lost after the exchange, a stop or failed save before the file is written, tokens issued while another program of that server has still to save its own, a save that writes back an entry written since it was loaded |
| BrowserSignIn | `BrowserTokenLive`, but for an answer that is lost |
| TerminalApp | `ListIsCurrent`; `TagsReachPicked`: the picker changes the notes it was opened for; marked ones always, the one under the cursor unless a refresh found its view or subview gone or its view changed, left it out, or failed half way |
| WorkspaceConfig | `LoadsSettle`: loads do not write for ever; `PlainClientsFollow`: a client without plugins shows the newest configuration |
| ConfigText | `WrittenTextKeeps`: what a load writes is read again as what was shown |
| BrowserUi | `RowsAnswerView`, `PageSettles` |
| ContentFiles | `ImportWhole`, `ExportComplete` |
| PluginRun | `PluginWithinGrants` |

`TypesOK` joins their type invariants.

What the models show besides, without a property that fails:

- A load that completes a configuration without views writes it back without the
  person's own actions that run a Steel program or the tag picker
  (`session.rs:284-298`): `WrittenTextKeeps` compares all but those.
- A Steel action limited by a predicate never runs from the plugin prompt: the
  action is looked up without a note (`main.rs:740`, `behavior.rs:385-400`).

**Bounds.** `MaxChanges` and `MaxDials` size the constant sets and are not
reached beyond the budgets. A run's behaviours are given by `Budgets`: a set of
scenarios, each naming how many writes, connections, crashes, failed flushes and
broken connections may happen; *when* they happen is open, at every step. Two
clients are what a relay needs, two connections of one client what a
reconnection needs, two server writes one item commit. The broadcast channel
has 4 slots where no scenario can overrun it and 1 where overrunning is the
question (128 in the code). In `NoteHistory` a behaviour has up to four
operations, enough for a creation, a fork and a commit that merges it, the wall
clock shows one or two values, so that lagging, equal and leading clocks all
occur, and a timestamp's counter (32 bits in the code) is bounded by 9, which no
behaviour reaches. In `BrowserWorker` there is one tab, up to three sockets and two
actors, what a reconnection after a reload needs (two sockets in `browser_saves`, three in `browser_fork`), and eight changes: six are the first
changes of the server and the two actors in two workspaces. In `MCComponents` each component has the pair
of actors its hazards need (two records and two paths for a swap, two sessions,
two requests, two connections, two programs, two tabs, two clients of the
configuration, two notes, one tag and three configurations of views) and scenarios of a
few events each among requests, edits, merges, faults, stops and restarts; the channels
of presence (128 in the code) and of replica events (256) have two slots, so that they overflow.
An export has three notes, of which one has the title another would be renamed to. The texts of `ConfigText` give, leave out or repeat each
kind of action, effect, plugin and grant.

Deadlock is not checked: when the budget is spent and all is
quiet the system may stop.

**Fairness.** In `CentralSync`, weak fairness of each connection's client step
and server step and of an item request that has begun and is not dropped: these are tokio tasks
with something to do, and the runtime polls ready tasks. A client step includes
the next connection attempt, which `run` makes by itself after a delay. Users,
disks, crashes and broken connections have none. `EventuallyConverged` therefore
says: once writes and faults stop, every client that has a connection or can
still open one ends at the server's document. In `BrowserWorker` it is of the
handlers, transactions, sockets, server tasks and interval timers;
`SavedWritesArrive` assumes besides that the page eventually stays open, named
and signed in, and excuses edits of a workspace that is hosted no more, was
wiped, or of a browser one of whose frames has been refused. `Projection` is fair to the step of a
pass (the application takes a snapshot at every tick), `Presence` to tasks and
sessions, but not to the peer's answer to an upgrade nor to a blocked send, which have no
timeout, `ServerLifecycle` to the steps of `serve` and `main` and to tasks that
were told to stop (nothing is assumed of clients and requests), `BrowserUi` to
the worker, the delivery of answers and the timer of a call when the worker is
gone.

Each property of a passing run has a mutant in `PROJECT.json`: a bug of the kind
a change to this code could introduce (a skipped flush, a missing announcement,
a message that leaves out what a change depends on, a save that follows only the
winner, an unchecked body, tokens replaced by old ones), which the run finds.

## What is proved

The theorems hold for every value of the constants and of the bounds, from the
named assumption of each module only, which states the shape of the constants.
Nine theorems have a further hypothesis, which is named where they are listed below.
Five of them are boundaries: they state a property that a run finds violated, and the
hypothesis excludes what that run does. Eight modules hold the theorems and the
lemmas below them.

`Induction` has the data arguments the others need. The provers cannot
instantiate an induction theorem whose parameter is an operator, but a *set* of
numbers can be a parameter: from the well-foundedness of `<` follow the least
and the greatest member, induction and strong induction over sets of numbers,
that a function defined by recursion exists and satisfies its equations, the closure
of a relation that goes from larger to smaller numbers, and that a finite set
can be listed in the order of a relation. What the recursive functions of the
modules (`History`, the browser's clock, planned exports, import checks) compute is
proved of every argument with these.

`CentralSyncProofs`:

- `TypeCorrect`, `Invariance`: `TypeOK` and `IInv` are invariants.
- `CausalClosure`, `AckedWritesSurvive`, `FramesAlwaysFit`: the safety
  properties of `sync_faults`.
- `Refinement`: `Spec => ImplementsCausalDocs`.
- `SeqNeverForks`: `NeverBoth => (Spec => []NoSeqFork)`, where no behaviour's
  budget has both a failed flush and a crash.
- `DurableBeforeObserved`: `NeverFails => (Spec => []ServerDurableBeforeObserved)`,
  where no budget has a failed flush; the boundary of `sync_undurable`.
- `NoWakeupLost`: `NeverFails => (Spec /\ []NoneLagged => []SettledAgree)`, the safety
  half of `EventuallyConverged`: a connection that has come to rest (both loops wait,
  nothing is in flight, no wake-up is due) has the same document at both ends, but for
  what the client may lack of `unannounced`.

`FramesFit` alone is not inductive. A frame was generated against what its
receiver was known to have, so `PeersKnown` says of each open end that it still
holds whatever the other end believes it holds, or is about to be told by a
frame on the way: a document never shrinks while one of its connections is
open, because a crash closes them. `DocsWritten` keeps snapshots behind memory,
and closure is stated of both because a restart replaces one by the other; the
acknowledged writes must be in the snapshot. A step is proved by the part of the
state it changes: documents, frames, connections, budget, each with a lemma of
its own. The refinement maps each
step to one write, merge or restart of one replica, or to a stutter.

The two hypotheses are what the code needs, and not more. A sequence number is one more
than the number of the author's changes in memory, so `SeqInv` says that an
author holds all it has written (`Counted`), and this because nothing is
forgotten: either no flush fails, and then snapshots are the documents, or nothing
crashes. A change that only memory had, lost in a crash, has its number
given again. `ObservedInv` says that what is in flight to a client or has
arrived there is its own or in the server's document, which is
the server's snapshot while flushes succeed; `sync_undurable` shows that one failed flush
breaks it.

`WakeIInv` says of each open connection that whatever one end has and the other has not
been told, the unannounced left aside, is either in flight, or to be announced when a wake-up or a notification
that is already there is read (`ClientDue`, `ServerDue`), and that two ends never await
each other's answer at once (`Answered`): an end is silent only when it was last heard
to have the same heads, or a frame of its own is still to be answered. The server task
generates its first message before it subscribes; a change between the two is not lost,
since a client's answer to that message wakes the task. Both hypotheses are needed: a put whose
flush fails stays in memory and announces nothing, and a receiver that is overrun skips
the announcements it lost without generating a message (`sync_lagged`). That a connection
does come to rest needs fairness and is model-checked.

`NoteHistoryProofs`:

- `AlwaysLoadable`: loading a note and asserting a stored revision never fail
  for want of a revision. `Loadable` does not survive a merge by itself. `IInv`
  adds that documents are closed and that a record's references lie in the
  document it was written on; then whatever is merged brings what it refers to,
  and a commit under way keeps what it has read because its replica's document
  only grows.
- `TypeCorrect`: `TypeOK`, with the phases of a commit.
- `SavesRetained` (`Retained`) and `ConflictsExact` (`ConflictsExplicit`). Resolution looks
  at the newest head of each author only, so a save could vanish when a replica
  asserts something that does not follow what it asserted before. `HInv` excludes it: a replica's own
  changes are all in its document, each written on the ones before it
  (`OwnWrites`); heads of one author follow each other (`HeadsFollow`); a replica
  runs one commit at a time (`OneCommit`), and what a commit has planned or
  stored follows every head its replica has asserted (`CommitFollows`). `History` unfolds
  and is transitive, and a closed document holds it; both by induction
  over changes.
- `BrowserSavesWin` (`BrowserSaveWins`): the browser's clock has observed every timestamp of its
  document before it stamps a save, and observing never takes a clock back, in
  whatever order the timestamps are observed. The property excuses a
  timestamp whose counter is used up (`hlc.rs:63`), where the code's clock stands still.
- `BrowserConflictsAreConcurrent`: the boundary of `note_skew`. In a replica whose
  revisions were all saved in browsers, none with a used-up counter, a reported conflict is concurrent
  with the revision that is shown (`ConflictsAreConcurrent`). A browser's save is later than
  what it follows, so a document of such saves has its timestamps in the order of causes.

`BrowserWorkerProofs`:

- `WorkerTypesHold`: `TypeOK`, for any number of tabs. That a busy queue has
  exactly one transaction of its tab under way, and an idle one none, is inductive by
  itself (`Awaits`): each handler begins its next transaction only when the one before
  has ended, and a page that goes takes all of its own along (`OfOthers`).
- `AnsweredEditsStay`: `OneTab => (Spec => []AckedPersisted)`. A transaction persists
  the whole replica, so what counts is that replicas are written in the order in which they
  grew: the stored one, those of the transactions under way and the one in memory
  form a chain, each in a later workspace than the one before or in the same with all
  of its changes (`Chain`). Aborting or losing any of the transactions leaves a chain;
  completing the oldest does too, as transactions on one store complete in their order.
  An edit about to be answered is in the stored replica or in that of its own
  transaction (`Answered`). A server set up afresh replaces the workspace: the hellos
  waiting in a socket's queue name workspaces in the order in which the server hosted
  them (`HostsIn`), so an old hello never takes the page back to a workspace it gave
  up. With two tabs there is no chain: each persists its own replica over the
  other's.
- `FramesForkTwoWays`: `ASSUME OneTab PROVE Spec /\ [][LeavesSaved]_vars /\ [][TakesOwn]_vars
  => []FramesAccepted`, the boundary of `browser_fork`: no frame is refused, at either end,
  unless a page goes away while the snapshot in IndexedDB lacks a change of its actor
  (`LeavesSaved`), or a server that was set up afresh takes the changes of the old
  workspace (`TakesOwn`). The page sends those when `refreshSync` comes between the
  opening of the socket and the hello; the new replica's first change has the
  actor and the number of the old one's, so the server then refuses it although no page was
  lost. The invariant says of memory, of each
  transaction under way and of the stored settings that an actor holds all its own changes or
  that a later part of the chain does, so that the numbers it gives are new; that
  what the server or a queue holds of an actor was made by it in that order; and that an
  actor id drawn after a wipe is in use nowhere. Aborted transactions, wipes, fresh
  setups of the server and lost connections are all allowed.

`ServerProofs`:

- `NothingRunsAfterServe` (`ServerLifecycle`), of a serve that was asked to stop: the lock is held by a request
  that is between its two records, a socket's task awaits an upgrade only while
  the request for it is handled, and from joining on no connection is left to do
  either; that the socket tasks are taken *after* the connections were joined is
  what makes the last step work.
- `CaptureLimits`, `CaptureStaysPublic` (`UrlCapture`): what a request may
  contact was pinned before it, at this hop, and is public.
- `KeysStayDurable`, `ValidTokensAccepted` (`AccessControl`): the first is stated of memory and
  file, which differ after a save that failed; a new key is none of those
  removed because its id is new. For the second, the signing key of a token is
  published, then in what its request fetched, then in the cache, unless what
  happened meanwhile excuses the refusal.
- `RosterAlwaysCounts` (`Presence`): a label is counted until the task that added it ends,
  so its count is the number of tasks that hold it, which may be more than its open links.

`ClientProofs`:

- `RowsAlwaysAnswer` (`BrowserUi`): a call with the number of the page's newest query asks for
  the view of the page, and an answer to it was given after it was asked, so it
  is no older than the report beside it; this for calls and answers wherever they
  wait.
- `ListStaysCurrent`, `PickedTagsReach` (`TerminalApp`): outside a refresh the list is the
  replica's unless a change is announced or an announcement was missed; while
  the picker is open what is selected is what it was opened for, or nothing was marked and
  a refresh lost the note (`pickedFor` is empty then). A refresh that keeps view, subview and
  their definition leaves the cursor where it was until the notes are replaced.
  The list is a filtering and a sorting of the notes, so what it shows
  depends on these alone.
- `BrowserTokenStaysLive` (`BrowserSignIn`): when a provider rotates its tokens, the answer
  a tab has not stored yet is of a token no other tab and no storage has, so
  nobody can have used it up before it is stored.
- `PersonStaysSignedIn` (`NativeSignIn`): of each server that is not `excused`, either what
  is in the file is what the provider takes, or one program only has still to save, and it saves
  that. Tokens issued when no other program of the server has some to save
  end the excuse, whatever spoiled the entry before.

`WorkspaceProofs`:

- `PluginStaysWithinGrants` (`PluginRun`): the capabilities of a run are granted, the queue
  holds what they allow, and what is saved and what is left to save make up the
  queue.
- `PlainClientsAlwaysFollow` and `LoadsAlwaysSettle` (`WorkspaceConfig`): every replica's newest
  configuration is the one that wins there, by a stamp no other record has. The
  second is `ClocksAgree => (ConfigSpec => []LoadsSettle)`: what a load writes wins over
  what it was read from only if its stamp is later. With a lagging clock it need not
  be; then the next load finds the same configuration to complete and writes
  again. The run's clocks agree too. The first needs no such hypothesis; a
  stamp is a time counted from the start, negative for a clock that lags.
- `CodeNeverReplicated` and `CodePluginsStayLocal` (`WorkspaceConfig`): a plugin named in a replicated
  configuration only describes effects, or a person wrote its name. The second is the boundary
  of `config_plugins`: with no effect-only plugin, and unless a draft names a plugin,
  none is replicated (`PluginsStayLocal`).
- `DefaultsGiveWay`: the boundary of `config_default`. Under `ClocksAgree`, with drafts that
  have views and when a client that holds no configuration waits for one that was published
  (`WaitsForPublished`), every revision a program wrote is older than every one a person
  saved (`PersonsLast`), so the winner is a person's once there is one
  (`DefaultsOnlyUntilPublished`). The code's client does not wait
  before its first load.
- `EditsAlwaysRespected` (`Projection`): an action property. A pass removes or replaces a file only
  where it had seen contents that are not the person's.
- `ImportsWhole` and `ExportsComplete` (`ContentFiles`): what is saved and what is left make up
  the directory, no note twice. A name is allocated by counting suffixes up until
  one is free: among more suffixes than there are files one is, since different suffixes
  give different names, so every note of the snapshot gets a name of its own.

`ComponentProofs`:

- `TypesHold`: the twelve specifications imply `[]TypesOK`. Most types are parts of the
  invariants above. Two needed more. The page selects one note at most: what a save
  names and what its answer names is one note or none, and an answer with many rows
  is never of a call that saves (`UiFew`). In the terminal the snapshot a
  refresh works on, and the cursor of a list that can be empty, must be
  typed for the list to stay so, and "all" is among the views at all times (`TuiIInv`).

**Only model-checked:** liveness under fairness (`EventuallyConverged`,
`SavedWritesArrive`, `EventuallyProjected`, `PeersConverge`, `ShutdownStops`,
`StopsWhenAsked`, `PageSettles`), which is beyond the prover; `WrittenTextKeeps`,
about recursive operators, without which `ConfigText`'s nested texts cannot be
written and with which the provers lose arithmetic. The runs that find a violation show
their counterexample; what is proved of those properties are the boundaries named above.

## What is not modelled

- In `CentralSync`: the retry delay, a dropped item request that got no further than
  its reads, and a replica's own first change that
  records the workspace id (`BrowserWorker` has it). The put, its event and the record's encoding are one
  step. `transact`, `merge_snapshot` and `apply_incremental` have no caller in
  the programs.
- In `NoteHistory`: contents, paths and ids of notes; assets, which no program
  writes; the checks that reject records whose author or hash does not match.
- In `BrowserWorker`: queries, the conversion of records to JSON, a second
  tab with the same actor, and a document in which the names of two workspaces conflict:
  which of them it shows after a restart.
- `sync_state.rs`: no program enqueues an operation or records a missing blob, so
  its queue is always empty; `operations` and `retry` of the session are left out with it.
- `watcher.rs`, `consume_if_expected`, `scan` and `read_note` of the projection:
  no program calls them; expectations are added and never consumed.
- Steel evaluation (an external interpreter), characters and spans of its forms,
  the parser of a client's own `config.scm`, Markdown, encryption and identifier codecs:
  pure functions of text.
- `local_index.rs` (a derived list), `llm.rs` and `pwa.rs` (static responses),
  `xo-lsp` (answers over the projection, no state of its own), the installer.
- In `TerminalApp`: panes, key bindings and their reload, the
  operation and conflict panels, the preview of encrypted notes. A subview asks for one tag,
  sorts like its view, and the default view is always `all`.
- In `BrowserSignIn`: a provider that replaces refresh tokens
  only sometimes. In both sign-ins: PKCE, URLs and the callback listener's requests.
- `logout` of `auth.ts`, which the web application does not call.

Hazards noted while modelling that no property covers: the logical counter of a
clock saturates (`hlc.rs:58`) and two timestamps become equal; the mutation
given up after two minutes is still stored by the worker; an editor's draft is
lost when its save fails; a stray callback fails a native login; tokens are stored
again by another tab after a wipe; a plugin's grants read before its run may be
revoked during it; an import that failed half way is refused when it is tried
again, as its notes exist; a note the picker was not opened for is tagged when a merged
configuration moves the cursor; `xo` does not end while its connection attempt is
unanswered; the change of a dropped item request reaches nobody until the next one. The
excuses of `PeersConverge`, `ValidTokenAccepted`, `StaysSignedIn`, `ListIsCurrent` and
`ShutdownStops` are such cases too: the notes of the hazards name them.

## Plan

Done: `CausalDocs`, `CentralSync` and `NoteHistory` with their proofs,
`BrowserWorker` with its proofs, and the thirteen components with theirs. What is left, in order:

1. Two tabs of one browser with one actor: `BrowserWorker` is written for a set
   of tabs, with budgets for one.
2. The configuration and the terminal together: a configuration that arrives
   between the choice of an action and its effects.
3. Theorems: a refinement of `BrowserWorker` to a replica of `CausalDocs` whose
   restart is conditional.
