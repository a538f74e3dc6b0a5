# LAN Commander: TLA+ specifications

LAN Commander lets an administrator drive machines of a local network: an
*agent* runs on every machine and serves a WebSocket, a *control center* (a
Wails desktop application) connects to the agents, runs commands and scripts,
browses and transfers files, and shows what the machines report. This directory
holds TLA+ models of the parts where concurrency, failure and order decide
whether the program is right, the TLC configurations that check them, and TLAPS
proofs of the central results.

    tlc -config MCAgentTraffic.cfg MCAgentServer      # any run of PROJECT.json
    tlapm AgentServerProofs.tla                       # the proofs

`PROJECT.json` maps every definition to the lines it models, lists the runs,
one mutation of the code for every property that the property catches, the
hazards the properties are aimed at, and the findings.

## Inventory

| Part | State it keeps | Operations | What is hard about it | What makes it correct |
|---|---|---|---|---|
| Address guard (`ipguard.go`) | live connections and failure records per address | admit, release, fail, succeed, prune | windows, blocks and pruning at their boundaries | counts match the connections; a block stands for its whole length |
| Agent server (`server.go`, `handlers.go`) | client map; per connection: authed flag, attempts, done channel, send queue | upgrade, register, two pumps, ticker, authentication deadline, dispatch, shutdown | four goroutines per connection and shutdown share all of it | slots are returned once; no answer is swallowed; nothing leaves before authentication; anonymous sockets end |
| Handshake (`client.go`, `handshake`) | the step of the exchange | greeting, credentials, replies | messages of a concurrent ticker in between | both sides agree on who is authenticated |
| Connection manager (`client.go`) | agent map, per agent its current socket generation and flags, pending requests | Connect, read pump, heartbeat, reconnect, Disconnect, CloseAll, SendRequest | generations overlap; stop races reconnect; unlock-then-act | a stopped agent stays down and leaves nothing open; one reader; the state shown is the state of the socket |
| Upload (`transfer.go`, `fs.go`) | offset and transfer ID here, `.part` and `.meta` files there | chunk, acknowledge, cancel, verify, rename | lost answers, two connections at once, crashes, disk errors, changing sources | the destination changes atomically, and success means committed |
| Download (`transfer.go`, `fs.go`) | offset, local temporary file | request chunk, verify, rename | remote file changes while it is read | the file written is the file announced |
| Agent queries (`fs.go`) | none | list a directory by pages | the directory changes between pages | what stays is listed |
| Agent audit (`agent/internal/audit`) | log file and its size | Log, rotate | failure in the middle of a rotation | no event is lost silently |
| Application (`app.go`) | transfers and their wait group, services | startup, shutdown, transfers, fan-out, paging, auto-connect | shutdown against running work; check-then-connect | everything started is waited for |
| Scripts (`engine.go`) | script map and one file per script | Save, Get, Delete, Execute, load | disk work after the unlock, shared pointers | map and disk agree |
| Sessions (`session.go`) | SQLite table, protected tokens | Open, migrate, Save, LoadAll | half-migrated schemas, one unreadable token | what was saved is loaded |
| Control center audit (`audit.go`) | ring of entries and a database | Log, GetRecent, Clear | two ID sequences | order and identity of entries |
| Backup (`dbbackup.go`) | copies beside the databases | copy before an upgrade, prune | crashes in the copy, leftovers that look like backups | an upgrade can be rolled back |
| Discovery (`discover.go`) | agents seen | scan, handle an entry | handlers of several scans, slow callbacks | each agent is reported once |
| Command execution (`executor.go`) | one process tree | run, kill, classify | deadline against the end of the shell, leftover processes | it ends, and the exit code is true |
| Wake-on-LAN, monitor, screenshots, UI, frontend | | | library calls and views | |

The control center calls an agent by request messages with an ID; the agent's
read pump runs the handler synchronously and queues one answer; the control
center's read pump hands the answer to the waiting request. Agents push
`system_update` every two seconds on the same queue. Inside each process the
parts share memory under the locks of the source.

## Modules

| Module | Models | Uses |
|---|---|---|
| `IPGuard` | `ipguard.go` | |
| `MCIPGuard` | the guard with a history of failures | `IPGuard` |
| `IPGuardProofs` | invariants of the guard and of the history, for all constants | `MCIPGuard` |
| `AgentServer` | `server.go`, dispatch and authentication of `handlers.go` | an instance of `IPGuard` |
| `AgentServerProofs` | slots, guard contract, blocks, authentication, answers and types, for all constants | `AgentServer`, an instance of `IPGuardProofs` |
| `Handshake` | `handshake()` against the server, with the sockets between them | `AgentServer` |
| `HandshakeProofs` | the composition implements the server; its two invariants | `Handshake`, `AgentServerProofs` |
| `ClientManager` | connection lifecycles of the control center | |
| `ClientManagerProofs` | its invariants, for any number of agents and generations | `ClientManager` |
| `AtomicFile` | what an upload promises of its destination | |
| `AtomicUpload` | `Upload` and the agent's file operations, with failures | refines `AtomicFile` |
| `AtomicUploadProofs` | the refinement and its invariants, for all transfers | `AtomicUpload` |
| `Requester` | what `SendRequest` promises its callers | |
| `PendingRequests` | `SendRequest`, the matching of answers, `CloseAll`'s clean-up | refines `Requester` |
| `PendingRequestsProofs` | its two invariants and the safety of the contract, for all sets of requests | `PendingRequests` |
| `Download` | `Download` against `handleGetFile`, `ReadFileChunk`, `FileSHA256` | |
| `DownloadProofs` | its two invariants, for all contents and chunk sizes | `Download` |
| `Application` | transfers with their wait group, and `shutdown` | `Requester` |
| `Batches` | `ExecCommandMulti`; `RunScript` with `Engine.Execute` | `Requester` |
| `Discovery` | the scan loop, `onAgentDiscovered`, restoring of sessions | |
| `ScriptStore` | `Engine`: `Save`, `Delete`, `Get`, `saveToDisk`, `loadFromDisk` | |
| `SessionStore` | `session.Manager` | |
| `AuditLog` | the control center's `audit.Logger` | |
| `DBBackup` | `BackupBeforeUpgrade`, `prune` and their place in `startup` | |
| `AgentAudit` | the agent's `audit.Logger` | |
| `DirListing` | `listDirPages` against `ListDir` | |
| `Executor` | `executor.Execute` | |
| `MCServices` | the last ten, one per behaviour | all of them |
| `ServicesProofs` | an invariant for each of the ten, and their composition | `MCServices` |
| other `MC...` | constants of the runs | |

### IPGuard

Every method holds the guard's mutex, so each is one action. `active` is total
with 0 for a missing key, and `failures` is a function whose domain is the map's
key set. Time is a counter from 1; 0 is the zero `time.Time`. `fail` is
`Kept` (pruning), `CurrentRecord` (a fresh record if there is none or its window
is over) and `CountFailure` (the trip at the limit) in the code's order.
`Release` is guarded in `GuardNext` by the contract its comment states: it frees
a slot that was granted. `AgentServer` is shown to respect it.

### AgentServer

Each connection has the program counters of `handleWebSocket` (`hpc`),
`readPump` with its handlers (`rpc`), `writePump` (`wpc`) and
`enforceAuthDeadline` (`tpc`); `shutdown` has one (`spc`). Each access to state
another goroutine sees is a step of its own. Two accesses are merged where no
other goroutine can tell: the attempt counter with `guard.fail`, the flag with
`guard.succeed` (nobody reads both), and release with close of a connection that
was never in the client map. `sendMsg` keeps its select: on a closed connection
it may queue or not, on an open one with a full queue it closes. Frames carry
only their kind. A type-specific handler is `ReadRequest` ... `Respond`: time
passes, then one answer is queued. `keep_alive` and unparsable frames only move
the read deadline, which appears as one cause of `ReadError`. An answer that
cannot be marshalled would be dropped; no handler produces one, and the branch
is left out.

### Handshake

`kpc` is the step of `handshake()` on each connection, `inbox` and `outbox` the
two directions of the socket. The agent's read and write actions are
`AgentServer`'s own, tied to what is on the wire. Any read can fail at any time.

### ClientManager

An agent is identified with the Connect call that creates it, and its sockets
with generations 1, 2, ... A step is what happens under one hold of `Manager.mu`
or `stateMu`, or one socket operation. The separation that matters is kept:
`readPump` starts the reconnect before its own deferred clean-up; `stop`,
`closeGeneration` and `waitForGeneration` are steps; `CloseAll` empties the map,
then cancels, then stops the agents one by one. `stop()` sets `closed` and
cancels the context in one step, because every reader tests both together. The
heartbeat writes `keep_alive` and touches none of this.

### AtomicUpload

Sizes are in chunks and a temporary file is the number of chunks of its source
it holds, or `Torn` when it was written at another place than its end. The
agent's handler is one step per file operation; handlers of one connection run
one after the other, those of different connections concurrently. Connections
break and are replaced, frames that were sent may be handled or dropped, answers
are dropped when nobody waits for them, the agent can crash with only the disk
surviving, any disk operation can fail: one whose error the code looks at sends
the chunk to `cleanup()` (`DiskFails`) or fails the cancellation (`CancelFails`);
a removal whose error it ignores, in `cleanup()` (`fs.go:241-244`) or after the
commit (`fs.go:348`), leaves the file where it is (`Cleanup`, `RemoveMeta`).
`staleMeta` records the transfers of the latter kind. `readable` lets a source be shorter or
longer than announced. `Abstract` maps this to `AtomicFile`; a destination that
holds anything but a whole transfer has no image there, so that the refinement
fails on a torn file.

### PendingRequests

A request and its answer share an ID, so an answer is a position (`answer`) on
its way: asked for, on the wire, looked up (`found`), handed over or forwarded to
the message callback. The lookup and the hand-over are two steps, because
`pendingMu` is released between them: a pump can hold an entry whose request has
returned meanwhile. The channel has room for one answer, so the hand-over never
blocks. `Conclude` leaves the body of `SendRequest` and `Leave` is its deferred
function. A timer that runs may fire at any moment; a stopped one never does,
which is what `Stop` guarantees in the Go version of `go.mod`. Whether the agent
is found is left open, and so is whether the write succeeds or the agent ever
answers.

`Requester` is the contract the rest of the control center builds on: a call is
made, and it returns with an answer, unsent, timed out or, once `CloseAll` has
run, because of the shutdown. `ImplementsRequester` is the refinement, fairness
included: every request returns, also when `CloseAll` has stopped its timer.

### Download

A file is a sequence of units and a chunk is `ChunkSize` of them. The checksum of
a content is the content itself: SHA-256 is taken to be injective. The agent's
handler looks at the file several times - size, chunk, and for the last chunk
the whole file again, unit by unit - and `Change` can come between any two. A
file that is replaced by a rename while it is open is covered: the handler then
goes on with what it had, as if it had finished before the change. `snap` and
`quiet` are history variables: the content when the checksum was begun, and
whether it stayed so until the end. `CommittedIsSnapshot` is about quiet
checksums; when the file changes under the checksum itself, the mixture may be a
content the file never had, and a download made of the same mixture is accepted.
`ReturnError` is every way to fail: the deferred function removes the temporary
file, or cannot, which the code does not notice (`transfer.go:92`) and the model
calls `"leaked"`.

### Application and Batches

Both issue requests through `Requester`, so what they show holds of every
implementation of that contract. A transfer is its request loop: the look at the
context, the request, the judgement of the answer, the deferred clean-up with
the cancellation of an upload, the audit entry, and `Done`. Which answers are
acceptable is the business of `Download` and `AtomicUpload`. `shutdown` is one
step per service. Between the flag and the wait nothing is assumed of the order
of other goroutines.

In `Batches` a goroutine books its result and its count under one lock, in one
step. The list may name an agent twice: then one of its two results survives,
while both are counted. Commands and scripts are not waited for by `shutdown`,
so `TakeDown` may come at any time.

### Discovery

Each scan has its own channel and handler. `HandleEntry` is the critical section
of `handleEntry`; listing the agents, loading the sessions and connecting are
three steps, with the restoring of sessions, other handlers and `shutdown` in
between. An agent that was reported is never tried again while the program runs,
even when the attempt failed or the sessions could not be loaded and it was
approached without its token: `met` records that one attempt.

### ScriptStore

`scripts` maps names to objects and `heap` objects to contents, because the code
shares pointers: `Save` overwrites an object that `saveToDisk` or `Execute` of
another call may be reading. The overwriting is two steps; a read in between
returns the old content, the new one or `Torn`, which is what the data race
amounts to. `serial` remembers whether operations on a script have overlapped:
`SerialScriptsAgree` is about those that did not, `SavedIsStored` about all.
`Delete` has no binding in `app.go`; the run that finds the violation uses
`Save` and `RunScript` only.

### SessionStore, AuditLog, DBBackup, AgentAudit

All operations hold a lock, so the interleavings that count are with failures
and with the end of the program between two statements or file operations.

* `SessionStore`: a table left by an older version, the columns added one by one,
  tokens moved from the clear column to the protected one row by row while the
  secret store may refuse. `truth` is the token each session was saved with.
* `AuditLog`: the ring, the provisional IDs and those of the table, over
  failing inserts, closed databases, `Clear` and restarts. `GetRecent` is an
  operator that the property applies to every limit. While a database is open,
  entries whose insert failed are not part of what it returns.
* `DBBackup`: one database, several versions started in any order, with crashes.
  `files` are all files `prune` sees, leftover temporary ones included.
* `AgentAudit`: a step per file operation of a rotation, each of which may fail.

### DirListing

Names are numbers and `os.ReadDir` sorts them. Each page reads the directory
anew, then looks up each entry; files are added and removed at any time. The
listing of an agent that answers with one page and no flag is the case of a
directory that fits.

### Executor

`os/exec` is external and modelled by its documentation: `Run` ends when the
shell has ended and the pipes are closed, or `WaitDelay` after the shell or the
kill. The shell may leave processes in its group, which the kill reaches unless
the group cannot be killed and only the shell is (`proctree_unix.go:16-20`; on
Windows a failing `taskkill`), and others, which it never reaches. A kill that
comes after the shell ended by itself may find it gone.

### MCServices

The ten modules share no variable but the contract `Requester`, which two of
them use, so their state spaces are put side by side and not multiplied: the
variable `part` picks one of them in the initial state, the others stay in
theirs. A property of one module holds trivially where another is exercised, and
is checked in full where its own is.

## Runs

| Run | Instance | Shows |
|---|---|---|
| `ipguard` | 2 addresses, limit 1, 3 failures, window = block = 2, pruning from 2, clock to 6 | `RecordsConsistent`, `BlockStands`; `ToleratedFailures`: up to 2(n-1) failures fit into one period because windows start at a failure, and never more, where the comment of `ipguard.go:13-15` reads as if it were n |
| `agent_slots` | 3 connections of 1 address, 2 slots, 1 client, no token | `SlotAccounting`, `GuardContract` on every way in and out, shutdown included |
| `agent_traffic` | 1 connection, token, queue of 2, 3 frames, 2 attempts | `AnswersAccounted`, `NothingBeforeAuth`, and that anonymous sockets end and closed ones return their slot |
| `handshake` | 1 connection; right, wrong, no token | `EstablishedMeansAuthed`, `RejectedMeansWrongToken` |
| `handshake_push` | the same | violation: an update overtakes `auth_ok` |
| `client_manager` | 1 agent, 3 generations, 2 retries | the five invariants of the lifecycle and that stopped agents and a closed manager become quiet |
| `client_endpoint` | 2 Connects to 1 endpoint, 2 generations | violation: two connected agents for one endpoint |
| `atomic_upload` | a transfer of 2 chunks and an empty one to the same path, sources of 0 to 2 chunks, 2 connections | `ImplementsAtomicFile`, `NoLeftovers` |
| `pending_requests` | 3 requests | `TableIsExact`, `ForwardedIsLate`; `ImplementsRequester`, also when `CloseAll` stops the timer |
| `download` | contents of up to 3 units of 2 values, chunks of 2, 2 changes | `CommittedIsSnapshot`, `AllOrNothing`; `DownloadReturns` |
| `services` | a download and an upload of up to 2 chunks; 2 agents in a list of 2, a script of 2 lines; 2 agents and 2 overlapping scans; 3 calls on 1 script; 2 sessions, 2 tokens, 4 columns, 3 saves; 4 logged entries in a ring of 2; 3 versions, 4 starts, 2 backups kept; 6 events in files of 2; 5 names in pages of 2, at most 4 listed, 2 changes; output of at most 2 units | the table below |
| `script_store` | 2 calls of Save or RunScript on 1 script | violation: the file keeps the older content |

| Property of `services` | Says |
|---|---|
| `TransfersDrained` | nothing is closed under a transfer: past the wait of `shutdown` none is running or begins, no request of one ended because of the shutdown, and the audit database was open when each outcome was logged (an INSERT that fails is the business of `AuditLog`) |
| `ShutdownCompletes` | `shutdown` ends whatever transfers and agents do |
| `BatchesAccounted` | results, counts and status of a fan-out or a script add up |
| `MetOnce` | a discovered agent is reported once and dealt with by one handler, with its saved options unless they could not be loaded |
| `SerialScriptsAgree` | without overlap and disk errors, memory and file hold the last operation, also over a crash |
| `TokensSurvive` | no token is lost by the migration wherever it stops, and a load returns them all and leaves none in the clear |
| `RollbackPossible` | the version that runs keeps an intact copy of what it replaced, until another version has taken its own |
| `TrailIsSuffix` | the agent's two files are the latest written events without a gap |
| `RecentIsTail` | `GetRecent` returns the latest entries in order, with the IDs of their rows |
| `ListingFaithful` | additions hide nothing that stayed, removals show nothing twice, an unchanged directory is listed exactly |
| `CodeIsHonest` | the exit code tells the truth about the shell, whatever it printed and left running and whatever the kill reached |
| `ExecuteReturns` | every command comes to an end |

The bounds are where the cases begin: two failures on either side of a window
boundary and a clock long enough for a block to end and another to begin; more
connections than slots and more slots than places; a queue that a greeting, an
answer and an update overfill; a third generation, so that an old pump, a
current one and a reconnect coexist; a second connection, so that a handler of
the broken one overlaps the retry. Two transfers to one path are enough for one
to overwrite the other. Three units in chunks of two give a full chunk, a short
last one and an empty file; two changes let a file change and change back, so
that only the checksum can tell. Among the services: more versions than backups
kept, more entries than the ring and more events than two files hold, so that
the oldest has to go; one more listed name than the limit; a start more than
there are versions, so that one comes back; three script calls, so that one can
read what two others race on.

Deadlock checking is off in all runs but the guard's: connections end, clients
are disconnected, requests, transfers, commands and shutdown return, and the
system then rests. In the guard's run
it is on.

### Fairness

Weak fairness of the steps of a goroutine that has begun: the Go scheduler runs
it, timers fire, dials, handshakes, writes and waits have deadlines, handlers
end because commands are limited in time. Nothing is asked of the peer or the
user: nobody has to connect, send, disconnect or shut down, and a read only has
to fail once its socket is closed here. A read pump of the control center sees a
cancellation when its read returns, at the latest at its read deadline. A request
(`Requesting`) only needs its own steps and its timer, or the cancelled context;
a download (`Downloading`) only that its requests return, which
`ImplementsRequester` is about. Neither agent nor pumps are fair there. In
`services` a transfer that has begun runs, its requests return, and `shutdown`,
once called, goes on (`AppFairness`); `Execute` runs and its deadline passes
(`ExecFairness`), while the command and what it leaves behind need never end.

### Findings

* `handshake_push`: `handleAuth` stores `authed` before it queues `auth_ok`
  (`handlers.go:84`, `90`); a tick of the write pump in between queues
  `system_update` first, and `handshake()` gives up with "unexpected response"
  (`client.go:505`). README.md and `server_test.go` promise `auth_ok` first.
* `client_endpoint`: `ConnectWithOptions` looks for a *connected* agent of the
  endpoint (`client.go:358`). One that is reconnecting does not count, and after
  its reconnect two agents are connected to one endpoint, against the comment
  above that check.
* `script_store`: of two overlapping `Save`s of one script the one with the
  older content may rename its file last (`engine.go:103-106`, `352`). Both
  succeed, memory has the newer content and the file the older one, against
  "Save stores a script both in memory and on disk" (`engine.go:79`).

Beside these, the models show what the code tolerates on purpose or by
construction and the properties therefore do not exclude: an upload reported as
failed may have been committed (its last answer was lost); a `.part` file stays
on the agent when the cancellation cannot be delivered or overtakes a chunk on
another connection, and a `.meta` file when its removal after the commit fails
(`fs.go:348`); likewise the temporary file of a failed download
(`transfer.go:92`); a client registered after `shutdown` copied the map is not
closed by it. Startup goes on when a backup could not be made (`app.go:94`), and
a copy is taken without SQLite's journal, so that the one of a database left
inside a transaction is not a consistent one: `RollbackPossible` excludes both,
although `dbbackup.go:1-3` says "always". It is about the copy of the version
that runs: the backup of another version may be pruned earlier than
`keepBackups` says, because the temporary file of a copy that crashed matches
the pattern `prune` counts. An audit entry whose INSERT failed, or that was
logged before `OpenDB`, has an ID of the in-memory sequence (`audit.go:147`) and
may share it with a stored entry; `RecentIsTail` says nothing of such pairs.
Pages of a directory that shrinks may
skip entries that were there all along, although `fs.go:52-53` calls offsets
stable. An agent whose automatic connection failed is not tried again. A script
line with `{{VAR}}`, the form the comments of `engine.go:177` and `245` name, is
a template error (`text/template` wants `{{.VAR}}`), which is the case of an
"untemplated" line in `Batches`.

## Proofs

All are for arbitrary constants that satisfy the named assumptions; TLC
evaluates these on every run. Most only say that limits are positive and that
marker values differ from the values they mark. Those that carry an argument:

* `GuardAssumption`, `LimitsAssumption`: the block is not longer than the window.
  Both are one minute in the code; `BlockStands` fails without it.
* `ServerAssumption`, `SessionAssumption`: connections and sessions are finitely
  many, so that they can be counted. Transfers need no such assumption: the set
  of those under way is finite because they begin one by one.
* `BatchAssumption`: a list has at least one agent, because `ExecCommandMulti`
  returns at once on an empty one (`app.go:444`).
* `BackupAssumption`, `AuditAssumption`, `LogAssumption`: at least one backup is
  kept, a file and the ring hold at least one entry; constants of the code.
* `ScriptAssumption`, `UploadAssumption`: contents, names and markers are told
  apart.
* `ListAssumption`: a page has room for a name. `CallersAssumption`: the requests
  of transfers are not those of batches; each call of `SendRequest` makes its own.

A component's theorems are in the module named after it, those of the services
in `ServicesProofs`, each about the service's own specification (`AppSpec`,
`BatchSpec`, ...). Every safety theorem has the same shape: an invariant that
the initial states satisfy and every action keeps, with one lemma or step per
action or group of actions, and which implies the property.

### The guard and the server

* `GuardInvariant`, `RecordsConsistentTheorem`: the types and `RecordsConsistent`
  are inductive as they stand.
* `BlockStandsTheorem`: a blocked address has
  `now < blockedUntil <= windowStart + Block <= windowStart + Window`, so neither
  the pruning nor the renewal of the window can touch its record, and a new trip
  sets `now + Block`, which is not before `windowStart + Block`.
* `ToleratedFailuresTheorem`, about the guard with the history of `MCIPGuard`.
  The record of an address only counts the failures since its window began; the
  history has all of them since the last trip. `HistoryInv` ties the two: the
  last `Counted` failures of the history are the ones the record counts and
  belong to the window, all earlier ones are before `Start`, and all but the last
  `MaxFailures - 1` of those are more than a window before it. So the failures of
  any one period are at most those of two windows that did not trip. A record
  that the pruning dropped counts as one whose window is over.
* `SlotAccountingTheorem`: not inductive alone; one must know that a connection's
  goroutines run only in the stage they belong to (`Lifecycle`: before the pumps
  run, `rpc` is off and the connection is in the client map exactly when it is
  registered; after the release it is not in the map). Each action adds one
  holder, removes one, or leaves the set of holders alone, and the cardinality
  lemmas do the counting.
* `GuardContractTheorem`: the refinement of `IPGuard` by the server. With
  `SlotInv` a connection that releases is itself a holder, so the count it
  decrements is positive: the contract of `release` is kept.
* `ServerKeepsBlocks`: with all its goroutines the server never lifts or shortens
  a block, other than by a successful authentication of the address. The
  guard's theorem is instantiated with the server's variables and carried over
  by `GuardContractTheorem`.
* `NothingBeforeAuthTheorem`, with `AuthInv`, which ties the program counters of
  the read pump to the flag.
* `AnswersAccountedTheorem`, with `AnswerInv`: the books of each connection
  (`BooksOf`) say that the queue is within its capacity, that never more is in it
  than is owed, and exactly that much while the connection can deliver it. The
  inequality is what survives a close and makes the equation inductive. Lemmas
  give the number of answers in a queue after an append and after a take.
* `TypeOKTheorem`: the types of the three invariants and of what is left.

### The handshake

* `HandshakeRefinesServer`: the composition with the control center is a behaviour
  of the server, so that the invariants above hold in it and can be used.
* `EstablishedMeansAuthedTheorem` and `RejectedMeansWrongTokenTheorem`, from
  `PeerInv`. What an unauthenticated peer finds in its socket is a greeting or an
  error (`AcceptanceOf`, which rests on `AuthInv` for the agent's queue). Before
  the handshake succeeds only credentials go out, so the agent neither denies nor
  serves a request of that peer, and an error anywhere between the agent's read
  pump and the control center is the refusal of a token (`RefusalOf`).

### The connection manager

Types and the four safety properties follow from `ManagerInv`. The properties
speak of the current generation, while goroutines of older ones still run;
`Succession` says what those can be doing: a pump reads only for the current
generation, a reconnect that is still trying belongs to it, and one that has
installed its successor belongs to the one before. `AboutToRead` covers the gap
between a connection's installation and the start of its pump, `Birth` the time
before the first. `RetriesCounted` is for the types.

### Requests and the transfers

* `TableIsExactTheorem` and `ForwardedIsLateTheorem`, from `RequestInv`: types,
  both properties, and `AskedWasSent` - an answer exists only for a request that
  went out, hence was registered. A lookup that finds nothing then means that
  the deferred function has run or that `CloseAll` has cleared the table.
* `RequesterSafety`: the initial states and the steps of `SendRequest` are those
  of `Requester` under the mapping of `ImplementsRequester`; with
  `ResultsJustified`, a shutdown is reported only after one.
* `CommittedIsSnapshotTheorem` and `AllOrNothingTheorem`, from `DownloadInv`.
  `SumFollows` says that a quiet checksum is a prefix of the snapshot while it is
  computed and all of it at the end; `OneRequest` ties the handler's steps to the
  download's, so that the checksum that is compared is the one of this chunk;
  `Verified` carries the comparison to the rename.
* `NoLeftoversTheorem`, `ImplementsAtomicFileTheorem` and the types of the upload,
  from `UploadInv`. Handlers of several connections can be at work on the files
  of one transfer, and the argument is about what they can be working on: a
  transfer has one chunk under way, in a queue or in a handler (`OneChunk`), and
  it is the one `Upload` waits for unless it has given up (`ChunkIsAwaited`). So
  no other handler writes to the file between the check of its size and the
  rename; a cancellation on another connection may remove it, and the rename
  then fails (`HandlerAt`). After the rename nothing writes (`CommitIsLast`), and
  the answer to the last chunk proves it (`AckMeansCommitted`). In the refinement the
  rename is the commit and the return of `Upload` the report. `CancelIsLast` is
  for `NoLeftovers`: on an unbroken connection a cancellation is handled after
  the chunk it cancels, and its acknowledgement means that both removals
  succeeded, whatever `cleanup()` had left before (`Gone` is the weaker fact a
  commit leaves: its metadata may be stale).

### The services

* `TransfersDrainedTheorem` (`AppInv`): the wait group's counter is the number of
  transfers under way, so it is zero only when none is; behind the flag none
  begins; the manager goes down after that, so no request of a transfer sees it.
* `BatchesAccountedTheorem` (`BatchInv`): counts are cardinalities of the sets of
  workers and lines that ended well or badly.
* `SerialScriptsAgreeTheorem` (`StoreInv`): objects of different names are never
  shared and while the calls of a name have not overlapped at most one is active;
  `Agrees` says what it has done so far, step by step, to memory and file.
* `TokensSurviveTheorem` (`SessionInv`): in every row the token that would be
  restored is the one saved, in whichever column; a load under way still has
  every session it has not restored before it.
* `RollbackPossibleTheorem` (`BackupInv`): the file that startup works on is the
  newest, hence not the one `prune` removes.
* `TrailIsSuffixTheorem` (`TrailInv`): the two files one after the other are an end
  of what was written, and a rotation begins only with a full file.
* `RecentIsTailTheorem` (`LogInv`): the ring is the end of what was logged, the
  table all that was stored, row IDs grow, and an entry in both has one ID.
* `CodeIsHonestTheorem` (`ExecInv`), `MetOnceTheorem` (`MetInv`: an agent is in the
  hands of one handler from its report until it was dealt with).
* `ListingFaithfulTheorem` (`ListInv`): the rank of a name is the number of names
  before it. Ranks are a bijection between a finite directory and its places
  (`RankOnto`, by counting), so `Sorted` lists every name once and in order
  (`SortedNames`). A file that is added lowers no rank and one that is removed
  raises none. `Covers` says what the names shown so far are worth against the
  directory as it is now: without removals every name that stayed with a rank
  below the next offset was shown (`Whole`); without additions what was shown is
  ascending and before every name from the offset on (`Ascending`); without
  either it is the beginning of the directory (`Exact`). Four lemmas say that an
  addition, a removal, an entry that is gone when it is looked up, and the next
  page keep this. The loop ends by itself because `maxListDirRequest` pages hold
  more than the limit (`RequestsSuffice`).
* `ServicesAreTheirParts`: a behaviour of the composition `MCServices` is one of
  each service that shares no variable with another, so the theorems hold there.
* `ServicesTheorem`: all ten invariants that the run `services` checks, of the
  composition itself. `Application` and `Batches` share `Requester`'s variables;
  `SharedInv` says that no transfer has a request while another part is
  exercised, and the invariant of `Batches` does not depend on the requests.

### What is only model-checked

* Liveness (`AuthenticatesOrCloses`, `ClosedReturnsSlot`, `StoppedGetsQuiet`,
  `CloseAllGetsQuiet`, `DownloadReturns`, `ShutdownCompletes`, `ExecuteReturns`)
  and the fairness in `ImplementsRequester`: the prover has no rule for `ENABLED`.

Every safety property and every action property of a passing run is proved.

## Not modelled

* Agent system monitor, screenshots, Wake-on-LAN, the desktop UI and the
  frontend: queries of the operating system, one packet, and views. They keep no
  state a property would speak of.
* The agent's mDNS announcement: it starts and closes a library server.
* The agent's process: flags and token file are read once, then the parts are
  started and stopped in one goroutine. The shutdown of the server is in
  `AgentServer`, the audit log's in `AgentAudit`.
* Protocol types: declarations; the message types are the kinds of `AgentServer`
  and `Handshake`.
* Bindings of `app.go` that pass one call on to a service and log the outcome;
  the services are modelled. The updates of `AgentInfo` by `handleAgentInfo` and
  `handleSystemUpdate` overwrite fields that are only shown.
* TLS configuration, path checks (`safePath`, `validateScriptName`), templates
  and shell command lines: pure text, without state.
* A short write to the agent's audit file, which would spoil the next line too.

## Plan

Modelled so far, in this order: the guard, the agent's server, the handshake,
the connection manager, the upload, the pending requests, the download, the
contract of `SendRequest`, and on top of it or beside it the services.

Proved, in the same order: every invariant and every action property of the
passing runs. What remains is liveness, which needs a prover with rules for
`ENABLED` and fairness; the invariants its arguments would use are the ones
proved here. Further modelling would begin with the parts listed as not modelled
once they keep state.
