# Formal models of djinn

TLA+ models of the concurrent core of djinn, an agent runtime written in Go:
how it takes intents and runs them, how a plan's stages are executed, how
the hub keeps shell and backend talking while either is exchanged, how the agent
loop keeps the two histories of a conversation through failures and restarts, how the
REPL hands inputs to it, how a full context is relayed to a fresh one, how segments of
work are claimed, invalidated and saved, how tool servers are called, and how the
control plane restarts the substrate and bridges terminals to it. The models
are checked with TLC on small instances; the theorems are proved with TLAPS for
every value of the constants. `PROJECT.json` lists the runs, which source lines
each definition stands for, and the hazards the properties are aimed at.

## 1. Inventory

djinn receives *intents* from an operator (or alerts from a monitor), turns each
into a *work plan* of stages, and executes every stage with a language-model
driver in a sandbox, behind a gate. Around that core stand the interactive agent
(REPL, TUI, agent loop, session store), the daemon that survives exchanges of
the backend binary, and a supervisor that restarts the substrate.

| Component | State | Operations | Hard behaviour | What makes it correct |
|---|---|---|---|---|
| **Broker** `broker/broker.go` | `running`: plan ID to cancel func, under `b.mu` | `HandleIntent` (a goroutine per intent), `CancelWorkstream`, `forwardPermissions`, `handleAlert` | registration, execution, completion and dequeue are separate critical sections; IDs repeat | each intent answered once; the limit holds; what runs can be cancelled; queued work runs |
| **Workstream registry** `broker/workstream.go` | `workstreams` (ID to pointer), `pending` (pointers), under `r.mu` | `TryRegister`, `Dequeue`, `Complete` | map and queue alias each other's infos; a second registration replaces the first | queue = Pending infos; a terminal status stays |
| **SimpleOrchestrator** `broker/simple_orchestrator.go` | `execs`, `inputs`, a buffered event channel and a goroutine per execution | `Execute`, `executeStage`, `Submit`, `Cancel` | deadlines, cancellation, failure of every external call, deferred cleanup, channel capacity | never blocked, cleans up, right outcome, ends |
| **Hub** `hotswap/hub.go`, `swap.go`, `socket.go` | current shell and backend, two queues, a relay goroutine per connection | `Run`, registration, relays, `Close`, `SwapBackend` | disconnects at every point, replaced connections, peer read and used under different locks | no message doubled, none lost but with a replaced connection or a dying one, order, routing, no leaked goroutine, nothing stranded |
| **Agent loop** `agent/loop.go` | driver history and session history | `Run`, `executeTools` | each step can fail with one history extended and the other not | histories stay well formed |
| **Session** `cortex/session.go`, `history.go`, `compact.go`, `sanitize.go`, `store.go` | entries, files | append, compact, load with repair, archive | cuts between a tool call and its result; crash between steps | every tool call is followed by its result |
| **Context relay** `cortex/monitor.go`, `relay.go` | monitor state, active and backup session and driver, prompt queue | `Record`, `CheckAndRelay`, spawn, swap | pre-emptive state changes, drivers that fail to start or to stop, entries appended between spawn and swap | a swap finds its backup, no driver is forgotten that was not told to stop, the state machine never sticks |
| **Vezir** `vezir/supervisor` | process, restart counter; TUI and substrate connections | `Run`, `Reconnect`, accept loop, bridges, heartbeat | restart under a connected TUI, two bridges at once | one bridge per pair, bounded loss, cancellation ends the process |
| **Artifact graph** `artifact/graph.go` | segments with status, owner, dependencies; a file | add, fill, reorder, update, cascade, claim, start, complete, save, load | cascade against work in progress, IDs generated or given, end of the process during a save | claims are exclusive, outdated work stops, the file is whole |
| **MCP client** `mcp/client/client.go` | connections, one lock each | connect, call, second attempt, send, close | late answers, lines that answer nothing, a server that stops reading, timeouts that leave a goroutine behind | an answer goes to its request; a call returns |
| **Driver pool** `uniform/execution/driver_pool.go` | map of drivers | `GetOrCreate`, `StopAll` | creation outside the lock, a `Stop` that fails | what runs is in the pool, or was told to stop |
| **REPL inputs** `repl`, `tui/widgets` | state, prompt queue, runs and `!` commands | enter, Tab, submit, approval, end of a run | messages posted by goroutines, runs that overlap | no input lost or run twice, no waiting for nothing |
| Telemetry `telemetry` | signals, handlers, watchdogs | emit, watch | handlers that emit | alarms raised once and only when due |
| Cache `cache` | two levels | get, put, evict | no common lock | upper level not older than the lower |

The names in bold are modelled. The other packages (`tui`, `tools`, `review`, `uniform`'s prompts and
personas, `config`, `app`, ...) are user interface, I/O, wiring or computations on
values; `PROJECT.json` lists each with the reason it is left out.

**Interactions.** The operator port and the alert port call `go HandleIntent`.
`HandleIntent` calls the registry (`TryRegister`, `Complete`, `Dequeue`), then
`Orchestrator.Execute`, and drains the event channel until it is closed.
`Dequeue` starts another `HandleIntent`. `CancelWorkstream` goes to the context
that `Execute` derives its own from. `forwardPermissions` is one loop for all
executions and calls `Submit`. The hub is a process of its own: shell and backend
are clients of its socket; `SwapBackend` takes the backend's connection away under
the hub's lock and starts a new binary, which registers like any client. The REPL starts
a goroutine with `agent.Run` for every prompt, records usage in the monitor, and saves the
session when a run ends. `RelayManager`, `Relay` (vezir) and `DriverPool` are
libraries that the programs of this commit do not wire up: their callers in the
models are any callers.

## 2. Modules

| Module | Models | Extends / composes |
|---|---|---|
| `Broker` | `HandleIntent`, `CancelWorkstream`, the registry | |
| `MCBroker` | instances for TLC | `Broker` |
| `BrokerProofs` | theorems about `Broker` | `Broker`, `TLAPS` |
| `WorkPlanOutcome` | what a plan's events promise to their reader | |
| `Orchestrator` | `SimpleOrchestrator`, the reader in `HandleIntent`, `forwardPermissions` | implements `WorkPlanOutcome` |
| `MCOrchestrator` | instances for TLC | `Orchestrator` |
| `OrchestratorProofs` | theorems about `Orchestrator` | `Orchestrator`, `TLAPS` |
| `Hub` | the hub, its relays, `SwapBackend`, the clients' side | |
| `MCHub` | instances for TLC | `Hub` |
| `HubProofs` | theorems about `Hub` | `Hub`, `TLAPS` |
| `AgentSession` | the agent loop, the session with compaction, saving and repair on load, the driver's messages, the REPL's part | |
| `MCAgentSession` | instances for TLC | `AgentSession` |
| `AgentSessionProofs` | theorems about `AgentSession` | `AgentSession`, `TLAPS` |
| `ArtifactGraph` | the graph of segments, its agents and editors, its file | |
| `MCArtifactGraph` | instance for TLC | `ArtifactGraph` |
| `ArtifactGraphProofs` | theorems about `ArtifactGraph` | `ArtifactGraph`, `TLAPS` |
| `McpClient` | the client of one MCP server, the server's side | |
| `MCMcpClient` | instance for TLC | `McpClient` |
| `McpClientProofs` | theorems about `McpClient` | `McpClient`, `TLAPS` |
| `Vezir` | the supervisor, the socket relay, the processes and terminals around them | |
| `MCVezir` | instance for TLC | `Vezir` |
| `VezirProofs` | theorems about `Vezir` | `Vezir`, `TLAPS` |
| `ContextRelay` | the relay manager and the usage monitor | |
| `DriverPool` | the driver pool | |
| `Repl` | inputs from the keyboard to their end | |
| `Parts` | these three side by side | `ContextRelay`, `DriverPool`, `Repl` |
| `MCParts` | instance for TLC | `Parts` |
| `PartsProofs` | theorems about `Parts` | `Parts`, `TLAPS` |

Operators named as mutants in the comments (`AtLimitOffByOne`, `KeepQueue`, ...)
are deliberately wrong variants of the definition that follows them. They are not
part of the specification; each shows that some property fails when the code is
wrong in that way.

### Broker

A call of `HandleIntent` is a member of `Calls`, with its place in the function in
`pc`: `register` (line 140) to `emitQueued`, or to `store` (156-167), `draining`
(183-212), `emitResult` (214), `dequeue` (220) and `cleanup` (the deferred delete);
`execError` and `emitError` are the error path (168-180). A step is what happens
between taking and releasing a mutex. The `*WorkstreamInfo` that a call allocates
is identified with the call, because map and queue hold pointers and what matters
is which of them point to the same info. A slot is used again when nothing refers
to its info.

Bounds: `MaxSubmits` (how often an intent ID is handed in) and the number of
`Calls`; with fewer than four slots a queued, a promoted, a re-entered and a new
info of the same ID do not exist together. `ExecFails` is a parameter because the
`Orchestrator` interface allows an error, though `SimpleOrchestrator` never returns
one. The execution itself is one step here: the `Orchestrator` module is its detail.

### Orchestrator and WorkPlanOutcome

One goroutine per execution with a `pc` per statement that can fail or block.
External calls (sandbox, driver, gate) succeed or fail freely. A send is possible
while the buffer has room and blocks otherwise. The `select` of the receive loop
is three actions; a closed receive channel and a message need the driver, a done
context does not. The deferred `Stop` and `Destroy` come last in first out and may
fail only when the execution's context, which they are given, is cancelled.
Executions have distinct plan IDs here: what repeated IDs do to `o.execs` and `o.inputs`,
where a later execution replaces the entries of an earlier one, is not modelled.

`WorkPlanOutcome` is the abstract specification: gates pass one by one and the plan
concludes once, with success exactly when all have passed. `Orchestrator` implements
it with the reader's count of passed gates for `passed`.

### Hub

Relays are steps cut at the lock: check the context, decode a message and read the
peer (214-216), then send to it or queue (218-229). Registration is one step, as it
holds the lock throughout. The two directions are one definition with the role as
parameter. A message is identified by its connection and its number. `ClientClose`
is the end of a client at any moment; what it has written can still be decoded. A client
may also end while its queue is drained to it: the rest of the queue is then dropped.
*Written* means written to the socket, not read by the client.

A connection that the hub replaces or swaps out is closed with its relay cancelled: what it had sent
and the relay had not decoded is read by nobody and lost. `ExactlyOnce` therefore has two parts:
each message is in one place, the places being the socket of its connection, a relay's hand, a queue,
one peer's socket and a drain that failed; and what waits in a socket has a relay that will decode
it, or its connection is one that the hub itself replaced, swapped out or shut down. What a client had sent
when it went by itself is still decoded, unless the hub replaces it first.

Simplifications: messages are whole and well formed (a decode error ends a relay
like a disconnect, but without one); socket writes do not block; a client sends its
registration with the connection, so that `Run` never waits for a silent one (listed
as a hazard).

### AgentSession

A conversation exists twice: as the session's entries, which are saved, compacted and
repaired, and as the messages of the chat driver, which is what the provider is shown.
`agent.Run` extends them by separate statements; each is an action, and the process may
end between any two (`Quit`, with a save by `app_repl.go:598`, or a crash without).
`Boot` is `Store.Load` with `Sanitize` and `ReplayHistory`. Of an entry the model
keeps role, whether it has text (the summary of `Compact` depends on it) and the IDs of
tool calls and results; the driver's tool messages for one entry are one message here.
A provider answers or fails at will; every call gets a result, because `executeTools`
turns errors and denials into results.

Esc does not stop a run: while it streams the key goes to the input panel. But a `!`
command that was running when a prompt was entered ends with the same `AgentDoneMsg` as a run
(`repl/model.go:918`), and `handleAgentDone` saves the session and takes input again:
`ShellDone`. The next prompt then starts a second run on the same session and driver.
`History.Append` has no lock, so an append made while another run is active may be lost
(a torn slice header, which Go does not exclude either, is not represented; nor is an
append that falls inside a `/compact` or `/clear`, which are atomic). The variable
`overlap` remembers that this has happened: the live driver's properties are claimed without
it, those of a load (`LoadUsesAnswered`) also with it. `skipped` and `edited` remember the
other two exceptions, calls left out with tools disabled and compaction or `/clear`.

Bounds: prompts, starts, ends of `!` commands (`MaxShells`), and tool calls in all (`MaxCalls`). The small instances have
`KeepRecent` 2 and `MaxLoadEntries` 4 for the code's 4 and 200, so that a history of a
few entries is compacted. When a history is near the context limit is left open: any turn may
compact.

### ArtifactGraph

Every method of the graph is one action, and holds the graph's lock throughout but for two. `Save`
copies under the lock and writes without it: four actions, of which three can fail. `Inject` reads the map for its
parent before it calls `Add`, which takes the lock (`graph.go:419`): it is one action here,
which leaves out what the unlocked read can meet (segments are never removed, so the answer does not
change, but the read races with writes of the map). An agent
takes a segment that `Ready` offered (`Pick`), and claims, starts and completes it; a
refusal sends it away. Between these calls an operator or the plan tool adds segments,
edits dependencies and statuses, and declares changes, which cascade along dependencies
and to segments that name the same files. `End` is the end of the process between any two steps, `Boot`
the next start. `outdated` is a history variable: what a cascade had to reach by a
definition of its own (`Reaches`: membership of every set that is closed under dependents), not by
the code's recursion. `Ascending` orders IDs by their numbers; the code's strings differ from
`seg-10` on, and only in the order of segments that do not depend on each other.
`Add` generates an ID from the counter, or takes the one its caller has given (`AddGiven`). It does not
look whether the ID is free, nor move the counter past it: such a segment replaces whatever has the ID, work in
progress included, and a generated ID can replace it later. `given`, a field of a segment, and the history
variable `replaced` remember where this has happened: `AddKeepsOthers` says that a generated ID replaces nothing
else, and `ClaimExclusive` holds of a segment until another is put in its place.
A claim is never released: an invalidated segment that is set back to ready keeps its
owner and cannot be claimed again. The code does this; no property is about it.

Bounds: `MaxItems` segments, `MaxEvents` edits, cascades, saves and additions with a given ID. With one event
the run starts from any of two files, so each of these meets every state of two agents;
additions with a generated ID and fills are not events. It also starts without a file. One of the files holds a segment whose ID was
given and which the counter has still to pass, the other a chain of dependencies that ends outside the graph.

### McpClient

A request is named for the call that sends it and its step in the call (`initialize`,
`initialized`, `list`, `listAgain`, `call`, `callAgain`). `sending` is where its goroutine is:
a call that has timed out leaves it behind, at the lock, writing or reading. The server
answers what it has in any order, answers or not, and may die; over stdio it does not
answer the notification, and `sendNotification` waits for a line all the same, until
the read deadline. It may also write lines that answer nothing, which the client takes for answers
(`Chatter`: a notification, or text that a tool prints), and stop reading what it is sent (`StopReading`).

Nothing compares IDs (`client.go:398`). `shifted` remembers that a line came that answers nothing, or that a read
gave up on an answer that may still come: from then on answers go to later requests, and `AnswerMatches`
claims only that none is given away while the request it answers still waits for it. Before, every answer
goes to its own request.

A write has no deadline and is made with `conn.mu` held (`client.go:384`): when the server does not read, it
may not end while the server runs, and every request behind it waits for the lock. The timeout of a call covers
its own requests, `call` and `callAgain`, but neither the handshake of the connection nor that of a
second attempt: `StdioCallReturns` says that over stdio every caller returns, except one that is in a
handshake with a server that runs and does not read; that one may wait as long as the server runs.

`isSessionError` looks for words like "session" or "connection" in an error's text. A failure of the tool whose
text has one is the same to it as a broken session, and such a call runs its tool twice; the errors of `send`,
a timeout's too, carry the names of server and tool, so that for `SessionNamed` calls, whose names have such a word, a
timeout also leads to a second attempt.

Bounds: a scenario is the set of calls made and the number of lines that answer nothing: two calls, or one with
a session's word in its name beside one such line.

### Vezir

The supervisor's `Run` is cut at its waits; a process ends by itself, or because
`CommandContext` kills it. What it kills is `go run`: the substrate under it may go on, with its
connections, and accept another one (`Orphaned`). The relay is cut at its critical sections and dials. An *end* is a
connection of the relay: open, hung up by the other side, or closed by the relay. A
bridge is two copiers; its own goroutine closes nothing, so cancelling it has no effect, and
an old bridge's copiers go on until their reads or writes fail. `lost` counts the chunks of
an end that went elsewhere than to its partner. One goroutine calls `Reconnect`. `Stop` may come at any time.

Bounds: two terminals, two dials, one restart, one chunk per end in transit. The counters of bridges and
lost chunks need no bound of their own.

### ContextRelay, DriverPool, Repl and Parts

`ContextRelay` cuts `CheckAndRelay` at every access to the monitor, which has a lock of its
own and is moved by `Record` at any time, and at every call of a driver. A session is the set of the turns it
holds. The fallback compacts and therefore holds the same turns. A turn between `Seed` and
`Swap` is missing afterwards from the active session: it is in the archived one.

The code drops the error of a driver's `Stop`, after a failed replay (`relay.go:185`), at the end of a swap (line 238)
and in the pool (`driver_pool.go:59`, `81`), and forgets the driver all the same. `Stop` may therefore fail in both
models, and `stuck` is what runs on: `DriversAccounted` has it as the one exception, and says that no driver
gets there without having been told to stop. `MaxStuck` bounds the failures in `ContextRelay`; in the pool any
`Stop` may fail.

`DriverPool` names each driver for the call that creates it. The second lookup under
the lock is a disjunct of `Insert`.

`Repl` follows an input through `handleSubmit` (prompt, command or `!` command), through the
input panel when the REPL streams, and through Tab. A posted `SubmitMsg` arrives later, and is a prompt
whatever it was meant to be: a slash command completed by Tab goes to the agent. A drained
prompt that finds the REPL busy goes to the tail of the queue. The kinds of an input are not
fixed: the model lets each be entered as any.

The three share nothing. `Parts` puts them side by side with disjoint
variables, and `part` chooses which one moves: a behaviour is one of one part, and the
state space is the sum of the three.

## 3. Runs

All models can come to rest when the bounded inputs are used up, so deadlock is not
checked; what has to happen is stated as liveness.

| Run | Instance | Shows |
|---|---|---|
| `broker_alias` | 2 IDs, one twice; 4 slots; limit 1; a canceller; `Execute` fails for one | types, `QueueConsistent`, `ExecutingWithinLimit`, `CancelHandleLive`, `OneFinalPerSubmit`, `TerminalSticks` |
| `broker_distinct` | 3 IDs once; 5 slots; limit 2; fair | `LiveWithinLimit`, `ExecutingCancellable`, `AllAnswered` |
| `broker_serial` | 2 IDs once; limit 1; fair | **violates** `AllAnswered` |
| `orchestrator` | 2 stages, the second with a time budget; token budget 2; 2 responses; fair | types, `SendNeverBlocks`, `CleanUnlessCancelled`, `OutcomeSpec`, `CancelEnds`, `BudgetEnds` |
| `hub` | 3 connections, 2 messages from the shell; fair | types, `ExactlyOnce`, `OrderedPerConnection`, `LiveIsCurrent`, `ReplacedRelayEnds` |
| `hub_stranded` | 1 shell, 1 backend, 1 message; fair | **violates** `QueuedReachesPeer` |
| `agent` | 2 goroutines, 2 prompts, 2 starts, 2 tool calls; a `!` command's end; tools enabled or not | `ChatUsesAnswered`, `SessionMirrorsDriver`, `RepairIdempotent`, `LoadUsesAnswered` |
| `agent_cut` | 1 goroutine; tools enabled | **violates** `ChatResultsCalled` |
| `artifact` | 3 segments, the outer two with a common file; IDs generated or given; 2 agents; 1 event; no file or one of two to start from | `ClaimExclusive`, `OutdatedStops`, `TopoSound`, `FileWhole`, `AddKeepsOthers` |
| `mcp` | the connection and 2 calls, or 1 call that its timeout retries and 1 line that answers nothing; stdio or HTTP; fair | `AnswerMatches`, `StdioCallReturns` |
| `vezir` | 2 terminals, 2 dials, 1 restart; fair | `BridgedOnce`, `LossBounded`, `RunEnds` |
| `parts` | 2 turns, 3 drivers, 1 `Stop` that fails; 3 calls, 2 keys; 5 inputs; fair | `BackupReady`, `DriversAccounted`, `RelayCompletes` (context relay); `DriversAccounted` (pool); `PromptOnce`, `BusyHasRun`, `InputsHandled` (REPL) |

Why these bounds: two intents of one ID and one of another give every aliasing of map
entry, queue entry and cancel func; a limit of two with three plans is the least in
which a plan is queued and promoted while another runs. Two stages are the least with
a stage that follows another. Three connections give a role its connection, the
one that replaces it, and a peer. Two prompts and two starts let a conversation be
interrupted, reloaded and continued; two tool calls may be in one answer, in two turns
of a run, or in two runs. Three segments give a chain and a cycle of dependencies, and a
segment that is behind neither. Two calls beside the connection are the least in which the
answer of one is there for another, and a handshake of a second attempt runs beside a call; a line that answers
nothing already shifts the answers of a single one.
Two terminals and two dials let each side be replaced while the other is bridged. A relay
never has more than an active driver and one other in use, so three leave it one when a `Stop` has failed. Five inputs
let a run stream, two wait in the queue, one be on its way and a `!` command end. The
proofs then remove the bounds of what they cover (section 4).

What the violations say:

* **`broker_serial`.** `Dequeue` makes the queued info Running, and the info is still
  the map's entry of its ID. The `HandleIntent` started for it calls `TryRegister`,
  which counts that entry: at a limit of 1 the plan is queued again, this time with
  nothing left to dequeue it. Its intent never gets an answer.
* **`hub_stranded`.** A relay finds no peer; the peer registers and drains the queue; the
  relay queues the message. It stays queued while both sides are connected.
  It is late, not lost: by `ExactlyOnce` a message that was decoded is lost by a failing drain only.
* **`agent_cut`.** `Compact` keeps a fixed number of entries and can drop a call whose
  result it keeps. After the next start the driver is given that result without a call;
  the repair on load looks only for calls without results.

Other places where the code does less than one may expect, which the models show and
no run is spent on: with a repeated plan ID the deferred `delete` of an earlier call takes
the cancel func of a later one; a second response for an execution blocks
`forwardPermissions` until the broker's context ends, for nothing receives from the input channel and `Submit` is
not given the execution's context; in ask or plan mode a
tool call stays unanswered in the live driver; turns between the spawn and the swap of a
context are not in the new session; a queued prompt can be overtaken, though
`queue.go:2` says "Drains top-to-bottom"; a slash command completed by Tab is sent to the agent
as a prompt, though `input.go:314` says "auto-executes"; a driver put into the pool after `StopAll` is not stopped; an answer that comes
after its read deadline, or behind a line that answers nothing, goes to the next request of the MCP connection; a
connection or a second attempt hangs on an MCP server that runs and does not read; what a replaced or swapped
connection of the hub had sent and no relay decoded is lost; a segment added with an ID replaces the one that has
it; a driver whose `Stop` fails runs on and is forgotten.

**Fairness.** `WF` of the steps of a goroutine: Go's scheduler runs every goroutine that
can run, and the critical sections are short. The `CallStep` of the broker includes
the end of an execution, which the `Orchestrator` module discharges under its own
conditions. In `Orchestrator`, the driver owes nothing: neither a message nor the end
of its channel is fair, while calls of sandbox, driver and gate return (they get the
context) and a timer with a deadline fires. In `Hub`, clients owe nothing, and `Run`
registers what has been dialled. In `McpClient`, goroutines run, locks are granted and
timers fire; the server owes nothing. A write is fair only while the server reads (the pipe's reader makes room) or
once it is dead (the write fails): one to a server that runs and does not read may take for ever, which is the
exception of `StdioCallReturns`. HTTP requests need not end, which is why that property is about stdio. In `Vezir`, `Run` is scheduled and a kill takes effect; nothing
is asked of substrate, terminals or relay. In `Repl`, posted messages arrive and runs and `!`
commands end (an assumption: the provider's and the command's matter); the operator owes
nothing, not even the answer to an approval. `ContextRelay` is called again and again, which is a weak fairness
of its steps, and its two `SF` say that a driver that can be started again and again and
replayed is, some time: without them every spawn may fail. It is the only strong fairness,
and an assumption about the driver, not about the code.

## 4. Proofs

Every invariant, every action property and the refinement that a run checks is also a theorem, and so
is the type invariant of every module, those included that no run spends time on: it holds for all
values of the constants, that is for any number of intents, stages, connections, prompts, segments
or calls, in every interleaving. The theorems rest on the modules' named
assumptions (`BrokerAssumption`, `OrchestratorAssumption`, `HubAssumption`, `AgentAssumption`,
`GraphAssumption`, ...) and on those in the statement of a theorem. Most of these only keep null values
apart from the values they stand beside (`EndsApart`, `NoDriver \notin Drivers`; half a file is not
a graph). Three say something about the system:

* `DistinctIDs` (`CancellableCorrect`, `LiveLimitCorrect`): no plan ID is handed in twice. With a
  repeated one both properties fail, see section 3.
* `Cancellers = {}` (`LiveLimitCorrect`): a cancelled workstream is terminal in the registry while its
  execution still winds down, so with cancellation executions can exceed the limit for a while.
* There is at least one driver (`BackupCorrect`, `DriversCorrect`, `PartsTypeCorrect`).

Each argument is an invariant that is inductive, where the property alone is not.

**Broker**
* `TypeCorrect`: the type invariant.
* `QueueCorrect`: a call that is about to register must have an info that neither map nor queue
  knows, and the call of a Pending info must not be executing: that is `RegistrationOrder`. Lemmas
  about `Append` and `Tail` on a sequence without duplicates carry the two queue operations.
* `CancelHandleCorrect`: a call which is between `store` and `cleanup` is the only one that can put its
  own func into the map.
* `ExecutingLimitCorrect`: the set of executing registry entries grows only in `TryRegister`,
  which has compared a superset of it with the limit.
* `TerminalCorrect`: an action property, from the queue invariant: `Dequeue` only promotes Pending
  infos, so it never revives a terminal one.
* `FinalsCorrect`: answers emitted and calls or queued infos that owe one add up to the
  submissions; each step moves at most one member of the set of those who owe.
* `CancellableCorrect`: with distinct IDs that sum makes the call of an ID the only one that owes an
  answer (`Counted`, `OneOwes`), so what it stores in `b.running` stays (`Stored`).
* `LiveLimitCorrect`: for the same reason the registry's entry is that of the call that executes,
  and Running (`LiveEntry`), so `ExecutingWithinLimit` bounds the executions themselves.

**Orchestrator**
* `OrchestratorTypeCorrect`: needs `StageInRange`: within a stage the index is at most `NumStages`.
* `SendNeverBlocksCorrect`: at every `pc` the number of events written is bounded by three for each
  stage left behind plus those of the current one.
* `CleanCorrect`: by the position in `executeStage`, the sandbox and driver that exist are the
  current stage's, and the end event is in the buffer only after both are gone.
* `OutcomeCorrect`: the refinement of `WorkPlanOutcome`, step by step. What the reader has seen and what
  waits in the buffer make up the gates written, and the last event of an execution, read or
  not, says whether all stages are through (`Told`).

**Hub**
* `HubTypeCorrect`: the type invariant needs `HandFull`, that a relay at `forward` holds a message.
* `LiveIsCurrentCorrect`: with the types inductive, because whatever takes a connection from
  `current` also closes it or finds it disconnected.
* `OrderedCorrect`, `ExactlyOnceCorrect`: `HubInv` follows every message through the hub. Of one
  client, what has been passed on is older than what its relay holds, which is older than what is not
  decoded (`Stream`, `Ahead`); queues, connections and the dropped messages share none and are
  ordered (`Apart`); nothing sent is missing (`Complete`); a connection that has something undecoded is still read, or the hub has
taken it out (`Heard`); a connection without a relay has
  received nothing (`Waiting`), which is what makes the drain of a queue come first.

**AgentSession**
* `MirrorCorrect`, `AnsweredCorrect`, `RepairCorrect`, `LoadCorrect`: `SessionInv` says how far the session is ahead of
  the driver, or behind it, at each step of a run (`Ahead`); that only the last
  message may have calls without results, those being executed (`Awaited`); that until an overlap there
  is one run (`OneRun`); and that the calls of one response stay together in every entry that names
  them, on disk too (`IDsGrouped`): without it the repair could not be idempotent. `Repaired` flattens a
  sequence of sequences; what it returns is shown through the fold's partial results.
* `SessionTypeCorrect`: with the types, a run inside a turn has that turn left (`Counts`).

**ArtifactGraph**
* `ClaimCorrect`, `AddCorrect`, `FileCorrect`: the segments, in memory, in the copy of a save and in
  the file, have an ID that the saved counter has passed, or one that was given (`Graph`, `GraphOK`), so that the next
  generated ID meets a given one at most; an agent's segment is one of the graph's (`AgentsOK`). `GraphTypeCorrect` follows from the same.
* `OutdatedCorrect`: the cascade's rounds only grow, so as many rounds as segments end with a set that is
  closed (`RoundsEnd`), which has all that `Reaches` the change (`CascadeReaches`). That what is invalid
  stays so then is the invariant (`Stopped`): an agent's call looks at the status again.
* `TopoCorrect`: a round of Kahn's algorithm keeps a list without repetitions in which dependencies come
  first (`KahnKeeps`), and ends with an empty frontier (`KahnEnds`). What is left then is on or
  behind a cycle: of the segments left that one of them reaches, the one that reaches fewest has a
  dependency left, which reaches fewer unless it reaches back (`LeftIsHeldUp`).

**McpClient, Vezir and Parts**
* `AnswersCorrect`: as long as nothing has shifted the answers, the one that holds the lock is the only one that the
  server may still answer or whose answer waits (`Mutex`, `Wire`, `InStep`); to keep that, no request is sent
  twice (`Fresh`: what a call has ahead of it is not sent). For what holds after that: whatever the server
  has or has written was asked by a request that is not called back, and an answer in the hands of another request is
  to one that is no longer out (`Past`, `Gone`, `Origins`). `ClientTypeCorrect` adds that a call waits
  for no request it has not sent (`Sent`).
* `BridgedCorrect`: a pair of ends is bridged, or the accept loop or `Reconnect` holds both and is about to do
  it, and never both of them (`Once`, `Current`); what they hold between their critical sections is what the
  relay has (`Held`), and no new connection is one of those (`Used`).
* `LossCorrect`: an end that is open is in someone's hands (`OpenHeld`), so a partner of an
  old bridge is gone; each chunk lost has ended the copier to one such partner (`LostSpent`).
  `VezirTypeCorrect`: `Run` that has not returned has restarts left (`Ranges`).
* `BackupCorrect`, `DriversCorrect`: what the monitor's state says of the manager's, inside of
  `CheckAndRelay` and between two calls (`MonitorMatches`), and the driver that each `pc` has in its
  hands (`DriversHeld`), none of which was told to stop before. In the pool a call whose driver would not stop
  is done (`GivenUp`). In the pool, what is stored runs and was put there under its own key by a call
  that is done (`Pooled`); a call that may still insert has a key (`Keyed`).
* `PromptOnceCorrect`: the places of inputs are pairwise apart and hold all that was typed
  (`Placed`, `Apart`); one place for each then follows. `BusyCorrect`: `BusyHasRun` is inductive.
  `PartsTypeCorrect` puts these together, with what sessions hold (`Holdings`).

**Induction.** The library's induction theorems take an operator as a parameter, which the installed
provers cannot instantiate. `NatInduct` states induction for a *set* of numbers instead, and is
proved from the well-foundedness of `<`; recursive functions are then handled through the
functions that satisfy their equation at each number up to a bound (`RoundsExist`).
`ArtifactGraph` defines `Reaches` by closed sets and `Ascending` by its property because this prover has no
functions of several arguments and cannot open the library's sort.

**Only model-checked:** the liveness properties `AllAnswered` (and its violation), `CancelEnds`, `BudgetEnds`,
`ReplacedRelayEnds`, `StdioCallReturns`, `RunEnds`, `RelayCompletes` and `InputsHandled`: liveness under fairness
and `ENABLED` are outside what the prover handles.

## 5. Not modelled

Signals, cordons, the andon board, logging and metrics; the content of prompts, events
and messages; the start of the new binary in `SwapBackend`; blocking socket writes and
silent registering clients of the hub; the in-memory transport and the backend loop; roles with
their automatic transitions, the ask tool and rendering of the REPL; token counts, archive and search of sessions;
the relay manager's prompt queue; annotations and the counters of several kinds in the
artifact graph; the registration of MCP tools; the heartbeat and the watcher of `vezir`; and
the components of section 1 whose names are not in bold. What is left of the repository is
mostly user interface, tools over source trees, prompt assembly, configuration and clients of external
sandboxes: data and I/O, with at most one lock. Telemetry's watchdogs and the two-level cache have
races (an alarm raised by a signal that arrives between two critical sections; an older value promoted over a newer one), but
both are one statement deep, and only tests construct the two-level cache.

## 6. Plan

1. *Done:* `Broker`, `Orchestrator` with `WorkPlanOutcome`, `Hub`, `AgentSession`; first theorems.
2. *Done:* `ArtifactGraph`, `McpClient`, `Vezir`, `ContextRelay`, `DriverPool`, `Repl`.
3. *Done:* theorems: every safety property, action property and refinement that a run checks.
4. *Next:* the hazards that have no property yet, each an extension of a module that exists: blocking
   registration and drain in `Hub`, `Dequeue` after a failed `Execute` in `Broker`, entries appended between spawn and swap
   in `ContextRelay`; with each the invariants of its proofs.
5. *Next:* lemmas that the liveness properties rest on and that are safety: what stays enabled once
   it is (a stored cancel func, a closed connection), and bounds on the steps that a goroutine
   has left.
