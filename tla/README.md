# Ghost: specifications, model checking and proofs

Ghost is a developer's daemon: `ghostd` serves an HTTP API on a Unix socket,
lets an LLM write small Python tools, keeps them in quarantine until the user
approves them, and stores everything in one SQLite database. This directory
holds TLA+ modules that model its core, the TLC configurations that check them
and the TLAPS proofs about them. Source paths are relative to the
repository's `src/ghost/` unless they start with `tests/` or are `README.md`.

    tlc -workers 2 -config MCForge.cfg MCForge      # one run
    tlapm ForgeStreamProofs.tla                     # a module's proofs

`PROJECT.json` lists the runs, the lines each definition models, the mutants,
the hazards, the findings and the theorems.

## 1. Inventory

| Component | State | Operations | Where it is hard | Module |
|---|---|---|---|---|
| Database writer `memory/writer.py` | an unbounded `asyncio.Queue`, one consumer coroutine, one connection with an open transaction | `write`, `enqueue`, `execute_script`, `start`, `stop` | three awaits per operation; failing statements without a rollback; cancelled callers; death in between | `DatabaseWriter`, `WriteLog` |
| Quarantine and registry `synthesis/quarantine.py`, `synthesis/registry.py`, `api/routes/tools.py` | tables `tools` and `tool_current`, scripts in `quarantine/` and `tools/` | add, approve, register, reject, run, delete | read, file operation and write are separate steps of requests that overlap | `ToolLifecycle`, `HumanInTheLoop` |
| Forge `synthesis/forge.py` with `core/tasks.py`, `brain/providers/openai.py`, `brain/cost.py`, `memory/audit.py` | two LLM slots; rows for tool, cost and audit; script; events | `forge` | six effects one after the other, each can fail; slots on every way out | `Forge` |
| Startup `core/daemon.py`, `memory/database.py`, `memory/migrations/` | the database file, `schema_version`, the PID file, sockets and the pointer file | `check_integrity`, `get_connection`, `run_migrations`, `safe_socket_path` | a script and its version are two writes; damaged files; starts that die half-way | `Startup` |
| Daemon and commands `core/daemon.py`, `core/app.py`, `core/lifecycle.py`, `cli/commands/start.py`, `cli/client.py` | `ghost.pid`, the socket path, processes | start, stop, restart, kill | files checked, unlinked and rewritten by several processes | `DaemonLifecycle` |
| Intent queue and retry `brain/queue.py`, `brain/retry.py` | table `intent_queue` | enqueue, drain, mark, `retry_with_queue` | nothing claims an intent; drains overlap, fail, restart | `IntentQueue` |
| Event bus and stream `core/events.py`, `api/routes/events.py` | handlers, history, running tasks; one queue per WebSocket | publish, subscribe, unsubscribe, drain, stream | tasks run between publications; clients leave unnoticed | `EventBus`, `ForgeStream` |
| Knowledge `memory/entities.py`, `memory/graph.py`, `api/routes/watch.py` | tables `projects`, `watched_dirs`, `entities`, `edges` | watch, unwatch, upsert, soft delete, edges, neighbours | read, then write; foreign keys; graph search | `KnowledgeStore` |
| Search, vectors, context `memory/search.py`, `memory/vectors.py`, `memory/graph.py`, `brain/context.py` | table of vectors; otherwise reads | text, graph and vector search, rank fusion, packing into a budget | many queries over a database that changes between them; arithmetic at the budget | `Retrieval` |
| Prompts, schemas, configuration, health, logging, other commands | text, configuration | | no state that interacts, or never started | not modelled (section 8) |

How they interact. The CLI talks to the daemon over the socket and shares the
PID file and the pointer file with it. Routes are coroutines of one event loop;
they read the database directly and change it only through the writer. The forge
holds an LLM slot during the provider call, then enqueues a cost row, writes the
script, awaits the row in `tools`, enqueues an audit row and publishes an event;
the bus runs the handlers of the WebSocket streams as tasks. On shutdown the
lifespan cancels tasks, drains the bus, stops the writer and removes the files;
before that, the server waits for the stream handlers to end.

What makes each correct, in one line: the writer loses, reorders and
misreports nothing; only approved tools run and rows, pointers and scripts
agree; a forge is reported once and truthfully, and slots are conserved; a
daemon that serves has its whole schema whatever earlier starts left, and
clients find it; at most one daemon, and a start gives way only to a live
process; an intent that is completed was processed; a stream gets every event
once and in order; names are unique, and a search for neighbours misses none
that stood while it ran; a retrieval returns related entities in the order its
sources agree on and overruns its budget by little.

## 2. Plan

1. Done. `WriteLog`, `DatabaseWriter` and their proofs: every other module uses
   the writer as a FIFO whose operations take effect whole or fail.
2. Done. `ToolLifecycle`, the human-in-the-loop promise of `README.md:468`, and
   `Forge`, with proofs of all their safety properties.
3. Done. `Startup`, the migration runner with crashes, and `Retrieval`, with
   proofs of all their safety properties.
4. Done. `IntentQueue`, `DaemonLifecycle`, `KnowledgeStore` and `EventBus`, with
   proofs of all their safety properties.
5. Done. `ForgeStream`, the composition of `Forge` with `EventBus`, and
   `HumanInTheLoop`, the abstract life of a tool that `ToolLifecycle`
   implements, both proved.
6. Left: an abstract specification of the intent queue (at-least-once delivery
   of what was enqueued) that `IntentQueue` implements, and of a start that
   `Startup` implements.

No module declares a recursive operator; the one recursion, `EventBus!Kept`, is
a recursive function.

## 3. The modules and the code

A step of a coroutine model is what the event loop runs between two awaits. No
module has a clock: a timeout is a step that may happen.

**WriteLog** is what callers of the writer rely on: operations are decided in
submission order, each at most once, as `committed` or `failed`; only the death
of the process, counted in `deaths`, makes one `lost`.

**DatabaseWriter** numbers operations by submission. `queue` is `_queue` with
the sentinel, `pc` and `op` are the consumer's place and local, `future[i]` is
what the caller of operation *i* sees, `failed` is who was told (or logged) an
exception. An operation is the set of rows it changes, so a half-executed batch
or script is visible: `uncommitted` is the connection's transaction, `durable`
what survives the process. `Get`, `ExecuteOk/Fails`, `CommitOk/Fails` and
`Resolve` are the consumer's awaits; nothing rolls back, because the code does
not. `ImplementsLog` maps this state to `WriteLog`. *Durable* means: survives
the death of the process; the database runs with `synchronous = NORMAL`, and
power loss is out of scope.

**ToolLifecycle** has one request per client, with the row it read (`seen`) and
its place. Statements go to `pending`, the writer's FIFO. `files` are scripts
named by directory, tool name and code, as in the code, so that two tools
forged with the same name and code share a path; dependencies and capabilities,
which the code writes into the script and not into its path, are left out. Each
statement has an `Apply` action; `NameTaken` is the UNIQUE constraint, and
`ApplyFails` any other failure of a statement, whose exception reaches the
request that waits. What a failed commit leaves in the transaction is the
subject of `DatabaseWriter`; here a failed statement changes nothing.

**HumanInTheLoop** is what the user may rely on, without requests, scripts and
writer: a tool is `unknown`, then `quarantined`, then `approved`, `registered`
and at last `retired` by its deletion, or it is `discarded`; a name calls, and
a run executes, only what was approved. `ToolLifecycle` maps its state to this
one with `Phase`: a tool is unknown while its forge awaits the INSERT, and one
without a row is retired or discarded depending on whether an approval reached
the database.

**Forge** follows `forge()` between awaits, including the permits and FIFO
waiters of `asyncio.Semaphore`. The writer is a FIFO whose head takes effect or
fails; cost and audit rows are in it without anybody awaiting them.

**Startup** follows one `ghostd` after another from `main()` to the bound
socket. A database file is named by the process that created it, so an archived
file and its successor are told apart. A migration is a sequence of statements
that commit one by one (`RunStatement`), followed by its row (`RecordVersion`);
`objects` and `versions` are what a file holds, `todo` what the process decided
from `MAX(version)` before the loop. An optional migration is passed over when
the SQLite of that start has no `vec0`. `CheckIntegrity` and `CheckRaises` are
the two ways `check_integrity` archives a file. A start may have a configuration
whose socket path is too long (`long`); `ResolveSocket` then writes the pointer
file that `ClientPath` reads. SIGTERM of a serving process takes it through the
lifespan's shutdown, which removes the configured path and not the fallback
(`Stop`); before that it removes nothing (`StopEarly`). `GuardMistaken` is a PID
that another process of the user has got. The single-instance guard and the
cleanup are one step each here; `DaemonLifecycle` has them step by step.

**DaemonLifecycle** runs `ensure_single_instance` one file operation at a time,
with the three exceptions that make a PID file stale and the one the second
`unlink` may raise. `holder` says which other process has the PID of a dead
daemon: `os.kill` succeeds on one of the same user (`Signalled`). SIGTERM ends a
process on the spot before uvicorn holds the signal (`KilledUnguarded`), ends it
without a shutdown during start-up (`Bind`), and leads a serving one through the
lifespan's shutdown; then uvicorn (the repository asks for 0.30 or later) raises
the signal again with its default action, so the `finally` of `main()` runs only
after a start that failed (`StartFails`, `MainUnlinkPid`, `MainUnlinkSocket`).
`streams` are the daemons in which an `/api/events` handler waits for an event;
`Close`, the shutdown of the lifespan, comes when there is none. SIGTERM comes
from `ghost stop` or from elsewhere, at any time (`Signal`). Commands are
modelled by what they wait for. `Patient` users type a command only when every
process has settled, `Slow` lets the commands' time limits run out.

**IntentQueue** gives each drainer a place and a batch; nothing marks intents as
taken. `created_at` counts seconds, so `get_pending` may return any `Limit` of
the pending rows, in any order. Failed writes, cancelled drains and crashes are faults.

**EventBus** keeps tasks in creation order, which is the order asyncio starts
them in, and a stream's place between `get()` and `send_json()`. `Kept` filters
a sequence, which is what `unsubscribe` does to a list of handlers; `due[s]`
remembers what was published while stream *s* was subscribed to it.

**ForgeStream** puts `Forge` and `EventBus` together. `publish()` never
suspends, so the step in which a forge reports something is the step that
creates the handlers' tasks (`Tell`); `about` remembers which request an event
is about and what it says. Other parts of the daemon publish as well
(`OtherEvent`). It is one life of the process: the crash of `Forge` is left out,
since the streams and their clients' connections end with it.

**KnowledgeStore** gives every call its fresh uuid4 as identity. Upserts read in
one step and write in another; `OR IGNORE` covers uniqueness and not foreign
keys. A search for neighbours is two queries for each entity it expands
(`QueryOutgoing`, `QueryIncoming`), with other calls between any two of them;
`found` is `[entity_id] + results`, `next` the place of the entity being
expanded, and `Over` the end of a round at `Depth` or `Limit`. The history
variables `stood` and `met` keep the edges between live rows that were there
since the search began and the pairs that were neighbours at some time of it.

**Retrieval** is one request for context. `FtsSearch`, `GraphMatches`,
`NeighborsOut`, `NeighborsIn` and `VectorSearch` are the queries, one per await;
between any two of them `Create`, `SoftDelete`, `Update`, `AddEdge`,
`RemoveEdgesFor`, `StoreVector` and `DeleteVector` change the database. How well
an entity matches is a number; `Ordered` is `ORDER BY ... LIMIT`, with the order
of equal rows left open as SQL leaves it. `Fuse` is reciprocal rank fusion.
Scores are exact: `Unit` is a common multiple of the denominators, and equal
scores may come in either order, which covers what floating-point rounding does
to them. `Pack` and `Overflow` are the packing loop; an entry is its length and
its number of tokens, which the constants `Length` and `Tokens` give. Any
tokenizer will do under which *n* tokens have at most `Dense` * *n* + `Slack`
characters: with tiktoken, the default, `Dense` is the length of the longest
token and `Slack` is 0; with the fallback `len(text) // 4` they are 4 and 3. A
count may raise (`CountRaises`), since tiktoken refuses the text of a special
token. `wasLive` and `wasEdge` are history variables.

The unit of data is small everywhere: a script is a name and a code, a content
is what its hash tells apart, an event is its number, a text is how well it
matches.

## 4. Runs

| Run | What it asks | Bounds |
|---|---|---|
| `writer` | durability, reports, answers to callers and to `stop()`, refinement of `WriteLog` and with it the order | 3 operations, 2 rows, 1 crash: one operation in progress, one ahead and one behind it, and a batch that fails in the middle |
| `tools` | which tools run or are current, whether registered tools have their script, refinement of `HumanInTheLoop` and with it whether a rejection can undo an approval | 2 tools, 2 names, 1 code, 2 clients, 5 requests, 1 crash, 1 failing statement: forge, forge, approve, reject and run overlap in pairs |
| `forge` | slots, truthful and unique reports, charges, answers | 3 forges over 2 slots: one waits; 2 names: two clash; 1 fault |
| `startup` | recorded migrations are complete, a serving daemon has them all, commands find it, nothing left behind fails a start | 3 starts, a migration of two statements and an optional one of one, 2 faults: a start that dies half-way, one that fails or finds a damaged file, one that succeeds |
| `daemon` | one instance, files lead to it, only live processes refuse a start, stop ends | 3 processes, 1 patient user, 2 crashes or signals, 1 PID reused at a time: a crash, a recovery that crashes, a start after both; a start beside one that stops, fails or shuts down slowly; a stream in any of them |
| `intents` | completed means processed, redelivery | 2 drainers, batches of 2 out of 3 intents, 2 attempts, 1 fault |
| `events` | streams complete and in order, `drain()`, what a client is told about a forge | a forge whose events are composed with the bus, 2 events and 1 fault: the request and either outcome, or one of them and an event of another family; 2 streams, one of everything and one of the forge's family; a history of one |
| `knowledge` | watched paths, unique names, neighbours | 3 calls on an empty store or on a project with 4 entities and 3 edges: two overlapping upserts and a deletion, two overlapping watches and an unwatch, or a search with two changes under it; depth 2, limit 2, so that a search ends for either and is cut |
| `retrieval` | results are related, the fusion respects the ranks, the overrun is bounded | 3 entities of the project and a foreign one, 2 writes during the request, 1 or 3 results, a budget that ends in the middle of an entry, entries with as few tokens as their characters allow and with more; constants of the code scaled (`Expanded`, `Fanout`) so that their limits bite on four entities |
| `writer_stop`, `forge_costs`, `intents_retry` | one documented promise each that the code does not keep | the smallest instance that shows it |

Every property of a passing run has a mutant in `PROJECT.json`: the change of
one mapped definition, a bug one could have written, that makes TLC find the
property violated. The mutated forms stand beside the originals in the modules.
Deadlock is not checked: a finished system, with every bound used up, may stop.

Where the properties are careful:

- `NothingUnreported` and `CallersReturn` are about a process that lives; a
  crash loses queued operations, which `ImplementsLog` makes explicit as `lost`.
- `OneEntityPerName` is claimed while no two upserts of one name overlap
  (`raced`), whatever else does; when they do, the name is inserted twice.
- `SingleInstance` is a property of patient use: starts one after the other, a
  command after the last one has settled. Without it, it does not hold (section 7).
- `FilesLeadToDaemon` promises the socket only to a daemon launched while no
  other one lived: a start that fails unlinks the socket path whoever bound it.
- `RefusedOnlyForLive` admits that a start gives way to *any* live process of the
  user that has the PID in the file. The protection against PID reuse
  (`README.md:474`) covers other users' processes, and that it does.
- `StopEnds` excepts a daemon whose shutdown waits for a stream handler: the
  handler sleeps until an event is published, and uvicorn waits for it without a
  time limit.
- `RegisteredHasScript` looks at name and code, not at what else the script's
  header says, and exempts tools whose script a deletion or a second rejection
  of a tool with the same script unlinked.
- `RedeliveryBounded` is the weakest promise that holds without a claim: one
  delivery per drainer, and one for every drain that ended without a mark.
- `ChargedForAnswers` says what is recorded: never more than was answered, and a
  call for every tool that is stored. `README.md:237` promises a record of every
  call; `forge_costs` shows that there is none.
- `ClientsToldTruly` is about forges; nothing rejects or deletes a tool in that
  run, so what the client finds it finds until somebody does.
- `ServesMigrated` excepts the optional migration only where this start's SQLite
  cannot run it: once it can, the migration is applied.
- `ClientFindsDaemon` excepts a path that was shortened after a daemon with a
  long one was killed or stopped: before Python 3.13 asyncio leaves the fallback
  socket, the shutdown removes only the configured path, and the pointer file
  still names the dead socket.
- `StartsUnlessFaulted` counts as a fault what happens during the start itself,
  a PID that was reused among them; what earlier starts left is no excuse.
- `NeighborsAreFound` claims what a search over a changing graph can keep: every
  result was reached over neighbours that were there, and nothing is missed
  across an edge that stood from its first query to its last, unless the limit
  was reached with others as near. The *shortest* distance of the docstring
  (`memory/graph.py:68`) is what this says when nothing changes.
- `OverrunIsBounded` is about characters, not tokens. The context does exceed its
  budget in tokens: heading, separators and marker are not counted, and a
  truncated entry is cut by the average length of its tokens.
- `ResultsAreRelated` does not say *of the project*: the graph and the vectors
  are not filtered by project (see *Met while modelling*).
- `FusionRespectsRanks` compares with entities that have data. Vector results
  without data take a place among the best and are dropped afterwards.

## 5. Fairness

Weak fairness of each coroutine's next step: the event loop runs what is ready
(`Consume`, `ApplyNext`, `Advance`, `RunTask`), an HTTP call returns or times
out (`llm.request_timeout`), `send_json` returns or raises; and weak fairness of
a process that was started (`Step` of `Startup`, the daemons'): the operating
system runs it. A client, a user, a crash and `stop()` owe nothing, and nobody
has to publish the event a stream waits for: `Close` is enabled, and so owed,
only when no stream handler is left. `StopEnds` and `CallersReturn` therefore
assume no more than that the process being stopped keeps running.
`ToolLifecycle`, `IntentQueue` and `Retrieval` state no fairness, since nothing
checked about them needs it. Nothing is assumed strongly fair.

## 6. Proofs

Each proof module proves its invariants for every value of the constants, from
the assumption its component module names. None of the properties is inductive
as it stands; each module has an `IInv` (`BusIInv`, `StreamIInv`) that is,
checked by TLC on the small instance first, and a theorem that it always holds.

**`DatabaseWriterProofs`** (`WriterAssumption`: bounds are naturals, an
operation has a row). That the rows of an answered
operation stay durable needs no more than that `durable` grows, but that a
commit covers the operation being answered depends on where the consumer is
(`Progress`), and that a submission does not renumber or retype an operation in
progress depends on the queue being sorted and above it (`QueueOrder`), with no
row of a queued operation in the database (`RowOrder`). From these follow
`AckedWritesAreDurable`, `WritesTakeEffectInOrder` and `NothingGoesUnreported`.
The refinement (`WriterImplementsLog`) needs one more: because nothing rolls
back, a commit also writes rows that earlier operations left in the transaction;
if one of those were undecided, the commit would decide two operations at once.
`Owned` says that such rows belong to failed operations, and that the operation
in progress has none on disk before its commit. Then a submission is an `Accept`,
the consumer's steps are a `Decide` or nothing, and a crash is `Lose`.

**`ToolLifecycleProofs`** (`LifecycleAssumption`: there is a name, finitely many
clients, `NoTool` is no tool). A request acts on what it read some awaits ago.
`RequestOK` says what still holds at each of its points, `QueueOK` what holds of
the statement it waits for, and `StatusOK` how rows, approvals and pointers
agree. The core of the argument is that a tool that left the quarantine never
returns to it, so that a stale approval or rejection finds its guard in the SQL
statement; a script disappears from `tools/` only with a deletion on record
(`Kept`), which is the exception `RegisteredHasScript` names. `RunsAreApproved`,
`RegisteredToolsHaveScripts` and the action property `ApprovalsAreKept` follow.
The refinement (`LifecycleKeepsPromise`) needs one more, `ApprovedLeft`: what an
approval found was known, and is never in the quarantine again. Without it a
tool whose INSERT failed or was lost in a crash might count as retired, and a
run, which looks at no status and may execute long after it read the pointer,
might execute a quarantined tool. Then requests only execute or erase, the
writer's statement moves one tool one phase on or changes the name it is called
by, or fails and discards at most the tool that was being forged
(`StatementTaken`), and a crash discards all that were.

**`ForgeStreamProofs`** has three parts. The first is about `Forge`
(`ForgeAssumption`: finitely many requests, a slot). `SlotsOK`
relates the permits to the requests in the block and the FIFO of waiters to the
requests that wait; its steps count a request in and out of a finite set.
`RowOK` says what a request has published, paid and stored at each point,
`QueueOK` what each queued operation stands for, and `ChargedFirst` that, while
nothing failed, the cost row precedes the tool's in the queue. They give
`SlotsAreConserved`, `ReportedToolsExist` and `AnswersAreCharged`.

The second is about `EventBus` (`BusAssumption`: the three kinds of pattern
differ, a history of at least one). `StreamedInOrder` says that what a stream
has sent, has queued and still has on its way as tasks is what was
published while it was subscribed, in this order; it needs that
every stream is registered once under its own pattern, and that the patterns of
a topic differ, so that a publication puts exactly one task for each live stream
that covers it behind all others. `BusIInv` adds that no task is newer than
`published` and that `drain()` waits for every task created before its call.
Most of the proof is a theory of `Kept`: what it keeps of a concatenation, of a
tail, of a sequence without repetition. Its recursion is handled by proving that
a function with these values exists and that `Kept` is its last value
(`KeepsExists`, `KeptIsLast`), by an induction stated as *a set of numbers that
has 0 and, with each number, the next one has them all* (`SetInduction`).

The third is about `ForgeStream` (`TopicAssumption`: a topic for each of the
three reports). Every step is a step of `Forge` or none, and of `EventBus` or
none, so all that was proved of the two holds of their composition
(`StreamImplementsParts`). `SaidInOrder` says that what was published about a
forge is what the forge counts as published, the request first and one outcome
at most, and `DueInOrder` that a stream is owed events in increasing order. With
`StreamedInOrder`, what the client was sent is a prefix of what it is owed, and
`ClientsAreToldTruly` follows from `ReportedIsQuarantined` of the first part.

**`StartupProofs`** (`StartupAssumption`: scripts have a statement, and an
optional migration is the last one). `Local` is what a process knows at each
point of the runner: the statements before `stmt` were executed, what it does
not intend to run is recorded, what is behind it is recorded or could not be
run. `NoGaps` says that `schema_version` holds an initial segment, without which
`MAX(version)` would say nothing. The assumption is needed: a migration after an
optional one that was skipped would raise `MAX(version)` above it, and it would
never be applied. A second invariant (`SInv`) follows owner, pointer and sockets
for `ClientsFindDaemons`.

**`RetrievalProofs`** (`RetrievalAssumption`: finitely many entities;
`UnitAssumption`: scores divide exactly). `SourcesRelated` says where the rows
of each source come from at each point of the request; a result with data is in
the text or the graph results, so `ResultsStayRelated` follows. The fusion
theorem is about scores: if every source that has *y* ranks *x* above it, then
`Score(x) > Score(y)`, because a share falls strictly with the rank, and a cut
of an ordered set keeps what precedes. The overrun follows from a bound every
packed entry keeps (`PackedFits`): an entry of *n* tokens has at most
`Dense * n + Slack` characters and brings 7 of separator. Nothing else is assumed of
the tokenizer.

**`IntentQueueProofs`** (`QueueAssumption`: finitely many drainers, positive
limits). Because nothing claims an intent, the argument counts. `Ran(i)` are the
drainers that delivered *i* and have not marked it, `Will(i)` those that have it
in their batch and are still to deliver it. While *i* is pending, each delivery
is lost or of a drainer in `Ran` (`Unmarked`). A row never returns to pending,
so from its first mark on nobody fetches it, and its deliveries and those in
`Will` together stay within one per drainer and the lost ones (`Marked`).
`RedeliveriesAreBounded` follows. `CompletedIntentsWereProcessed` needs that
what a drainer is about to mark was processed (`ProcessedFirst`);
`BatchesAreSettled` needs only the types.

**`DaemonLifecycleProofs`** (`DaemonAssumption`). Typing and `OnlyLiveRefuse`
hold for any use: the PID in the file is that of the process that wrote it
(`PidWritten`), which is not the one that looks. `PatientUseIsSingle` and
`FilesLeadThere` are proved under `PatientUse`: users are patient and there is
one of them, whether or not time limits run out, streams hold up a shutdown,
somebody else kills a daemon or PIDs are reused. Then of two live processes the
second has yet to look at the PID file, or the first has removed it and has only
the socket left to unlink (`OneOwner`). A daemon that is up has its PID in the
file, unless a command removed that after its time limit; then nobody else lives
to see it missing (`Files`), since while a stop is under way one daemon at most
lives, and it was told to end (`Commanded`).

**`KnowledgeStoreProofs`** (`StoreAssumption`: no row is no id, path or entity).
The id a `watch` draws is its own (`Fresh`), so the project under it, if there
is one, has its path (`Linking`), and the foreign key lets it link to no other:
`AnsweredPathsAreWatched`. For `NamesAreUnique`: while no two upserts of a name
overlap there is one at a time (`Alone`), and what it read still holds when it
inserts (`Absent`), since deletions and other names only take away.
`StandingNeighborsAreFound` is about the list a search builds while other calls
change the graph. At each point of the search its list is without repetition,
ordered by distance and connected through `met`; entities before the one being
expanded have all their standing neighbours in it, and the one being expanded
those of the query that has returned. What stood at the end stood at each query,
because `stood` only shrinks; the end of a round and the cut at `Limit` then give
the property.

Model-checked only: liveness (`CallersReturn`, `StopEnds`,
`StartsUnlessFaulted`, `ForgeAnswered`, `EveryEventStreamed`), since fairness and
`ENABLED` are out of the prover's reach. Every invariant, action property and
refinement that a passing run checks is proved. `BatchesAreSettled` and
`ApprovalsAreKept` are proved and have no run of their own: the second follows
from `HumanDecides`, and the first says that an intent leaves a drainer's batch
only when it is settled or the whole drain is given up.

## 7. Findings

Three runs expect a violation; `PROJECT.json` quotes code and document.

1. `writer_stop`: an operation put behind the sentinel is left in the queue.
2. `forge_costs`: a first answer that does not validate, and any answer of a
   forge that fails, is billed and has no row in `cost_records`.
3. `intents_retry`: `reraise=True` makes the queue fallback unreachable.

Met while modelling, in the models as the code does it, without a run of their
own:

- Two `ghostd` started at the same time can both pass the check before either
  writes its PID, and serve over one database (`core/daemon.py:66-85`);
  `README.md:473` says that the PID file prevents it. `MCDaemonLifecycle.cfg`
  with `Users = {u1, u2}`, `Patient = FALSE` and no other property than
  `SingleInstance` shows it.
- A PID file whose PID another process of the same user has got refuses every
  start until that process ends (`core/daemon.py:69`); a container whose `ghostd`
  always has the same PID finds its own. `README.md:474` claims protection
  against PID reuse and means other users' processes.
- A daemon asked to stop waits for its `/api/events` handlers, which wait for an
  event (`api/routes/events.py:34`). `ghost stop` has reported success by then,
  and until the event comes its PID refuses the next start.
- SIGTERM during start-up ends `ghostd` without any clean-up, and the `finally` of
  `main()` after a failed start removes PID file and socket whoever's they are
  (`core/daemon.py:130-132`).
- The context exceeds the token budget of `brain/context.py:8` and `:18`
  (section 4). No caller passes one.
- `get_pending` orders by `created_at`, which counts seconds
  (`001_initial.sql:140`): intents of one second come in any order.
- A forge of a name and code that exist, with other dependencies, overwrites the
  header of the existing script (`synthesis/quarantine.py:95`).
- An approval that lost its script to a racing rejection still becomes the
  current version (`synthesis/registry.py:52`), and a run executes it once a
  script of that name and code exists again.
- A tool with dependencies is stored under the name of its last package: the
  loop over them rebinds `name` (`synthesis/quarantine.py:55`).
- `watch`, `unwatch`, `watch` of one path fails for ever with a foreign key
  error (`api/routes/watch.py:25`); a second `watch` of a watched path answers
  with a `project_id` that is in no table. `ghost watch` itself calls methods
  `GhostClient` does not have.
- A forge whose INSERT fails leaves its script, which may have overwritten the
  script of a quarantined tool with the same name and code
  (`synthesis/quarantine.py:95`).
- A crash between the two writes of `register()` leaves a registered tool that
  is not current; approving again copies a file onto itself, which raises.
- Rows of a failed `executemany` become durable with the next operation
  (`memory/writer.py:136`).
- `check_integrity` runs before the single-instance guard (`core/daemon.py:106`)
  and archives a file whose check merely raises: a second `ghost start` can
  rename the database under a running daemon.
- The pointer file is written and never removed (`core/daemon.py:26`,
  `cli/client.py:35`), and a stop leaves the fallback socket before Python 3.13
  (`core/app.py:186` removes the configured path).
- `check_sqlite_vec` has no caller and `get_connection` loads no extension, so
  the vector migration is skipped and vector search returns nothing unless
  SQLite was built with `vec0`. No caller in the source passes a
  `query_embedding`.
- Neighbours and vectors are not filtered by project: the "project-scoped"
  context (`brain/context.py:5`) can hold entities of other projects.
- `remove_edges_for` and `prune` always report 0: a DELETE returns no rows.
- A stream whose client left stays subscribed until the next event.

## 8. Not modelled

- Reading endpoints, display and the other commands: they change nothing, or are
  one request or file operation.
- HTTP, JSON, SQL text, prompts, templates and API schemas: text that no
  property depends on.
- Configuration and secrets: parsed once, constant afterwards. `config.toml`,
  when it exists, is a constant of a start (`long` is the part that matters).
- `SuspendDetector`, `spawn` and `shutdown` of the task pool: nothing in the
  source starts or calls them.
- Resource limits and the environment of tool processes: the operating system's.
  Prices and floating-point totals of the cost meter: arithmetic on external
  data. Which tokenizer counts is a constant (section 3).
- Ctrl-C of a `ghostd` in a terminal: the commands detach it and send SIGTERM.
- Growth of the unbounded queues, and time: the models have no clock and bound
  every counter.
