# Verification of Miri

TLA+ models of Miri, a Go server that lets chat clients drive an LLM agent with
long-term memory, sub-agents, scheduled tasks and skills.  The models are
checked with TLC and nearly all of their safety properties are proved with TLAPS.  Paths
below are relative to `src/internal` of the repository unless they start
otherwise.

    tlc -workers 2 -config RunSafety.cfg MCSubAgentGateway.tla  # a run
    tlapm SubAgentGatewayProofs.tla                              # the proofs

## 1. The system

A process (`cmd/server/main.go`) owns one `gateway.Gateway`, which owns the
storage, the sessions, the cron manager, the channels, the sub-agent pool and
the primary agent with its engine and brain.  REST and websocket handlers,
channel callbacks, cron runs and maintenance are goroutines that call into
these parts; what they share is guarded by one mutex per part, held for single
accesses only.

| Component | State | Operations | Interacts with | What makes it correct |
|---|---|---|---|---|
| Sub-agent pool (`subagent/pool.go`) | map of cancel functions, run records and transcripts on disk | Spawn, Cancel, execute, fail, injectFact | storage, an engine per run, the orchestrator's brain | the map matches the live goroutines; records only move forward; an outcome is justified, complete and final; every run settles |
| Sub-agent tools and delegation (`engine/subagents/registry.go`, `agent/agent.go`, `engine/eino_engine.go`) | run records, the callers that poll them, a swarm's results | tool call, ReAct loop, SpawnSubAgent, waitForSubAgent, Delegate..., DelegateSwarm | storage, the chat model | the loop ends; an outcome in a record has its whole transcript; callers learn outcomes; swarms are complete |
| Sub-agent API (`gateway/gateway.go`, `api/rest.go`) | none of its own | SpawnSubAgent, CancelSubAgent, reading records | both of the above | all of them agree on what a run is |
| Brain buffer and maintenance (`engine/memory/brain.go`, `maintenance.go`) | messages per session, interaction counter | AddToBuffer, GetBuffer, ClearBuffer, TriggerMaintenance, "/new" | engine, cron, vector store, chat model | whatever is deleted was summarised, or there is a reason why not; maintenance starts in time and ends; "/new" starts fresh |
| Scheduled tasks (`cron/cron.go`, `engine/tools/taskmanager.go`, `gateway/gateway.go`, `storage/storage.go`) | `tasks/<id>.json`, the jobs map, the cron library's entries | add, update, delete, run, start | storage, cron library, agent | file and schedule agree; no orphaned entries; acknowledged changes stay |
| Long-term memory (`engine/memory/retrieval.go`, `vector.go`, `cognitive.go`, `maintenance.go`) | fact and summary collections with metadata | search with write-back, extraction, deduplication, consolidation, cleanup, promotion | buffer maintenance, pool | what was judged a duplicate stays away, no fact twice, nothing known goes out of sight, what was read is kept |
| Memory graph (`engine/memory/mole_syn`) | vertices, edges, their copies in a vector store | adding steps, pruning, strong path | maintenance, retrieval | bounded size; graph, tails, edges and store agree |
| Agent loop (`engine/eino_agent_loop.go`, `eino_graph.go`, `eino_memory.go`, `resilience/retry.go`) | messages and step of a prompt | prompt graph, tool calls, retries | tools, buffer, sessions | calls and results pair up, the question is there, bounded steps and attempts |
| Streamed prompts (`engine/eino_memory.go`, `agent/agent.go`, `api/stream.go`) | three channels between five goroutines | report, forward, send, pass on, read | agent loop, sessions, clients | order, an end to every stream, no send on a closed channel, tokens counted |
| Sessions (`session`) | token counts | GetOrCreate, AddTokens, Clear | agent, REST | counts add up |
| Websocket sessions (`api/stream.go`, `api/server.go`) | connections per session | register, read loop, task reports | cron, agent | a report reaches each open connection once; the process is not lost to a connection |
| Human requests (`api/rest.go`, storage) | `human_pending/<id>.json` | store, list, respond | agent | the answer that was accepted is the one that is kept |
| Gateway configuration, loop, channels (`gateway`, `engine/loop.go`, `channels`) | agents, channel map, polling functions | UpdateConfig, Start, Poll | all | file, configuration, engine and channels agree; nobody is heard whom the configuration does not admit |
| Server process (`cmd/server/main.go`) | the PID file | start, check, write, serve, shut down, remove | operating system | one server per storage directory |
| Dream, CoT graph, topology | results of one call | simulate, detect cycles, score | REST, brain | results match their definition |
| Skills, tools, clients, configuration, dashboard, SDK | files and remote services | single calls | | I/O |

What is hard here: goroutines started and forgotten (`go`) with contexts that
end earlier or later than the work, state read under a lock and used after it,
files overwritten in place (`os.WriteFile` truncates first), errors discarded
after a part of an operation has been done, and two components that write the
same records by different rules.  `PROJECT.json` lists each such place.

## 2. Modules

| Module | Models | Extends or instantiates |
|---|---|---|
| `RunLifecycle` | what a run record promises its pollers (abstract) | |
| `SubAgentPool` | `subagent/pool.go` | implements `RunLifecycle` |
| `SubAgentDelegation` | `registry.go`, the delegation half of `agent.go` | implements `RunLifecycle` |
| `SubAgentGateway` | both, with one storage, one API and one process | instantiates the two above, implements `RunLifecycle` |
| `BrainBuffer` | `brain.go`, `TriggerMaintenance` and its triggers | |
| `CronTasks` | scheduled tasks, in memory and on disk | |
| `AgentLoop` | a prompt: the graph, the ReAct loop, `Retry`, and what they leave in the buffer | |
| `PromptStream` | the goroutines and channels of a streamed prompt | |
| `MemoryStore` | the collections of facts and summaries: retrieval, extraction, `Compact`, background consolidation | |
| `MemoryGraph` | the Mole-Syn graph and its copy in a vector collection | |
| `GatewayChannels` | `UpdateConfig`, the channels and the polling loop | |
| `WebsocketReports` | websocket handlers and task reports over one slice of connections | |
| `ServerProcess` | processes and the PID file | |
| `HumanRequests` | questions to a human and their answers | |
| `Server` | the last four as one specification | extends `GatewayChannels`, instantiates the other three |
| `MCServer` | its parts for TLC, one per behaviour | extends `Server` |
| `MCCronTasks`, `MCAgentLoop` | symmetry sets for TLC | the module of that name |
| `MCSubAgentGateway`, `MCBrainBuffer`, `MCMemoryStore`, `MCMemoryGraph` | parts, scopes, stores and analyses for TLC | the module of that name |
| `SubAgentGatewayProofs`, `CronTasksProofs`, `PromptStreamProofs`, `BrainBufferProofs`, `AgentLoopProofs`, `MemoryStoreProofs`, `MemoryGraphProofs`, `ServerProofs` | theorems | the module of that name, TLAPS |

Operators with a name like `Deregister_Leaks` are faulty variants of the
definition they are named after.  No specification uses them; they exist to
show that each property fails when the code does.

### Sub-agent runs

A run is identified by a uuid and lives in `subagent_runs/<id>.json`.  In both
modules `file[r]` is what that file says (`"torn"` if it does not parse),
`mem[r]` the `Status` field of the struct its goroutine works on, `logged[r]`
the roles that have a line in the transcript, and `pc[r]` where the goroutine
stands.  A step is what happens between two points where somebody else can see
a difference: a save (under the storage mutex), a transcript line, a critical
section on `Pool.mu`, a call of the engine or the model.  A save may fail
before the file is opened or after it was truncated; the code discards most of
these errors, and `lossy` remembers the runs that suffered one, so that the
properties can say "unless a write failed" and mean only that.

* `SubAgentPool`: `SpawnPersist`, `SpawnLaunch` (Spawn), `CancelLookup`,
  `CancelFire` (Cancel: the function is called after the lock is released, so
  a cancel can reach a run that has just ended), `CallerDone` (the context
  given to Spawn ends), and the nine steps of `execute`, which include `fail`
  and `injectFact`.
* `SubAgentDelegation`: the wrapper's save, transcript and goroutine
  (`Persist`, `Launch`, `LogAnswer`, `SaveOutcome`), the ReAct loop
  (`CallTools`, `ModelAnswers`, `ModelFails`), and on the caller's side
  `Delegate`, `Poll`, `Expire` and the swarm.  `Returned(r)` is the id the
  caller gets: the pattern that reads it out of the tool's answer takes the
  closing parenthesis along, so it is a pair no run id equals.  `Poll` loads the
  record of that id, which is never there, and so the caller goes on polling; the
  branch of `Verdict` for a failed run is the code's, and is never reached.
* `SubAgentGateway`: the two side by side.  `PoolStep` and `ToolStep` are their
  steps; `Crash` stops both at once and tears at most one file of the directory,
  because one mutex serialises all saves.

### The message buffer

`buffer[s]` is the list of messages of session `s`, `count` is
`interactionCount`.  A prompt adds its question (`Ask`) and its answer
(`Answer`); maintenance goroutines (`Workers`) go from `ListSessions` over
`Visit` (GetBuffer), one of the four outcomes of Brain.Summarize, and `Clear`
(ClearBuffer) to `StartCompact` (which resets the counter) and `EndCompact`.  The
outcomes: the summary is stored (`Summarize`), the model fails (`SummarizeFails`, the
only one after which the buffer is kept), the Add of the summary fails and its error
is discarded (`SummarizeStoresNothing`), and there is no memory for summaries, so that
Summarize returns nil at once (`SummarizeSkipped`).  `memories` are the vector
memories the engine could open when it was made; with one of them missing, Compact
returns before it resets the counter.  The goroutines are started by
`AddToBuffer`, by high context usage (with the context of a request, which may
end: `RequestOver`), by cron and by "/new" (`Renew`, then `ClearHistory`).  The
variables `summarised`, `unstored`, `late`, `lost`, `lag` and `resets` are history,
read by the properties only.

### Scheduled tasks

A task struct is its id, a version that stands for its content, its `Active`
flag and whether its cron expression parses.  `file[t]` is its file, `jobs[t]`
the entry `CronManager.jobs` has for it, `entries` the entries of the cron
library, each known by the struct its closure holds.  Tool calls take a step
under the storage lock and one under the cron manager's (`AddSave` or
`UpdateSave`, then `Schedule`; `DeleteFile`, then `Unschedule`), a run takes
`Fire`, `Prompted` and `RunSave`.  `Restart` is the death of the process at any
point, perhaps within a save, followed by `CronManager.Start`.  `deleted`,
`contended` and `lossy` are history.

### Prompts

`AgentLoop` looks at one session.  `buffer` is its message buffer and `pc[p]`
the stage of the goroutine of prompt `p`.  `msgs[p]` holds, of the conversation
the loop sends to the model, the messages of `p` itself in their order; those of
other prompts in the history and those of the system do not matter to the
properties.  `unsent[p]` holds the messages still to be added to the buffer,
one `Push` each.  `Ask` adds the question, `Load` copies the buffer and appends
the question unless it is the last message (the retriever and the skills of the
default session may have put a system message after it), then follow
`RequestTools` or `ModelAnswers`, `Manage` (calls the loop runs itself),
`Invoke` or `InvokeFails` (the tools node), `FinalAnswer` when the steps are
used up, and `Deliver`, the brain node.  `Retry` is an attempt that failed with a
transient error.  `Chosen` is `SelectSeq` as a recursive function, which the provers
can expand.  Prompts have different texts, and the calls of one answer have
different ids.  With `Intercepted = {}` the model is an engine without gateway.

`PromptStream` looks at one streamed prompt: the loop's reports go over
`verbose`, the forwarder and `out` to the goroutine of the agent, which sends
them on over `proxy` to the handler.  Channels are sequences with a capacity; a
send that would wait is an action that is not enabled, a `select` with a default
is an action with two outcomes.  `Leave` is a client that stops reading.

### Long-term memory

A collection is a set of document ids; what a document says is a set of topics,
a function of its id, for no code changes a text in place.  `marked[c]` are the
documents whose metadata is `{"deprecated": "true"}` and nothing else (marking
replaces all of it, so that a marked document has no type), `used[c]` those
with an access count.  A collection is guarded call by call, so each call of
`VectorMemory` is a step: `SearchFacts`, `SearchSummaries` and one `WriteBack`
for each result (`RetrieveDocuments`); `CheckDuplicate` and `AddFact`
(extraction and promotion); `Summarize`, `Reflect`, `StoreFact`; and the phases
of `Compact`: `ListFacts` and `ListSummaries` at the start, `Judge`, `MarkOne`
and `DeleteOne` for each of the three deduplications, `Consolidate`, which
starts the background `Consolidation` jobs and goes on, `ListFresh`,
`CleanOne`, `Promote`, `Refetch`.  `HomeOf` is the collection an update goes to:
what is not of type `fact` goes to the summaries, the results of sub-agents too.
`Crash` ends everything under way and loses nothing that is stored.  What says
the same is a matter of the model's judgment; the specification lets it call
duplicates only documents that say the same (`Judgments`), so that what goes
wrong is the code's doing.  `judged`, `restored`, `exposed`, `retrieved`,
`raced`, `atRisk` and `residue` are history.

### The memory graph

A step is the number of its uuid, so that "older" is "smaller".  `live` and
`edges` are the maps `vertexData` and `edgeData`, `vertices` and `arcs` the graph
of the library, which refuses an edge it has and does not remove a vertex with
edges (`Stuck`), `saved` the vector collection.  `AddSteps` is
`AddStepsFromAnalysis` under its lock, pruning included: ids repeated by the
model, bonds to unknown steps, the edge from the tail of the session, the excess
of a cyclic session.  Saves and deletions are goroutines (`Save`, `SaveFails`,
`DeleteStored`).  `Restart` rebuilds everything from the collection, or from
nothing when listing fails.  `StrongPaths` is every path `GetStrongPath` may
return, `Topology` what `GetTopology` serves, `Shown` the steps of a path a prompt
is shown.

### The server

* `GatewayChannels`: `SaveConfig` is the file that `handleUpdateConfig` writes
  first; `SaveConfigFails` is a save that fails before the file was opened, after it
  was truncated (`Truncated`) or when all of it was written, upon which the request is
  refused and the gateway not told.  `Init` is `New`, in which the engine or the WhatsApp client may fail, as they
  may in an update (`failed`).  After the save follow the steps of `UpdateConfig`, which
  holds no lock:
  `SetConfig`, `InitEngine`, `StopChannels`, `ClearChannels`, and for each channel
  `MakeChannel` and `SetHandler`, or `SkipChannel`.  `client[c]` is one `Whatsapp`
  or `IRC` value with its own copy of the lists and its connection; `polled` are
  those the loop has a function of, which only `New` registers.  `Poll`,
  `Connect`, `Disconnected` (after which a paired WhatsApp client connects again by
  itself), `Enroll` and `Receive` meet an update between any two of its steps.
* `WebsocketReports`: `array` and `len` are the slice `s.wsSessions[sessionID]`
  with its capacity.  `Register` appends, in place or in a new array; removal is
  `slices.DeleteFunc` element by element (`BeginRemove`, `MoveOne`, `EndRemove`)
  under the lock; a report copies the slice's header (`BeginReport`) and reads its
  elements without the lock (`WriteReport`).  A second writer of a connection
  panics: recovered in a handler, not in a cron goroutine (`crashed`).
* `ServerProcess`: `main` from the check of the file to its removal.  `holders`
  are the processes whose open file is the one at the path, for a process that
  has opened the file goes on writing to it after another has removed it.  PIDs
  are used again (`Start` of an ended process, `Reuse` by a stranger).
* `HumanRequests`: an answer reads and checks (`ReadQuestion`), truncates
  (`Truncate`) and writes (`WriteAnswer`) without a lock; who asks is outside this
  repository's code (`Ask` is external).
* `Server` puts the four together: they share no variable, and their steps come in
  any order.

## 3. Runs

Passing runs.  Every property of theirs has a faulty variant that violates it
under the same configuration.

| Run | Checks | Bounds |
|---|---|---|
| `RunSafety` | `CancelMapExact`, `CanceledOnlyIfAsked`, `FactHasDoneRecord`, `DoneHasTranscript`; `OutcomeHasTranscript`, `JoinedSwarmIsComplete`: map and goroutines agree, every outcome and fact is justified, swarms are complete | 2 runs of the pool, or 2 of the tools with 2 steps and swarms of 1 or 2; all faults |
| `GatewayRecords` | `ImplementsLifecycle`, `AcceptedRunSettles`: pool and tools together implement `RunLifecycle`, and every accepted run settles | 1 run each, 2 steps, saves fail, crashes |
| `BufferSafety` | `LossesAreExplained`, `MaintenanceIsTimely`, `MaintenanceEnds` | 2 sessions, cap 2, trigger every 2; two goroutines, one prompt and 1 renewal, with both memories or none; or one goroutine and two prompts, with a memory for summaries |
| `LoopSafety` | `CallsAreAnswered`, `QuestionIsPresent`, `BufferHoldsTheEnd`, `OpenCallsHaveAReason` | 2 prompts, 2 calls (one intercepted), 2 steps, 2 attempts, cap 3 |
| `StreamDelivery` | `ReceivedInOrder`, `NoSendAfterClose`, `ServedMeansResult`, `StreamEnds`, `AnswerIsCounted` | 3 reports, capacities 1, 2 and 4 |
| `CronSafety` | `OneEntryPerTask`, `RestingTasksAgree` | 1 task, 2 calls and 2 runs at a time, 3 structs, failing saves, restarts |
| `MemorySafety` | `ExposedOnlyIfRestored`, `DuplicatesWereRaced`, `OnlyResultsAreMisfiled`, `NoMarkIsLeft`, `KnowledgeKept`, `RetrievedIsSpared` | 11 stores of two documents, each with up to three of two retrievals, a writer and two Compacts, with or without failing embeddings; 4 ids, 1 topic, 1 crash |
| `GraphSafety` | `SessionsAreCapped`, `QuietStoreMatches`, `TailIsNewest`, `EdgesHaveEnds`, `PathFollowsBonds` | 2 sessions, 4 analyses (a step, a chain, a cycle, a repeated id), cap 2, 5 steps, 1 restart |
| `ServerSafety` | `ChannelsMatchConfig`, `StrangersComeByOldClients`; `ReportsReachAll`, `CrashNeedsARace`; `FileNamesTheServer`; `AcceptedAnswerStands` | 2 updates, 2 configurations, 4 clients, failing saves and parts; 3 connections, 2 reports, 1 prompt; 3 PIDs; 3 answers to 2 questions, 1 list |

Why these bounds are enough.  Runs do not touch each other except through the
storage mutex, the one crash and the swarm: two of them show every pair of
steps that can interfere.  Two maintenance goroutines are enough for one to
clear what the other has read.  `MCBrainBuffer` looks at them with the sessions of
one prompt and at one of them with the sessions of two, because liveness over
both together is more than TLC can do in minutes; the two safety properties are
proved without any bound.  `MCSubAgentGateway` looks at the runs of the pool or at
those of the tools, whose steps touch nothing of each other's; `GatewayRecords` has
one of each.  A task interferes with another one only in `Restart`,
which treats each by itself; two calls and two runs show every overlap of two
actors, and three structs allow an add and two updates.  `MaxSteps`,
`MaxAttempts`, `MaxSubtasks`, `MaxBuffer` and `TriggerEvery` are constants of the
code (50 for sub-agents and 12 for prompts, 3, 5, 200, 50) made small.  Two
prompts are the fewest that interleave, and a buffer of 3 is overrun by one of
them alone.  With a report channel of 1 and `out` of 2, three reports fill both;
the proxy channel of 4 just holds three reports and an answer, which is what
`AnswerIsCounted` needs of the code's 100.

In `MemorySafety` the limits of the code (10 facts, 5 summaries, batches of 5, 5
and 3 results) are 1, 1, 2 and 2, so that two documents pass each of them and go
through all phases; what goes wrong between two actors takes two documents that
say the same, one that is not a fact, or a batch.  Each store is given the calls
that can meet on it; three at a time are enough for a retrieval between two
Compacts, or for a fact added between a retrieval and a Compact, and those with
failures have one or two.  In `GraphSafety` the cap of 50 is 2 and the excess of a
cycle 1 instead of 5: two analyses reach the cap, and a cycle passes it.  Five steps
are three analyses of one session, or two sessions that prune one after the other.
The four parts of `Server` share no variable and no property speaks of two of
them, so that a behaviour of `MCServer` is one of a single part, chosen at the start.  Two
updates, one after the other, leave two generations of old clients; `Bounds` does
not go on from states in which updates have overlapped, for the properties speak
of those that have not, and overlapping is never undone; nor does it look at
three connections and two reports at a time, either of which is enough to skip a
connection, to write to one twice or to have two writers.  Three processes are
one that serves, one that starts and one that has left its file behind.

`MaxCalls`, `MaxEvents`, `MaxRenewals`, `MaxVersion`, `MaxPromoted`, `MaxNodes`,
`MaxClients`, `MaxPrompts`, `MaxCrashes` and `Doc` bound the calls of one answer,
the reports and prompts, the "/new" commands, task structs, promoted facts,
steps, clients, crashes and document ids, and have no counterpart in the code.

Runs that end with a counterexample.  Each states what a comment, an answer to
the client or the README says, and shows that the code does otherwise.

| Run | Says | Does |
|---|---|---|
| `DelegationWait` | SpawnSubAgent "Returns the run ID on success" (`gateway.go:395`) | it returns the id with a `)`, so the record is never found; besides, the waiter waits for `completed` while `done` is written |
| `BufferLoss` | "Clear buffer after successful summarization" (`maintenance.go:102`) | `Summarize` succeeds and stores nothing when there is no summary memory (`cognitive.go:120`, the run's counterexample) and when its Add fails (`cognitive.go:150`); the messages are deleted all the same |
| `CronDelete` | "Task deleted successfully" (`taskmanager.go:170`) | a run under way writes the file again |

### Met while modelling

Without a run of their own, either because the code says nothing else about it or
because it takes no model to see.

Sub-agents:

* "Cancel a running sub-agent" (README:179) does not reach runs started by
  `SpawnSubAgent`: `CancelSubAgent` (`gateway.go:411`) asks the pool, which does not
  know them and refuses;
* Cancel "stops a running sub-agent by ID" (`pool.go:70`), but the engine's graph
  runs under a context of its own (`eino_memory.go:92`) and `execute` consults the
  run's context only on errors: a cancelled run may be recorded as done
  (`pool.go:126`);
* runs of the tools are never recorded as `running` (README:155), and their
  results are not injected as facts (README:151), which only the pool does.

Buffer and prompts:

* "Clear buffer after successful summarization" (`maintenance.go:102`) clears the
  messages that came in since the buffer was read, too, summarised or not (`late`), and
  those of a summary that was not stored (`unstored`, `BufferLoss`);
* "/new" starts maintenance in a goroutine and clears the buffer at once
  (`agent.go:90`), although the function it starts is "Synchronous maintenance to
  ensure buffer is processed before clearing" (`eino_memory.go:328`);
* the answer of a prompt under way at "/new" lands in the renewed session
  (README:650), and its tokens in the counters that were just cleared
  (`session.go:56`);
* the write threshold is 50 messages (`brain.go:162`), not 100 (README:94,
  README:247);
* the loop adds the question "if not already there" (`eino_agent_loop.go:62`) but
  looks at the last message only: after retrieved memories or the skills of the
  default session it is sent twice;
* the cap and a clear may cut the buffer between a request and its results, so that
  a history begins with results of calls that are not in it; a failing tool and a
  final answer that still asks for tools leave calls without results;
* nothing interrupts the graph, so that the resumption from checkpoints of README:115
  never takes place: the code only ever deletes them;
* if the client of a stream leaves with more than 100 chunks to come, the
  goroutines behind it wait for ever and the tokens are not counted
  (`agent.go:205`); the handlers leave their loops the same way (`stream.go:124`,
  `stream.go:234`);
* `resilience/retry.go:68` compares a lowercased text with `EOF`.

Long-term memory:

* duplicates are marked before they are deleted so that nobody is given one
  meanwhile (`maintenance.go:352`), but a retrieval that has read one before writes
  it back with its old metadata, marked or deleted (`retrieval.go:158`), and later
  searches return it: `ExposedOnlyIfRestored` states what is left;
* the context of a background consolidation is cancelled when `Compact` returns
  (`maintenance.go:465`): the consolidated summary is not stored, the error is
  discarded, and the batch is deleted all the same;
* one `Compact` alone may lose a topic: its fresh list may hold a consolidated
  summary and the documents of a batch still being deleted, of which it may keep
  the latter as primary; or the list made at the start serves when the facts
  cannot be listed again (`atRisk` has both);
* the same may happen from one `Compact` to the next: a summary is deleted as a
  duplicate of another that a consolidation is still deleting, or that is old enough
  for cleanup (`Shaky`).  It takes a chain of two consolidations, more than the
  stores of `MemorySafety` hold, and was met in the proof of `KnowledgeKept`;
* a sub-agent's result, of type `subagent_result`, is copied to the summaries by its
  first retrieval, and cleanup deletes this copy, the one with the access count,
  when it dooms the other (`maintenance.go:217`);
* no fact has a confidence below 0.7, so that the cleanup of those below 0.5 never
  finds one; the facts that are promoted come in no insertion order;
* `BulkAdd`, `Export` and `Import` have no caller;
* "per-session node caps prevent unbounded graph growth" (README:80, README:252,
  README:382) holds of `vertexData`; the library refuses to remove a vertex with
  edges (`memory_graph.go:630`), so that its graph keeps nearly all of them;
* a cap below 5 makes pruning a cyclic session panic, and a cap of 5 wipes it
  (`memory_graph.go:623`): the configuration may say so, and `CapAssumption` leaves it
  out.  The setup writes 50; 0, for no cap, behaves as a cap that is never reached;
* `GetStrongPath` reads `edgeData` without the lock (`memory_graph.go:368`), and saves
  run under the context of a request that may be over.

The server:

* `handleUpdateConfig` answers "config updated" (`rest.go:44`) when the engine or the
  WhatsApp client could not be made, too: the old engine goes on, the channel is
  missing, and the log says so;
* a save of the configuration that fails may leave a truncated `config.yaml`
  (`config.go:353`): the request is refused and the gateway goes on as before, but the
  next start does not find the configuration;
* the channels an update makes are not registered with the loop: a new IRC client
  never runs until it is enrolled, and the functions of the old clients stay, so
  that a client that was stopped connects again and admits whom its old lists
  admit (`gateway.go:272`): `StrangersComeByOldClients` states what is left.  The
  loop starts the blocking `Run` of IRC at each tick;
* an update replaces the engine and with it the brain: what was in the old buffer is
  not summarised, and the agents of the pool keep the old brain;
* a report and a handler may write to one connection at a time, which panics; in
  the goroutine of a cron run nothing recovers it (`server.go:121`);
* a process that finds its own PID in the file gives up (`main.go:89`): in a container,
  where the server is PID 1, it does not start again after it was killed.  A second
  server that passed the check only logs that it cannot bind the port;
* a cron run under way overwrites an acknowledged update with the struct it
  started from (`cron.go:140`), and a task that is added or updated as inactive
  is scheduled all the same (`gateway.go:375`, `taskmanager.go:71`); deleting a task
  whose file is gone returns before the schedule is changed (`gateway.go:379`);
* a simulated path of the dream simulator that failed scores -1 and a short valid
  plan may score less, so that nothing is kept of the run.

### Fairness

Liveness is claimed under weak fairness of the program's own goroutines and of
nothing else: a goroutine that can take a step takes one, because the Go
scheduler is preemptive, mutexes are held for single file or map accesses, and
every engine or model call has a deadline (30 minutes for `Respond`,
`eino_memory.go:92`; the wrapper's timeout for a tool run; 1 to 5 minutes for
each maintenance operation).  `GatewayRecords`, `BufferSafety` and `StreamDelivery`
check it.  Nobody is obliged to spawn, cancel, prompt, renew
or crash, and a model is never obliged to stop asking for tools.  In
`PromptStream` a client that has not left goes on reading; that it leaves is never
ruled out.  `MemoryStore`, `MemoryGraph` and the parts of `Server` have safety
properties only: their loops go over finite lists.

### Deadlock

`RunSafety`, `GatewayRecords`, `BufferSafety`, `LoopSafety` and `CronSafety` check for deadlock.  With crashes or restarts among the faults one of
them is always possible; in `BrainBuffer` cron can always start maintenance, and
with all workers busy one of them can go on; in `AgentLoop` the buffer can always
be cleared.  The other passing runs do not, for there everything comes to an end:
a prompt is over (`StreamEnds` says that it is over in the right way), every call
on a store has returned, the ids of steps are used up, and a process that ended or
crashed takes no step.  The runs that look for a counterexample are stopped by it
and leave deadlock alone.

## 4. Proofs

Every safety property of the passing runs, the action properties among them, is a
theorem, and so is the refinement of the sub-agent records.  The theorems hold for
any finite or infinite sets of runs, callers, tasks, slots, sessions, prompts, calls,
documents, clients, connections, processes and questions, every value of the bounds,
and every set of faults.  Their only assumptions are the `ASSUME`s of the modules,
which TLC evaluates:

* the faults are among the known ones, and the bounds are numbers, positive where the
  code needs it;
* the cap of a graph exceeds the excess of a cycle (`CapAssumption`), and an analysis
  is two lists (`AnalysisAssumption`);
* an earlier process has left documents in the collection of their type
  (`SeedAssumption`);
* the calls the loop runs itself are calls (`InterceptedAssumption`);
* a configuration enables known channels, the cron runs that report are finitely
  many, and the marks for "no client", "no file", "torn" and the like are none of the
  values they stand beside.

Module by module:

* `SubAgentGatewayProofs`.  First `subagent.Pool`: `PoolTypeCorrect`; `PoolIsSafe`
  (all safety properties at once); `PoolImplementsLifecycle`.  The properties are not
  inductive: that a record shows an outcome says nothing about the step the goroutine
  is at.  `PoolInv` adds what each stage of the goroutine implies: a run is pending
  when it is born, `mem` is open while the goroutine works and decided from `saving`
  on, `file` shows an outcome only in the stages after the last save, the transcript
  is complete before `saving`, and a fact exists only after that save.  With it each
  save moves the record along `Forward`, which is the refinement.  Then the tools:
  `ToolTypeCorrect` needs `StepBelowMax` (the loop is left by the last step, so that
  the counter stays within its budget), `DelegationImplementsLifecycle` the stages
  again.  Last the two in one process: `GatewayRunsBoth` says that a behaviour of the
  gateway is one of the pool and one of the tools, which carries over what each
  promises (`CancelMapIsExact`, `FactsHaveDoneRecords`, `CancellationsWereAsked`,
  `DoneRunsHaveTranscripts`, `OutcomesHaveTranscripts`, `JoinedSwarmsAreComplete`, the
  last with `SwarmResults`: a result is sent only for a
  settled subtask, and a joined swarm has all of them).
  `GatewayImplementsLifecycle` does not follow from the two refinements alone, for a
  crash is a step of both: it needs that such a step tears at most one file of the
  directory (`RecordsStep`).  `OutcomesAreFinal` follows from it.
* `CronTasksProofs`.  `TypeCorrect` and `EntriesAreNotOrphaned` need that a file
  holds a struct of its own task, for an update takes its id from the file.
  `RestingTasksDoAgree` speaks of tasks that are neither contended nor lossy nor
  in a call; it becomes inductive with `Calm` and `Settled`: a task that was
  never contended has one actor at most, and what that actor holds is what the
  file and the entry say, as far as it has come.
* `BrainBufferProofs`.  `LossesHaveAReason` needs that a goroutine holds a
  session from reading its buffer to clearing it (`HoldsSession`), that all the
  buffer has by then was read or came in late (`ReadOrLate`), and that what a goroutine
  that is about to clear has read went through a Summarize that returned nil, with a
  stored summary or without (`ClearsSummarised`).  `TriggersAreTimely` rests on
  `LagIsCounted`: the messages since the last maintenance are at most a threshold
  for each reset and the counter modulo the threshold, which takes the arithmetic
  of `%` in two lemmas.
* `AgentLoopProofs`.  `ModelSeesEveryAnswer`, `ModelSeesTheQuestion`,
  `BufferKeepsTheEnd`, `OpenCallsAreExplained`.  The first third is about `Chosen`:
  what it gives for the end, a part or the rest of a sequence, by induction over its
  length (over a set of numbers, which the library's theorem on well-founded relations
  allows).  `LoopIInv` says of each prompt where its results are: in the sequence sent
  to the model each call of a request is followed by its result once, or, if the stage
  says that it is still to come, not at all (`Tidy`, `ToGet`), and what the stage asks
  for is the request of this step (`Asks`); the buffer, with what is still to be
  pushed, is the end of what was said (`Ends`, `Said`), and tidy as well.  The steps
  of one prompt leave what the buffer holds of the others, but for what the cap or a
  clear cuts off at the front (`Elsewhere`).
* `PromptStreamProofs`.  `ClosedChannelsAreQuiet` holds for every number of reports
  and all capacities.  The invariant `ClosingOrder` is the order in which the
  goroutines go: loop, forwarder, responder, proxy.  `StreamIsInOrder` needs more
  than the order of what the client has got: `OrderIInv` says that the six places a
  chunk can be in, from the client back to the loop (`Stages`), are each in order and
  that one place comes before the next, that an event is one of the reports made so
  far, and that no result is on its way before the forwarder has ended.  What a
  forwarder that gave up leaves in verboseCh is not a stage any more: the result
  would otherwise overtake it.  `ServedClientsHaveTheResult` counts: what was sent on
  `out`, read from the client on (`Sent`), ends with the part of the result that is
  due at this stage (`ResultIInv`), and the usage went to the counters.
* `MemoryStoreProofs`.  Everything rests on one invariant `Inv`: a document is
  filed by its type and its id is taken (`Filed`), so that no fresh id is one that
  was judged or is held by a retrieval; what was judged a duplicate is gone, marked,
  or known to have been written back (`JudgedIsHidden`), which gives
  `ExposureIsExplained`; and what is marked will be deleted by the Compact that
  holds it (`MarksAreHeld`, with the stages of a deduplication in `Staged`), which
  gives `NoMarkStays`.  `MisfiledAreResults` follows from `Filed`.  Three more theorems
  have an invariant of their own on top.  `RetrievedDocumentsSpared`: a document
  that was read is counted as such in its own collection (`Accessed`), so that cleanup
  does not doom what it saw read (`SparesSeen`).  `DuplicatesComeFromRaces`: who is
  about to add a fact is the only one and there is none yet (`CheckedOnce`), until
  checks overlap or fail.  `KnowledgeIsKept`, the longest: what a Compact that is
  alone has before it, in the list it has made, the duplicates it has judged and the
  batches its consolidations are deleting, is told by another document that stays
  (`Covered`, `PoolCovered`, `DupsCovered`), with the exceptions the property names.
* `MemoryGraphProofs`.  `CapIsKept` counts what pruning leaves; that the set of the
  oldest steps has the size it should is proved from the order of the ids with
  the theorems on finite sets.  `TailsAreNewest` needs that the cap leaves at least
  one step, `TopologyIsClosed` that an edge has its ends in memory or is a widow of
  a restart (`EdgesAreLive`), and `StoreFollowsGraph` that every step is accounted
  for by the goroutines, the collection or an exception (`StoreIsAccounted`).
  `PathsFollowBonds` is an induction over the steps of the walk (`WalkOn`); that a step
  without a known edge has none at all needs that the library's graph has every edge
  of `edgeData` but the widows (`EdgesAreDrawn`).
* `ServerProofs`.  `UpdatesAgree` follows from `Progress`: what a call of
  `UpdateConfig` has done by each of its steps, what it could not make, and that a save
  that failed has changed nothing but the file.  `StrangersAreExplained` needs that
  a client with a connection is owned by the gateway, known to the loop or late
  (`OldClientsAreKnown`).  `AnswersStand`: a question whose answers never met has one
  handler at most, and its file is as that handler left it (`Calm`).  `ServerIsNamed`:
  only one process at a time believes the file to be its own (`Owners`,
  `Claimants`), unless two starts crossed.  `ReportsArrive` follows the array of the
  slice element by element: it lists the open connections but the one that is leaving
  (`Listed`, `Removing`), a report stays in the array it has copied (`InRange`), and one
  that no removal met has been sent to the elements before its index, which are
  those that were open at its beginning (`SentSoFar`, `HoldsDue`).  `CrashesAreRaces`
  rests on the same.  `ServerIsSafe`: `Server` keeps all six, in whatever order the
  steps of its parts come.

Only model-checked: liveness under fairness (`AcceptedRunSettles`, `MaintenanceEnds`,
`StreamEnds`, `AnswerIsCounted`), which is outside the reach of the prover, and that
there is no deadlock, which is a matter of what is enabled.  The three counterexamples
are runs of their own.

## 5. Not modelled, and the plan

Parts of modelled components that are left out, each because nothing checked here
depends on it or because it is not TLA+'s kind of thing: the ranking of retrieval and
the counters in its metadata (other than whether a document was retrieved); the race
of Count and Query inside a search; the transition counts of the graph, which are
never read; prompts to models and the parsing of their answers, token sums and
traces; server-sent events (they read the channels `PromptStream` models); the IRC
and WhatsApp protocols; the parallel researcher and coder (two delegations and a
join); startup and shutdown maintenance (the same goroutine as the other triggers).

Components that are not modelled:

* Checkpoint store: no checkpoint is ever written.
* Sessions: two counters and a session that is never deleted, each changed in one
  critical section.
* Dream simulator: workers that share a result slot each and are joined; what
  matters is floating-point scores.
* Chain-of-thought graph and topology scores: sums of weights over texts, in one
  goroutine.
* REST handlers other than those named above: decoding and rendering around calls of
  the components.
* Storage operations other than those used above: whole files under one mutex.
* Tools that are single calls to the file system, a process or the network, the model
  client, the embedder, configuration, the parsing and downloading of skills,
  dashboard, SDK and templates.

What would come next, in this order:

1. `MemoryStore` composed with `BrainBuffer`, so that a summary is stored where the
   buffer module now only says whether it was.
2. Liveness of `Compact`, once a bound on the jobs it leaves behind is stated.
3. The handlers of `api/rest.go` that touch two components, as far as two calls can
   meet there.
