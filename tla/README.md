# TLA+ models of quant_toolkit (pseud)

This directory holds formal models of the agents of the repository, alone and in swarms:
what it does when threads, files, cancellations, retries and crashes interleave. The modules
are checked with TLC on small instances, and the theorems in the `*_proofs` modules are
proved with TLAPS for every value of the constants. Source paths below are relative to the
repository root; line numbers refer to the commit the models were written from.

## 1. Inventory of the system

| Component | State it keeps | Operations | What is hard about it |
|---|---|---|---|
| Task graph (`swarm/task_store.py`) | none (pure) | `validate_dag`, `topological_layers`, `resolve_dependencies` | the two graph algorithms must agree: the second runs in a thread nobody watches |
| Swarm coordinator (`swarm/runtime.py`) | run and tasks in memory, cancel events, one thread per run, one pool per layer | `start_run`, `cancel_run`, `_execute_run`, `_execute_layer`, `_run_worker_with_retries` | layer deadline against late workers, cancellation between layers, a partial failure while settling, three copies of a task's status |
| Task files (`swarm/task_store.py`) | `tasks/task-*.json` | `save_task`, `load_task`, `update_status`, `load_all` | load-modify-save with a lock per instance; replace through a shared `.tmp` name |
| Run store and recovery (`swarm/store.py`) | `run.json`, `events.jsonl` | `create_run`, `update_run`, `hydrate_run`, `reconcile_run`, `reap_stale_running_runs` | the sweep runs in another process than the host and takes no lock; each half can die |
| Swarm worker (`swarm/worker.py`) | messages, counters, `artifacts/<agent>/` | `run_worker` | many ways out of one loop, each of which must report tokens, summary and status |
| Agent loop (`agent/loop.py`) | messages, run state, trace, cancel flag | `run`, `_process_tool_calls`, `_batch_execute`, `_invoke_tool`, `_auto_compact` | parallel read-only tools, tool timeout against late result, compaction must keep call/result pairs |
| Progress, trace, run state (`agent/progress.py`, `agent/trace.py`, `core/state.py`) | heartbeat thread, `trace.jsonl`, sidecars, `state.json` | emit, flush, save | heartbeat after the result, crash before a flush, in-place writes |
| Goal ledger (`goal/`) | SQLite tables | create, update, account usage, evidence, completion audit | one active goal per session, optimistic versions, budgets |
| Persistent memory (`memory/`) | Markdown entries, index, archive | add, remove, find, reinforce, garbage-collect | file lock, index against entries, read-modify-write of frontmatter |
| Grounding (`agent/grounding.py`) | identity records, evidence | `authorize_tool_call`, `ingest_tool_result`, `validate_final_answer` | the ledger changes while a batch frozen against it is executed |
| Providers, tools, config, presets, statistics | none that several steps share | | conversions and external services |

How they interact. `start_run` first sweeps the run directories (`reap_stale_running_runs`),
builds and validates the task graph, creates the run on disk and starts a coordinator
thread. The coordinator hands each layer of the graph to a thread pool; each pool thread
runs `run_worker` up to `max_retries + 1` times, each of which calls the model and the
tools. Results come back through futures, are written to task files, and at each layer
boundary the files are read back into memory and into `run.json`. `cancel_run` sets an event
the coordinator looks at between layers. The worker does not use the agent loop; the agent
loop uses the same providers, tools and content filter, and is the only user of goals,
memory, trace and compaction.

What makes each component correct:

* Task graph: a graph is accepted iff it is acyclic and closed; layers put every dependency
  strictly earlier and no task later than needed.
* Coordinator: a task starts only when everything it depends on succeeded; each task ends
  once; cancellation takes waiting tasks only; "completed" means all tasks completed and
  there is a report; the run always ends.
* Store and recovery: an abandoned run is settled; "completed" is true on disk; a task's
  ending is never rewritten; concurrent sweeps converge.
* Worker: bounded attempts, only failures retried, exact token and moderation counts, always
  an answer.
* Tool calls of the agent loop: each is answered exactly once before the model is asked
  again; writes run alone; a tool gets only codes that were locked before the response; a
  hanging read-only tool does not hold up the loop.
* A run of the agent loop: it ends; what it returns, state.json and the trace tell the same;
  no turn begins after a cancellation, and one that came early is kept; a draft the
  grounding rejects was not on the display; the goal is charged once and the run goes on for
  it only within its budget.
* The transcript: the provider never sees a call without its result, the model is always
  told what the user asked for, and the results of its last calls.
* Memories: the last save of a file stands, the index lists what is there, every call ends.
* Trace: a record whose write has returned stays, with its sidecar, whatever is killed and
  whenever the power fails.

## 2. Modules

| Module | Models | Kind |
|---|---|---|
| `TaskGraph` | graphs, and the reference definition of a valid one | definitions |
| `DagValidation` | `validate_dag`: the depth-first search with its call stack made explicit | algorithm |
| `DagLayers` | `topological_layers`: Kahn's algorithm by layers | algorithm |
| `GraphChecks` | both on the same graph, one after the other, as a run does | composition |
| `GraphChecks_proofs` | their correctness, one by one and together, for every graph | proofs |
| `MCDag` | every graph over three tasks | model checking |
| `SwarmSpec` | what a run promises, without threads, layers and files | abstract specification |
| `SwarmRuntime` | the coordinator, its pool threads, `cancel_run`, faults and crashes | component |
| `MCSwarmRuntime` | a run of five tasks | model checking |
| `SwarmRecovery` | `SwarmRuntime` composed with sweeps by other processes | composition |
| `Swarm_proofs` | of both: the safety of a run for every graph, pool and number of faults, that it implements `SwarmSpec`, and what host and any number of sweeps leave on disk | proofs |
| `MCSwarmRecovery` | runs of three and of two tasks | model checking |
| `WorkerContract` | what the coordinator relies on in a pool thread | abstract specification |
| `SwarmWorker` | the attempts of one task and the ReAct loop in each | component |
| `SwarmWorker_proofs` | its counters and its contract, for every number of attempts, iterations and calls | proofs |
| `GroundingLedger` | the identity ledger and what it authorizes | component |
| `ToolBatch` | the tool calls of a response: planning, batches, threads, timeouts, results; composed with the ledger | component |
| `ToolBatch_proofs` | its safety for every set of calls and any number of turns | proofs |
| `MCToolBatch` | four kinds of calls, two codes of one thing | model checking |
| `ProviderStream` | `stream_chat`: attempts, back-off, cancellation, what has been shown | component |
| `GoalLedger` | the goal row: `account_usage`, other loops, deletion | component |
| `AgentContract` | what the loop promises to the session that owns it | abstract specification |
| `AgentLoop` | `AgentLoop.run` and `cancel`, composed of the two before | composition |
| `AgentLoop_proofs` | its safety and that it implements `AgentContract`, for all bounds and budgets | proofs |
| `MCAgentLoop` | two runs of three turns | model checking |
| `Transcript` | the messages and the layers of compression | component |
| `Transcript_proofs` | that requests are well formed and tell the task, for all limits and any length | proofs |
| `MCTranscript` | a run under limits so low that every layer is reached | model checking |
| `MemoryStore` | `PersistentMemory` and `MemoryLifecycle` in several clients: files, index, archive, lock | component |
| `MemoryStore_proofs` | what the lock is worth, for every number of clients | proofs |
| `MCMemoryStore` | two clients, three memories of two slugs | model checking |
| `TraceStore` | `TraceWriter` and the disk below it, with kills and outages | component |
| `TraceStore_proofs` | what survives, for every set of records and any number of faults | proofs |
| `MCTraceStore` | two records with a sidecar, one without | model checking |

### Correspondence with the code

**DagValidation.** `color`, `path` and the loop position of each `dfs` frame (`remaining`)
are variables; `StartRoot` is the loop over `all_ids`, `Visit` one iteration over
`graph[node]`, `Leave` the return of `dfs`. Python sets are iterated in any order, so are
these loops. The check for unknown names comes first and is the initial value of `verdict`.

**DagLayers.** `inDegree`, `queue`, `layers` and `processed` are the variables of the same
names; `TakeLayer` is the head of the `while`, `Relax` the inner loops for one task of the
layer, `Finish` the comparison at the end. Queue and layers are sets, since their order
decides nothing but the order of submission.

**GraphChecks.** `Validate` is the call of `validate_dag` in `start_run`, `Layer` the call
of `topological_layers` in `_execute_run`, on one graph that nothing changes in between. The
layering also takes the graphs the validation turned away, to show that it raises for them.

**SwarmRuntime.** `pc` is the coordinator thread's place: `new` → (`CreateRun`) `created` →
(`Register`) `armed` → (`MarkRunning`) `saving` → (`SaveTask`) `layer`. From `layer`,
`BeginLayer` submits (`launch`), waits (`collect`), records (`settle`), snapshots (`sync`)
and comes back; `CancelAtBoundary` or `EndOfLayers` leave for `finish`, `load`, `write`,
`close`, `done`. A task's status exists three times, as in the code: `file` (task file),
`mem` (run.tasks in memory) and `runTasks` (run.json). `worker` is the future of a task,
`results` the dictionary `_execute_layer` returns, `summaries` the keys of `task_summaries`.
`RunError` is the `except` of `_execute_run` (`HalfDone` is what the step that raised had
already done), `ThreadDies` an exception outside of its `try`, `Crash` the death of the
process. Only the coordinator writes task files while a run goes on, so each
load-modify-save is one step. `resolve_dependencies` is a step of its own, right after the
update that triggers it, because a crash or an exception can fall between them. Workers that
outlive the layer deadline go on running, and their results are dropped. `timed` says which
agents have a time limit: one without it (`timeout_seconds: 0`) leaves its layer without a
deadline (`HasDeadline`, `runtime.py:519`), which then waits for its workers as long as they
take.

**SwarmRecovery** adds a record per sweep (`sweep[r]`) with the status, the `blocked_by` and
the report it has loaded; each file read and each file write is a step, so a host or another
sweep can act between any two. `silent` stands for "the last event is older than the
threshold". A host emits heartbeats while it calls a model or a tool (`worker.py:477`,
`652`), so only a run whose host is gone falls silent. `SweepFails` is an exception or the
death of the sweeping process.

**SwarmWorker.** One step per decision of `run_worker`; the text of a response is one of
four classes, the ones `_classify_deliverable` distinguishes, and `report` is the
`report.md` all attempts of an agent share. `billed` and `blocked` are what an outside
observer counts: responses received, and moderated responses in a row. `WorkerContract` has
a `Retry` only after an attempt that failed: one that timed out or came to nothing else is
the end of the task. An exception that `run_worker` does not catch, while the attempt is set
up or in the middle of its loop, ends the thread with it (`Raises`).

**GroundingLedger.** `identity` is `_identities` by query, the "explicit:" records apart
(`named`, which never changes); `required` is `_identity_required`. What the resolver tool
returns is arbitrary: no tool named "search" is in this repository, the ledger is written
for one that is registered from outside (without it every look-up fails, which is one of the
outcomes).

**ToolBatch.** `pc`, `plan` and `at` are the loop's thread in `_process_tool_calls`: `at`
runs over the calls while they are planned (`AnswerAtOnce`, `PlanCall`), then over
`execution_plan`. A segment of authorized calls is what lies between two blocked entries;
`BatchFrom` is how `_batch_execute` cuts it. `run` is the thread of each call, `batch` the
calls whose results `_execute_parallel` or `_execute_single` is waiting for, `Finalize` is
`_finalize_tool_result` for one of them, in order. `answers` are the result messages. A
read-only tool that hangs is left to itself (`ToolHangs`); a write is waited for.

**ProviderStream.** `stream` is where `_goi_stream_co_thu_lai` is (`connecting`, `reading`,
`waiting`, ...), `lan` its variable of that name (the number of the attempt). `text` says
that this attempt has delivered text, `shown` that text of this turn has reached the
display: an attempt that fails after some text is tried again, and the text comes twice.

**GoalLedger.** `goal` is the row of the session's current goal, as far as the loop depends
on it: status and usage. A transaction is one step (`BEGIN IMMEDIATE`). `others` is what
other loops of the session have charged. `Account` is the transaction of `account_usage`;
the goal that is read back after it, which may fail (`store.py:816-819`), is the caller's
business. `replace_goal`, `update_status` and `append_evidence` of this version raise before
they change anything, so a goal is one that an earlier version left, or none.

**AgentLoop.** `pc` is where `run()` is: `head` (the loop's condition and the beginning of a
turn), `stream`, `account`, `reply` (what to make of the response), `validate`, `goal`, then
`status` and `end`, or `error` and `failed` for the `except` of `run`. `StartRun` is what
precedes the loop, `KeptCancel` the rule of lines 636-640 for a cancellation that comes
while the first run is queued. `Receive` takes the response from `ProviderStream`,
`AccountFor` charges the goal, `AccountUnconfirmed` charges it and then fails to read it
back, which the loop takes for a charge that was not made (`loop.py:921`), `SkipFiltered`,
`Nudge`, `NothingSaid`, `Draft` and `CallTools` are the branches of the turn, `Reject`,
`SafeFallback` and `Accept` the verdicts of the grounding. `ReadGoal` reads the goal after
an accepted answer (line 1085) into `snapshot`, from which `ContinueGoal` and `AnswerEnds`
decide later (line 1143); other loops may charge the goal in between. `DecideStatus` writes
state.json, `WriteEnd` the end of the trace; `TraceError`, `MarkFailed` and `RaiseAtEnd` are
the way of an exception. `stateFile`, `traceEnd` and `result` are the three reports. `spent`
are the runs that have noted the charge of their turn, and `unconfirmed` counts the charges
that were made and reported as failed; the code keeps neither. `Cancel` is a step of another
thread at any time. The calls of a response are one step here; `ToolBatch` shows that they
come to an end and are all answered.

**Transcript.** `messages` is the list; a message is its role, the ids of the calls it makes
or answers, its size and what can be learnt from it. In front are the system prompt and up
to `MaxHistory` messages of the conversation before the run, then what the user asks for now
(`context.py:191-192`); the history is a parameter of `run` that no caller in the repository
passes, and is taken to hold turns of the user and answers without calls. `Microcompact`,
`Collapsed`, `FixToolPairs` and `Compacted` are the functions of the code on such lists,
`Iterate` applies them by their thresholds, `Emergency` is the branch of the retry after a
request was refused as too large, `CallTools` appends calls and results, with or without
`compact` among them, `GoOn` everything the loop appends to go on without calls. `lost`
notes how something may have been lost by design: a failed summary ("fallback"), a text to
summarise that was cut to its limit of characters ("cut"), also before the task or in it
("unread"), a forced split, a message cut in an emergency ("trimmed"). Folding keeps the two
ends of a long text and loses any part of what its middle told (`Fold`); that the task was
in it is "shortened".

**MemoryStore.** `file`, `archive` and `index` are the directory; `kept` is what the last
save or removal meant a file to be, with every touch since counted once, which the code does
not keep. A memory is its title, its text and what its front matter counts (`uses`: the
touches that moved its score, and its accesses). A call waits in `lock`; `Acquire`, or
`GoOnUnlocked` (saving and forgetting) and `GiveUp` (the others) after five seconds. Inside,
each file operation is a step: `Truncate` and `Write` (`write_text`), `ReadIndex` and
`WriteIndex`, `Unlink` and `Scan`, `ReadFile` and `Replace` (`_update_frontmatter_field`),
`Archive`, and `StartRebuild` after the lock has been given back. `Updated` is
`_update_index`: the first line in which the title stands in brackets is taken over, whether
it is the memory's own or that of another whose title or description mentions it
(`Mentions`, a constant, since titles are model values), and the index is cut to
`MaxIndexLines`. `unlisted` are the memories that lost their line by either. `seen` is what
a call read of the counts before it waited for the lock, and what `Replace` adds to: `stale`
notes the files whose count was made from an old one. `Unlink` deletes whatever is in the
file by then; `mistaken` notes that it was another memory. `Crash` is the death of a process
anywhere in a call, `Fails` a file operation that fails inside the lock: touching and
archiving go on with the next memory, every other call ends with the exception, half done.
`reinforce` rewrites two fields one after the other under the lock; they are one step here.
`find_relevant` touches every memory it finds (`Recall`). `run_gc` has no caller in the
repository; it is modelled since it is public and the comments give it the lock.

**TraceStore.** `lines` are the records in the file, `synced` how many of them are on disk;
`seen` are the directory entries that processes see, `durable` those on disk, `flushed` the
sidecars whose bytes are. `Open` to `Fsync` are `__init__` and one write of a record, a step
per system call. `Kill` ends a writer and keeps what the kernel has, `Outage` keeps what is
on disk and any part of the rest.

## 3. Runs

| Run | Module / cfg | Shows | States |
|---|---|---|---|
| `dag` | MCDag | `validate_dag` accepts exactly the valid graphs; `topological_layers` layers exactly those, dependencies first | 23 411 |
| `swarm_run` | MCSwarmRuntime | a run implements `SwarmSpec`, ends although workers hang (but for a layer without a time limit), honours a cancellation, leaves no task waiting or running; a task's ending stands | 83 260 |
| `swarm_faults` | MCSwarmRuntime / MCSwarmFaults | with a failing file operation and a crash anywhere: inputs available, "completed" earned; the inductive invariant | 1 127 074 |
| `swarm_recovery` | MCSwarmRecovery | with two sweeps at once, one of which can break off: "completed" true on disk, endings of tasks stand, abandoned runs are settled, sweeps converge | 1 182 409 |
| `wrong_report` | MCSwarmRecovery / MCSwarmWrongReport | **violated**: the recovered report is not the synthesis | |
| `worker` | SwarmWorker / MCSwarmWorker | the pool thread keeps its contract (only failures are tried again), counts exactly, comes back | 63 648 |
| `tool_batch` | MCToolBatch | each call answered once, writes alone, only locked codes used, the ledger consistent, every turn ends | 1 503 855 |
| `agent_loop` | MCAgentLoop | reports agree, rejected drafts hidden, turns charged once but for charges that were reported as failed, continued within the budget that was read, the contract kept, every run ends | 1 782 488 |
| `transcript` | MCTranscript | requests are well formed; the task and the latest results reach the model behind a history, but for the losses `lost` names | 1 512 919 |
| `memory` | MCMemoryStore | the index agrees, the last save stands (each with the exceptions of section 5), only calls without the lock are together, every call ends although files fail and clients die | 675 788 |
| `trace` | MCTraceStore | records have their sidecars, acknowledged records stay in the file | 815 512 |
| `trace_torn` | MCTraceStore / MCTraceTorn | **violated**: an acknowledged record cannot be read after a crash | |

Bounds, and why they are enough for what is asked.

* `dag`: every graph over three tasks and one unknown name (4 096 of them). Three tasks give
  self-loops, two- and three-cycles, cycles off the first root, diamonds of height two;
  larger graphs are covered by the proofs.
* `swarm_run`, `swarm_faults`: a and b independent, c needs both, d needs b, e needs c. A
  failure blocks c directly and e through c, d can run in the layer in which c is blocked,
  and a worker of layer 0 can outlive it while d runs. One retry; a pool in which a queue
  forms in layer 0. b and d have no time limit: b is in a layer that has one, d is where c
  is blocked in one that has not, and waits without a deadline. `MaxFaults = 1` in
  `swarm_faults`: after one fault the code goes on in every way it can; in `swarm_run` none,
  since its properties are about what holds as long as the disk works (see below).
* `swarm_recovery`: two tasks, so that each of the two sweeps has two files to read and to
  write between which the other can act, a host that may die, one sweep that may break off.
  `wrong_report` has the shape and the names of `presets/decision_making_team.yaml`. No file
  operation of the host fails here: with one that does, two of the four properties are not
  promised (see section 4).
* `worker`: two attempts, four iterations (one more than the circuit breaker needs, so that
  its count can be reset in between), two tool calls per response.
* `tool_batch`: two turns, so that duplicates and locks of an earlier turn exist in the
  second; three calls per response, so that there is one before and one behind a blocked
  call or a write; two queries and two codes of one thing, so that results can contradict
  each other. The pool has two threads for up to three calls.
* `agent_loop`: two runs of one loop in one directory, so that what a run leaves (the cancel
  event, `metrics.csv`, the goal's usage) meets the next. Three turns, the circuit breaker
  after two filtered responses, one nudge, two drafts before the fallback, one continuation,
  one retry inside the provider: each counter reaches its limit before the turns run out.
  The goal has a budget of two turns, one of which another loop may take. One charge may be
  made and reported as failed (`MaxUnconfirmed`). Tokens are charged as zero and without a
  budget, since they go through the same comparison as turns: the token conjunct of
  `ContinuesWithinBudget` says nothing in this run, and is shown by the theorem
  `ContinuesInBudget` only. The process may die at any step: the invariants hold in every
  state.
* `transcript`: three iterations, two calls per response, two emergencies, a history of up
  to two messages, and limits so low that every layer is reached, that a second summary is
  written from the first, and that the user's message can lie behind a history longer than
  the text the summariser is given. Each of the causes in `lost` is reached, and none of the
  exceptions of the properties can be dropped: TLC finds the task lost by each of its four.
  Call ids are unique, as providers make them. Sizes are abstract: small, folded, big.
* `memory`: three calls, of two clients; a wait in vain; a death or a failing file. Two of
  three titles share a file, and one can be in two files (two types); that is what `find` by
  title and the index by title have to cope with. The line of one memory mentions the title
  of another in brackets, and the index has room for two lines (200 in the code), so that it
  can be full.
* `trace`: three records, two kills and two outages: a torn line, an append to it and a loss
  after that need at most that many.

Every property has a mutant in its module: a plausible bug in one definition with which TLC
finds the property violated ("Mutant of ..."; PROJECT.json lists the pairs).

### Fairness

* `SwarmRuntime`: weak fairness of the coordinator thread and of `as_completed`'s timeout.
  None for workers: a model or tool call may hang for ever, and `RunEnds` must hold all the
  same. It excepts one case: a layer in which no agent at work has a time limit is waited
  for without a deadline (`WaitsUnbounded`, `runtime.py:515-521`), and a worker that hangs
  there keeps the run for ever.
* `SwarmRecovery`: the coordinator as above while its process lives; each sweep gets on,
  which says that `start_run` goes on being called, the only caller of the sweep
  (`runtime.py:109-114`); and time passes, so that a run without a host falls silent.
* `SwarmWorker`: the thread is scheduled, and streams and tools return in the end (providers
  have timeouts; tools do not, which is why the coordinator may not rely on this).
* `ToolBatch`: the loop's thread runs, the pool starts what it holds, the timeout of a
  read-only tool expires (`KAIROS_TOOL_TIMEOUT_SECONDS` is 1800 by default; 0 turns it off,
  and `TurnsEnd` is then not promised) and a write comes back in the end, which the code
  relies on (`loop.py:1725`). Nothing is assumed of read-only tools.
* `AgentLoop`: the thread that runs it is scheduled (weak fairness of `Running`). Every read
  of the connection has a time limit (`providers/chat.py`), and the calls of a response come
  to an end by `TurnsEnd`. Nothing is assumed of cancellations and other loops.
* `MemoryStore`: a call proceeds when it can, by taking the lock or working on with its
  files, which are local. The operating system drops the lock of a process that dies, and
  `memory_lock` gives it back when an exception passes through it. No wait needs to time out
  for `CallsEnd`.
* `GraphChecks`, `Transcript`, `TraceStore`: none; their properties are safety.

## 4. What is proved

All theorems hold for every finite set of tasks, every graph and every value of the other
constants allowed by the named assumptions.

* `GraphChecks_proofs`: `SearchInvariant`, the colouring invariant of the search; from it
  `ValidationSound` (an accepted graph is a DAG) and `ValidationComplete` (a rejected one is
  not). The invariant says that the path holds exactly the GRAY tasks and follows
  dependencies (so a GRAY neighbour closes a cycle), that the dependencies of a BLACK task
  are BLACK, that each dependency of a task on the path is BLACK, still to be visited or
  next on the path, and that the BLACK tasks are acyclic: every nonempty set of them has a
  member that depends on none of the set. The last is what makes acceptance sound: when a
  task is left, all it depends on is BLACK, so it can be added to such a set. Then
  `LayeringInvariant` (in-degrees count the dependencies not yet relaxed, the queue is
  exactly the unplaced tasks with none left), and from it `LayersOrderDependencies`,
  `LayersAreTight` and `LayeringCorrect`; the cardinality argument behind the in-degrees is
  the main lemma. `AcceptedGraphsAreLayered` joins the two: `topological_layers` never
  raises in the coordinator for a graph that `start_run` has let through.
* `Swarm_proofs`, the first part, about `SwarmRuntime`: `RunInvariant`, the invariant
  `IInv`, by one lemma per action; from it `InputsAvailable`, `CompletedIsTrue`,
  `CompletedIsReported`. None of the three is inductive: that `run.json` says "completed"
  truthfully rests on `VerdictIsEarned` (the verdict is about the files, which do not change
  after it), that on `SuccessSoFar` (as long as `all_succeeded` holds, every layer left
  behind is completed on disk), and that on `LoopsStayInLayer` and `NothingDoneYet`.
  `InputsAvailable` rests on `CompletedHasSummary`. They hold with failing file operations,
  retries and crashes anywhere.

  A second part of the invariant, `FaultFree`, holds until a file operation fails: the three
  copies of the statuses differ only where the loop is on its way from one to the next
  (`MemoryIsFresh`), tasks of the layers ahead have not ended, those of the layers behind
  have, the tasks of the layer under way have what the place in the loop allows
  (`LayerLaunched`, `LayerSettling`), and `blocked_by` says which dependencies have not
  completed. From it follow `ClosedIsQuiet`, `EndingsAreFinal` and `RunImplementsSpec`, the
  refinement of `SwarmSpec`: `StepRefines` maps `CancelTask`, `LaunchWorker`,
  `SettleCompleted`, `SettleFailed`, `CancelRun` and the verdict to the abstract steps and
  everything else to a stutter. The last two have a hypothesis, that in the behaviour
  `faults` stays 0 and so no file operation fails, whatever the constants allow and whether
  or not the host dies; without it they are false (`_cancel_remaining_tasks` after a failed
  snapshot, section 5).
* `Swarm_proofs`, the second part, about `SwarmRecovery`: the same three copies, and those
  that any number of sweeps hold in memory between reading and writing. `CompletedStaysTrue`
  needs no hypothesis: with failing file operations of the host, sweeps that break off and a
  host that may die, a run that says "completed" has completed all its tasks. Its invariant
  `VerdictInv` cannot say that endings stand, since they need not; it says that whoever
  knows of a failure or a cancellation, in whatever copy, knows it of a run in which one
  task will *never* be completed (`FailureIsForGood`, `Hopeless`: the host is past it and no
  copy says "completed"), that nobody calls a task ended before the host has settled it
  (`EndingsComeLast`), that a task anyone calls completed has a summary and an ending on
  disk (`CompletionsAreKept`), and that a sweep of a silent run finds open only what was
  never completed (`OpenIsOpen`), so that the "failed" it writes cannot meet a "completed"
  (`SuccessIsUndisputed`).

  `SweepsLeaveOneStory` and `NoEndingIsRewritten` are about behaviours without a failing
  file operation of the host. Their invariant is `RecoveryInv`, which adds to `FaultFree`
  that only a dead host's run falls silent, that an ending a sweep has read still stands
  (`ReadsStand`), and that what a sweep has yet to write is what the file says or the
  failure of a task that has not ended (`WritesStand`): two sweeps that overtake each other
  write the same. The hypothesis is needed: with `MaxFaults = 1` TLC finds a host that
  cannot reload a task it has settled as failed, cancels it over its ending and dies, after
  a sweep has read "failed", which the sweep then writes to `run.json`.
* `SwarmWorker_proofs`: `WorkerInvariant`, from it `AllTokensAreCounted`,
  `BreakerCountsExactly` and `WorkerKeepsItsContract`, the refinement of `WorkerContract`.
  That all tokens are counted when the task is done is not inductive: `AllIsCounted` says of
  every state that what was billed is in the total of the attempts that returned or counted
  in the one under way, `TokensFit` bounds the latter by the iterations and makes it 0 where
  a prompt that does not render returns none, and `ResultsFit` says that the thread is done
  with a failure only after its last attempt, which the contract asks for. That an attempt
  is followed by another only if it failed is a conjunct of the contract's `Retry`.
* `ToolBatch_proofs`: `EachCallAnsweredOnce`, `WritesAreAlone`, `ConsumersAreAuthorized`,
  `LedgerAgrees`. `LockedSymbolsAgree` is inductive with the types of the ledger, since an
  alias of anything locked is never locked. The others rest on `BatchInv`: the plan refers
  to calls of the response, only entries that were allowed and not blocked get a thread,
  active threads are in the batch, and a write in the batch is all of it. That each call is
  answered needs `AnswersInv`, which counts: while planning, answered and planned calls are
  together those before `at`, and disjoint; afterwards the answered ones and the rest of the
  plan are all calls.
* `AgentLoop_proofs`: `LoopInvariant`, from it `ReportsAlwaysAgree`,
  `RejectedDraftsAreHidden`, `TurnsCountOnce`, `ContinuesInBudget`, and
  `LoopKeepsItsContract`, the refinement: the initial states map to those of
  `AgentContract`, and each action maps to `Begin`, `Turn`, `AskCancel`, `End`, `Fail` or
  leaves it alone. The invariant adds to the properties what they rest on: that a draft is
  hidden in every place of a turn while an identity is required (`DraftsAreHidden`; the
  property looks at one place only), which reports exist at each place (`ReportsInOrder`),
  that the flag of the run and the set of charged runs say the same (`RunsAreCounted`), that
  a goal beyond its budget is not one to continue (`BudgetIsKept`), and that what the run
  has read of the goal was true of it when all its own charges were in it (`SnapshotFits`),
  from which the property of the step follows although the goal may have changed since; and
  that a run in a turn has had one (`TurnsFit`), since the contract allows success only
  after a turn. `TurnsCountOnce` counts the charges that were made and reported as failed
  apart: in the code each of them is one turn too many.
* `MemoryStore_proofs`: `MemoryInvariant`, from it `OnlyUnlockedAreTogether` and
  `SavesStand`. The invariant says that whoever is inside holds the lock or is one of those
  that may be without (`LockGuards`), that nobody is inside with another before a race has
  been noted (`AloneInside`), and that what was read to be rewritten is still what is there
  (`ReadIsFresh`), without which a reinforcement could bring an older text back.
  `IndexIsKept` needs `IndexInv` on top of it, since the property looks at states without a
  call only: in between, a memory that is not listed is being saved or was given up
  (`ListedOrSaved`), a line that leads nowhere is about to go with a rebuild
  (`LeadsOrRebuilt`), index and updates keep to the limit (`LinesAreLines`), what a saver
  has read and changed still lists all that the index lists (`UpdateIsFresh`), and what a
  rebuild will write is what is there (`RebuildIsFresh`). Lemmas say what `_update_index`
  and `_rebuild_index` do to the titles and files of the lines, for any relation of which
  line mentions which title and any limit: which memory may lose its line to which, and that
  nothing is cut off a list that is not full.
* `TraceStore_proofs`: `TraceInvariant`, from it `SidecarsResolve` and `AcknowledgedStay`.
  Neither is inductive, because an outage takes whatever is not on disk: the invariant says
  of the same records that they *are* on disk (`LargeLinesSafe`, `AckedSynced`), and for
  that what is on disk at each step of the writer (`SidecarFirst`, `EntriesSynced`). Three
  lemmas say what happens to the lines when one is begun, completed, or when the machine
  goes down.
* `Transcript_proofs`: `TranscriptInvariant`, from it `EveryRequestIsWellFormed`,
  `TheTaskIsKept` and `TheLatestResultsArrive`, for messages of any size and number. None of
  the three is inductive: they speak of requests only, while each layer works on what the
  one before has left. `WellFormed` says of every state that the system prompt and a message
  that neither calls nor answers are in front (`Headed`), that the ids of calls differ and
  are among those issued (`Numbered`), and that calls and results stand next to each other
  (`Answered`, `Called`). `TaskIsTold` says that the task is told by a message that is no
  result, wherever in the list it is: no layer clears such a message, folding that loses it
  is noted, and a head that tells it beyond the limit of the summariser's text is "unread".
  `LatestIsSafe` says that each of the latest results is in a message the next layer does
  not clear (one with fewer than `KeepRecent` results behind it, or one that is no result),
  and among the last `Room` messages, no more than `KeepRecent` + 1, which are never folded
  because `KeepRecent` < `PreserveRecent`.

  A layer either keeps role and ids of all messages (`SameShape`: clearing, folding,
  trimming) or drops those from the third on up to some place (`Follows`). That the second
  kind keeps `WellFormed` is `FollowsWellFormed`, where it drops whole turns, and
  `FixDropsOrphans`, where a forced split has cut between a call and its results: then what
  is left of the results is at the head of the tail, `_fix_tool_pairs` drops exactly these,
  and it never writes a placeholder, since a call that is kept keeps what follows it. So the
  second half of that function is not reached in a run, as long as call ids are unique and
  all calls of a response are answered before the next compression. `FixToolPairsRepairs`
  shows that it would do its work on any other list whose results answer one call each.

  The sums, cuts and repaired lists of the model are recursive functions. `LeastElement`, a
  consequence of the library's theorem that proper inclusion of finite sets of numbers is
  well founded, stands for the induction: `TotalExists` and `FixedExists` look at the
  shortest prefix for which there is no such function, `BudgetCutType`, `PastResultsType`
  and `SummarisedType` at the first place where a budget is exceeded.

The assumptions: `LayersAssumption` of `SwarmRuntime` (layers respect the dependencies and
the last one is not empty) is what `LayersOrderDependencies` and `LayeringCorrect` prove of
`topological_layers`; `TranscriptAssumption` has `KeepRecent` < `PreserveRecent`, 3 and 6 in
the code (`loop.py:55`, `59`); the others only give constants their types. TLC evaluates all
of them in the runs.

The inductive invariants were model-checked before they were proved: `IInv` is checked by
`swarm_faults`; `RecoveryInv` holds in the 1 182 409 states of `swarm_recovery`,
`VerdictInv` in the 12 421 258 states of the same instance with `MaxFaults = 2` (too long
for a run), `IInv` and `IndexInv` of the memories in the 675 788 states of `memory`, and the
`IInv` of the transcript in the 1 512 919 states of `transcript`.

Model-checked only: liveness (`RunEnds`, `CancelIsHonoured`, `AbandonedRunsEnd`,
`WorkerAnswers`, `TurnsEnd`, `RunReturns`, `CallsEnd`), which TLAPS does not prove under
fairness.

## 5. Findings

1. **A report from the wrong task** (`wrong_report`). `_recover_terminal` takes the last
   entry of `run.tasks`, which `load_all` sorted by id; in `decision_making_team` that is
   `task-propose`, not `task-decide`.
2. **A record that does not survive** (`trace_torn`). A writer that is killed while a line
   goes out leaves it unfinished, and the next writer appends to it (`trace.py:88`): its
   record, written and synced without an error, is part of a line `json.loads` refuses. If
   the line broke off inside a character, the file is not valid UTF-8 and cannot be read at
   all; every later run of the session then raises at `loop.py:680`.

Also seen while modelling, without a run of their own:

* `reconcile_run` takes "all tasks terminal, run still running" for a crash. A live host is
  in that state between its last task update and its finalization; a sweep of another
  session writes an ending then, and the host writes "running" and its own verdict over it;
* the placeholders of `worker.py:584` and `697` pass the output contract, so that an empty
  answer counts as a completed task and its case "empty deliverable" is reached only by
  white space;
* a segment of one call is handed to `_execute_single` without looking at the cancel event
  (`loop.py:1373`), although the comment at `loop.py:1511` and the docstring of `cancel` say
  that no new work starts;
* `state.json` is opened with `"wb"`, which empties it, before it is written and synced: a
  crash in between leaves what the comment at `core/state.py:81` means to exclude;
* a cancellation while `stream_chat` connects or backs off raises, and the run is reported
  as failed, which the docstring (`chat.py:232-237`) means to avoid;
* `loop.py:820-824` says that the deltas of a failed attempt are dropped; those the
  provider's own retries had delivered, and those already emitted to the display, are not;
* `final_content` of a turn that was nudged on is not cleared (`loop.py:1018`), so that a
  run whose turns run out, or whose later turns are empty, ends as "success"
  (`loop.py:1217`) with a text nobody validated; `metrics.csv` of an earlier run in the same
  directory does the same;
* the session's directory itself is never synced into its parent (`trace.py:86`), and a
  directory entry that a killed writer left unsynced is found by the next one and not synced
  either (`orphaned`);
* `TraceWriter.read` splits with `splitlines()`, which also splits at U+2028 and the like,
  which `json.dumps` writes as they are (`trace.py:111`, `315`): such a record is lost to
  the reader;
* `is_duplicate` notes a memory before its type is looked at and before it is written
  (`persistent.py:442`): the second attempt after an error is skipped as a duplicate;
* the collector moves a file over what the archive has under its name (`lifecycle.py:282`),
  and rebuilds the index after giving the lock back (`295`);
* `_update_index` looks for `[title]` anywhere in a line (`persistent.py:600`): saving "BTC"
  takes over the line of "[BTC] momentum", or of a memory whose description has "[BTC]" in
  it, and that memory is no longer listed; a memory that is saved when the index is full
  gets no line at all, in silence (`606`);
* `remove` looks its memory up, waits for the lock and deletes the file, whatever is in it
  by then (`persistent.py:567-572`): another memory of the same slug that was saved
  meanwhile is lost;
* `reinforce` and `track_access` write counts made from what they read before they waited
  for the lock (`lifecycle.py:148`, `172`): a save or a touch in between is overwritten in
  the counts;
* `account_usage` commits its charge (`goal/store.py:814`) and then reads the goal back; if
  that fails, the loop takes the charge for one that was not made (`loop.py:921`), and the
  next response charges the turn again (`AccountUnconfirmed`);
* a layer in which every agent has `timeout_seconds: 0` has no deadline (`runtime.py:519`):
  a worker that hangs there keeps the coordinator for ever, and a cancellation is not looked
  at;
* folding keeps 900 and 500 characters of a long message, the user's included
  (`loop.py:318-321`), and the summariser gets the first 80 000, or 12 000, characters of
  the conversation (`loop.py:1972-1975`): what the user asked for can be lost in either way,
  behind a long history even when the message is short;
* `replace_goal`, `update_status` and `append_evidence` of `goal/store.py` name members that
  their enumerations lack, and raise;
* after a failed layer snapshot `_cancel_remaining_tasks` decides from stale memory and
  cancels a completed task (`TerminalTaskIsFinal` with `MaxFaults = 1`), and when a task
  file cannot be read it cancels a failed one; if a sweep has read the old ending and the
  host dies, `run.json` and the task files disagree for good (`SweepsConverge` with
  `MaxFaults = 1`), against "duplicate readers converge" (`store.py:461-463`);
* workers that outlived a layer run beside the next layer's, so that more than `max_workers`
  can be at work;
* two sweeps can append the same recovery event twice (`store.py:477-491`);
* the retry of an attempt delivers the `report.md` of the attempt that failed;
* a run whose host died before its first update stays "pending": no sweep looks at it
  (`store.py:512`);
* the messages of `compact` and of skipped duplicates come before those of calls in front of
  them in the response, against the comment at `loop.py:1364`; a tool that is not repeatable
  runs twice when one response names it twice;
* `safe_fallback` (`grounding.py:632`) reads `self._evidence_cells`, which nothing assigns,
  so that the third rejected draft of an answer ends the run with an `AttributeError`
  (`SafeFallback` of `AgentLoop`);
* two tasks with one id pass `validate_dag`, and `topological_layers` then raises in the
  coordinator thread.

## 6. Not modelled, and why

* Events (`_emit_event`, `append_event`): they change no state of the run except the time of
  the last event, which is `silent`. `_emit_event` never raises.
* `KeyboardInterrupt` in `_execute_layer`: Python delivers it to the main thread only, and
  the coordinator is another.
* A host that is suspended for longer than the stale threshold: wall-clock time, about which
  the code promises nothing.
* Smaller ways to fail that no property here depends on: a launch that raises when half of a
  layer is submitted (`runtime.py:486-502`; `HalfDone` is a launch that raised before it),
  the report that `update_run` sets in memory when a snapshot is written (None at that
  time), a memory file that cannot be read while the directory is scanned (`_scan_entries`
  skips it), the second of the two fields of a reinforcement failing after the first, the
  cap on the reinforcements of a session, an index that is left with a part of its lines (it
  is whole or empty here), a shared `.tmp` name of two unlocked writers of one memory, the
  fallback of a look-up to the file's stem (`persistent.py:312-315`; a look-up by any title
  is in `Recall`), a trace record that cannot be flushed because the disk is full
  (`trace.py:112-113`), and the identity that `load_skill` with a code makes the ledger
  require (`grounding.py:516-521`).
* Two runs in one store: the sweep treats run directories one after the other, and runs
  share nothing else.
* Negative `max_retries` (no attempt at all; the `None` it returns raises in the settling
  loop, which is `RunError`).
* Progress and heartbeat events (`agent/progress.py`): they reach only the display. A tool
  that was given up can emit at most the event it had begun, since `timed_out` is looked at
  before each.
* Numeric evidence (`agent/grounding.py`): it decides nothing, `_validate_price_claims` has
  no caller.
* The text of answers, prompts and summaries; whether a draft is valid or names a code is a
  choice.
* Goal criteria, claims and evidence: the functions that would write them raise in this
  version.
* Full-text search, the hierarchy of directories, links and compression of memories: off by
  default (`config/env_schema.py:162-173`), and ranking decides only the order of what is
  found.
* `remove_entry` of `PersistentMemory`, which has no caller; its steps are those of
  `remove`.
* The `.tmp`-and-replace protocol of the swarm's files: `TaskStore` and `SwarmStore` share a
  fixed temporary name, so that a host and a sweep that write one task at once share the
  temporary file. Writes are atomic in the swarm models.
* An unreadable `run.json`, which ends a sweep before the directories behind it: the models
  follow one run.
* Prompts, previews, redaction, YAML and JSON conversions, payloads of the provider clients,
  price statistics, settings: data, without state shared between steps.

## 7. Plan

Done: the task graph; the coordinator and its abstract specification; recovery; the worker
and its contract; tool calls and the identity ledger; the agent loop with its provider, its
goal and its contract; the transcript; memories; the trace. Every invariant and every action
property that a passing run checks is a theorem of its module.

Next:

1. `AtomicReplace`: the temporary files of the swarm's stores and the in-place write of
   `state.json`, under two writers and a crash.
2. The composition of `AgentLoop` with `ToolBatch` and `Transcript`, each of which now takes
   the others as one step.
3. Theorems: that a sweep changes no more than `SwarmSpec` allows a run's owner to change,
   as a refinement; the ledger and the contract under the composition of the second point.
