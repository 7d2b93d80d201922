# TLA+ specifications of Harness-CLI

Harness is an agent for software engineering that runs in a terminal. A request
is planned into a graph of tasks; a scheduler runs the tasks side by side, each in
an agent loop that talks to a language model and calls tools; failures are repaired
by tasks that a recovery planner adds while the graph runs; a router spreads the
model calls over models and providers that fail, cool down and come back.

This directory holds TLA+ modules translated from the Python source, TLC
configurations that check them on small instances, and TLAPS proofs for all
instances. Paths below are relative to `src/src/harness_core/`; all line numbers are
those of the commit beside this directory. `PROJECT.json` lists every component,
run, hazard, finding and theorem, and maps every definition to the lines it stands for.

Contents: 1 the system, 2 how it runs (the grain of the models), 3 modules, 4 runs
and their bounds, 5 fairness, 6 proofs, 7 what disagrees, 8 what is not modelled, 9 plan.

## 1. The system

### Parts whose logic is modelled

**Task graph** (`agents/domain.py`). State: tasks with a status, their dependencies,
insertion order. Operations: `get_ready_tasks`, `update_task_status` (which blocks or
cancels everything downstream by recursion), `insert_recovery_sequence` (which rewires
the dependents of a failed task behind a debug task and a retest, and unblocks what the
failure had blocked), `validate`, `topological_sort`. Hard: recursive walks that change
statuses as they go, cut off at other statuses, over graphs that change while they run.
Correct when: the walks change what an order-free definition says; a task starts only
after its dependencies; a blocked task has a reason; history is not rewritten.

**Workspace locks** (`agents/locks.py`). State: the resources each task holds, paths and
patterns with a mode. Operations: `acquire` (all or nothing), `release`, `release_all`,
`_is_conflict`. Hard: the conflict test of two patterns. Correct when two tasks never
hold the same file with one of them writing.

**Scheduler** (`agents/scheduler.py`) and **recovery** (`recovery/`). State:
`active_workers`, the stop flag, the attempts made for every task. `execute()` polls:
mark what is ready, start as much as there are slots and locks for, sleep, look whether
it is done. `_run_worker` runs the agent, records the outcome, hands a failure to
`RecoveryOrchestrator.handle_failure`, which asks a model for a plan and inserts it,
and releases the locks in a `finally`. `cancel`, `cancel_all` come from outside. Hard:
`execute()`, the workers and the cancellations interleave; a worker is suspended in the
recovery planner, after its task became FAILED and before the graph is changed, with its
locks held. Correct when: exclusion, slots, order of dependencies, agreement of graph and
workers, at most `max_attempts` recoveries under fresh ids, nothing started after
`cancel_all`, and `execute()` returns.

**Engineering runtime** (`runtime/runtime.py`, `runtime/requirements.py`,
`runtime/state.py`). Plans, executes with the scheduler, decides SUCCESS or FAILED from
statuses, verdicts and requirements; has a timeout and is interrupted by Ctrl+C. Hard:
timeout and interruption leave workers behind; the decision reads statuses that workers
may still change. Correct when: SUCCESS means that what was asked for was done; FAILED has
a reason; after an interruption nothing is held and nothing finishes; a run drains.

**Router** (`routing/router.py`), **model health** (`routing/health.py`), **fallback
engine** (`routing/fallback.py`), **request budget** (`routing/budgets.py`). One router
is shared by the agents of a run. A request picks a chain of models, tries them in order,
retries some failures, and records every outcome in the models' health, which closes a
model for a time. Hard: the chain was chosen at the start and other agents' failures make
it stale; three timeouts nest; the budget is checked before a call and charged after it.
Correct when: no request turns to a cooling model; every request is answered in time; the
budget is passed by a bounded amount only.

**Agent loop** (`agent/loop.py`) with its **workflows** (`agent/workflows.py`) and its **todos and completion gate**
(`agent/todos.py`, `agent/completion.py`, `agent/types.py`). State: the history of tool calls, the plan of todo items,
the governor's counters, what was verified. One iteration asks the model, executes the calls of the
answer one after the other (each may be garbled, unknown, incomplete, refused, blocked after repeated
failures, answered from an earlier read, executed), and lets the governor decide whether to go on; an
answer without calls is verified and put before the gate. For goals that ask for a push, a test run or an
explanation a script makes the calls: the first two replace the loop, the third gathers what the loop then explains. Hard: the outcome is decided from several
records of the same calls (the history, which compaction cuts; the statistics; the plan; the counters),
each of which counts a refusal, a failure or a success differently; in a workflow the calls and the script both move the
items of the plan. Correct when: COMPLETED and PARTIAL
are true; a failing operation is not repeated blindly; a cancellation, a limit or a governor that says
stop is obeyed; finished items stay finished; the run ends.

**Sessions** (`session/`, `cli/interactive.py`, `cli/main.py`). State: rows of sessions, runs, memories and
events in one SQLite file for all processes of a user. Operations: create, pause, resume, complete, fail, abort,
archive and delete a session; start, complete, fail and interrupt a run; add a memory. Hard: a command is several
storage calls, each a transaction of its own, and another process, an error of the database, Ctrl+C or a crash may
come between any two. (Of the shell's two modes the classic one records its runs; the unified mode,
`interactive.py:1447`, records none.) Correct when: the event log tells of nothing that did not happen; a status leaves the table
of transitions only as far as overlapping commands explain; a run ends once; a RUNNING run has somebody at work on it, or it is known
what took the shell away.

**MCP client** (`mcp/client.py`, `mcp/adapter.py`). State: the process of a server and whether it is initialized,
the lines in its pipe, the threads that read it, the calls that wait. Hard: a call that times out leaves its thread
reading; servers die and are started again by several workers at once; answers come late or out of order; and some calls of the
system hold the event loop. Correct when: no process is lost; an answer belongs to its request; every call returns as long as the
loop is not held for ever.

**Project memory** (`memory/`). State: the cache of entries of a process, the JSON file it is written to, the temporary
file it is renamed from. Operations: record with deduplication, retrieve (which counts accesses), the retention policy.
Hard: one operation is several rewrites of the file; a process may be killed inside any, get an exception out of any, and may
fail to read the file when it starts. Correct when: an entry leaves the file only by the policy; what was recorded survives a crash.

**Project index** (`intelligence/`, `indexing/`, `cache/search_cache.py`, `tools/search.py`). State: the tracked files
with time stamps and hashes, their symbols, the import edges, the registered modules, the cached search. Operations:
scan, refresh, `on_file_changed`, `invalidate`, search, and the tools glob and grep that answer from them. Hard: four
structures that must follow files that change, vanish and come back, grow too long or cannot be read. Correct when: symbols are of
the text the stamp says, except where the code gives up on a file; nothing leads to a dropped file; the tools answer no worse
than their caches promise.

### Interactions

```
 cli --Ctrl+C--> EngineeringRuntime --execute(), timeout--> AgentScheduler
                    |  decides on statuses                   |  marks, starts, polls
                    v                                        v
               requirements, verdicts                    TaskGraph <--- insert_recovery_sequence
                                                             ^                ^
   WorkspaceLockManager <--acquire / release_all-- _run_worker --failure--> RecoveryOrchestrator
                                                             |                 (model call)
                                                             v
                                          agent loop --> ModelRouter --> FallbackEngine --> provider
                                                              \--> ModelHealthTracker, BudgetManager
```

Calls are direct; the asynchronous parts are the workers (asyncio tasks), the event bus
(handlers called inline) and cancellation. Shared state is the task graph, the lock table,
the health records and the budget. Processes share sessions through SQLite and the project memory through a file; the
shell, in its classic mode, records the start and the end of every run of the runtime in the sessions. The agent's tools glob and grep ask the
project index, and a tool of an MCP server goes through the client.

### Parts that are not modelled, or not yet

| part | state and operations | what makes it hard, what makes it correct | status |
|---|---|---|---|
| steering, micro tasks (`agent/steering.py`, `micro.py`, `recovery.py`) | a queue of user messages; a registry of small callables | a message is neither lost nor applied twice | planned |
| runtime governance (`runtime/governance.py`, `runtime/steering.py`) | counters of iterations without progress | advice only: no decision of the runtime reads them | not modelled |
| parallel scheduler, legacy orchestrator, executor (`agents/parallel.py`, `orchestrator.py`, `executor.py`) | batches under a semaphore; success of a whole mode | tests and one command's mode use them (`cli/main.py:411`); the latter executes with the modelled scheduler | not modelled |
| message bus, cancellation tokens (`agents/message_bus.py`, `cancellation.py`) | subscribers, history; a tree of tokens | nothing the repository registers acts on a message | not modelled |
| `cache/file_cache.py`, `tools/parallel.py` | entries; batches of calls | no part of the program that runs uses them | not modelled |
| compaction, permissions | budgets of text, rules over commands | text | their outcomes are in `AgentLoop` |
| providers, tools, verification | HTTP, subprocesses, files | input and output; they appear as outcomes of a call | not modelled |
| model catalogue, parsing of sources, analysis, classifier, context scoring, front ends, configuration, hooks and plugins, observability, benchmarks, native bindings | tables, text, scores | parsing and heuristics over text; no decision of a modelled part depends on their state | not modelled |

## 2. How the program runs, and the grain of the models

The program is one asyncio loop. A coroutine gives way only where it really suspends,
and in the modelled parts these places are few:

* `asyncio.sleep` in `execute()` (`scheduler.py:178`), `worker.run()` and the planner's
  model call inside `handle_failure`;
* in a routed request: a refresh of the list of models, `provider.generate`, a back-off sleep.

Everything else that is awaited finishes without suspending: no event handler that the
repository registers suspends (`runtime.py:353`, `565`, `agent/loop.py:323`, the dashboard
and the CLI), the lock manager's mutex is never held across a suspension, and memory is
synchronous SQLite. So a pass of `execute()` is one atomic block, and so is what a worker
does after `worker.run()` returned, up to its end or to the planner's call. In `Scheduler`
the pass is cut into one step per task for readability, while `pc = "dispatch"`; every
other action has the guard `AtAwait`, so that nothing runs in between.

`requires-python` is 3.12, so `cancel()` always ends in a `CancelledError` at the next step of
the task. One that arrives before the first step closes the coroutine unstarted: neither its
`except` nor its `finally` clause runs. This is the worker state "dead".

Other processes are another matter: `SessionStore` and `MemoryStore` have one step per storage call or system call, and
in `McpClient` the readers are threads of the loop's pool, whose steps come between any two of the loop's. There the loop itself can be
held inside a call of the system (`blocked`): no handler runs and no timer fires until that call returns.

Assumed of the inputs: a plan has passed `validate` (the runs use acyclic graphs, and the
walks are checked on cyclic ones too); the planner does not invent task ids that contain
`_recovery_` or `_retest_`, from which `handle_failure` derives the base id. A task's
resources are those of its contract; recoveries inherit them.

## 3. The modules

| module | models | depends on |
|---|---|---|
| `TaskGraph` | the task graph as operators on `status` and `deps`; the recursive walks by the set they change (`Reach`) | |
| `TaskGraphWalk` | the walks as the code makes them, call by call, depth first with the recursion as a stack, with cycle test and topological sort | `TaskGraph` |
| `ResourcePaths` | `_is_conflict`, and the files a path or pattern stands for | |
| `WorkspaceLocks` | the lock manager alone: the abstract specification of the lock table | |
| `Scheduler` | `execute`, `_run_worker`, `handle_failure`, `cancel`, `cancel_all` | `TaskGraph`, refines `WorkspaceLocks` |
| `WorkspaceFiles` | what the locks are for: resources as paths and patterns over the files of the workspace | `Scheduler`, `ResourcePaths` |
| `EngineeringRuntime` | `run` and `execute_interactive` around the scheduler | `Scheduler` |
| `ModelHealth` | one model's health record and the events that change it | |
| `ModelRouter` | selection, fallback engine and budget, shared by several agents | `ModelHealth` |
| `AgentTodos` | the plan of a task and the completion gate, as operators | |
| `AgentLoop` | one run of the agent loop, or of the workflow that replaces it | `AgentTodos` |
| `SessionStore` | sessions, runs, memories and events in the database several processes share | |
| `McpClient` | one MCP server, its process, pipe and reader threads, and the workers that call it | |
| `MemoryStore` | the project memory: operations, retention, and the file rewritten at every update | |
| `ProjectIndex` | symbol index, import edges, search cache, and the tools that answer from them | |
| `MC*` | constants of the instances; `MCScheduler` is one of `WorkspaceFiles` | |
| `*_proofs` | theorems and proofs of the module they are named after; `EngineeringRuntime_proofs` also those of `TaskGraph`, `WorkspaceLocks`, `Scheduler` and `WorkspaceFiles` | TLAPS |

**TaskGraph and TaskGraphWalk.** The code walks the graph by recursion, setting a status,
going into each dependent, and stopping at tasks that have ended (`_propagate_status`) or
cannot be reset (`_unblock_dependents`). `TaskGraph` says what that amounts to: the least
set of eligible tasks closed under "depends on one of them". This form can be proved about,
and the `Scheduler` uses it. `TaskGraphWalk` has the walks themselves. A behaviour picks a
graph, its statuses and one operation; `stack` holds the recursive calls under way, each with
the tasks its loop has still to take, `left` those of the operation's own loop, and a step is
one turn of a loop or one return. A loop takes its tasks in any order, so that no property
rests on the order of the dict or of a list of dependencies. Actions and code:

| actions | code |
|---|---|
| `CallUpdate`, `PropagateTo` | `update_task_status`, a turn of the loop of `_propagate_status` |
| `CallInsert`, `Rewire` | `insert_recovery_sequence` up to its loop, and a turn of it, down to the first test of `_unblock_dependents` |
| `UnblockNext`, `WalkReturns` | a turn of the loop of `_unblock_dependents`; the return of either recursion |
| `CallSearch`, `VisitRoot` | `validate` or `topological_sort`, and a turn of the loop over all tasks |
| `VisitWhite`, `MeetGrey`, `PassBy`, `VisitReturns` | a turn of the loop of `visit`, by the colour it meets, and its return |

`insert_recovery_sequence` is called with the two tasks of `handle_failure`, on a failed task. The
two searches read no status and are called on plans nobody has begun.

**Scheduler.** A task id is `<<base, kind, n>>`, for `<base>`, `<base>_recovery_<n>`,
`<base>_retest_<n>`. `worker[t]` is where the asyncio task of `t` is: none, spawned, running,
planning, dead. `pc` is where `execute()` is. Actions and code:

| action | code |
|---|---|
| `Begin`, `Wake` (`EnterPass`) | a pass: `get_ready_tasks`, free slots, the slice of ready tasks |
| `DispatchWaits`, `DispatchFails`, `DispatchStarts` | one task of the slice: locks refused; no agent for its role; started |
| `Sleep`, `Finish` (`LoopEnds`) | the sleep, the tests for the end |
| `WorkerStarts` | the first step of `_run_worker` |
| `WorkerSucceeds`, `WorkerFails` | `worker.run()` returned or raised, nothing to recover |
| `WorkerAsksPlanner`, `RecoveryInserted`, `RecoveryRejected` | `handle_failure` before and after the planner's call |
| `WorkerCancelled`, `WorkerNeverStarts` | delivery of a cancellation |
| `Cancel`, `CancelAll` | the methods, called from outside |

The classifier (which failures are worth a plan), the planner's answer and the validator are
choices: the environment's `Stimuli` say which an instance allows.

**EngineeringRuntime** adds the decision (`Decide`: release what is locked, look at the
failed tasks, their retests, requirements and verdicts), the timeout (`TimesOut`, which
cancels `execute()` and nothing else), the interruption (`Interrupt`, then `LoopCloses` when
asyncio cancels what is left, and `MarkInterrupted`, which runs in a task of its own or is
called again by the CLI) and the flag `recovery_exhausted` (`GivesUp`). A verdict may name any
requirement, provided that a task that can give verdicts has completed. `Begins` stands
for `startswith` between the planned ids; the instance plans `task_1` and `task_10`.

**ModelHealth and ModelRouter.** Time is in ticks; a deadline is the number of ticks to it.
The statuses that `is_healthy` does not tell apart are merged. Counters stop where the code
stops telling their values apart. A request is a record: its phase, chain, place in it,
tries, its age, the time in the present call or sleep, the providers whose quota it found
exhausted. `Answered` is everything from one answer of a provider to the next suspension:
classification, health record, and the loop over retries and models up to the next call,
sleep or end. Scores are floating-point arithmetic over catalogue data, so any order of
the models may be chosen (`Orders`). Of the budget's counters the tokens are modelled, the
others have the same shape.

**AgentTodos and AgentLoop.** A call is an operation (a tool with its arguments), its kind (read,
edit, test, or no tool) and how it went. A todo item is its category, from which `score_todo` scores it.
`pc` is where the run is: in the script of a workflow or at its end, in the planning, at the head of the loop, before or
in a request, in the calls of an answer, at the governor. Actions and code:

| action | code (`agent/loop.py`) |
|---|---|
| `Start` | `run` up to the choice of a workflow, which also clears an earlier cancellation (2403 to 2458) |
| `PushGoesOn`, `PushSkips`, `PushStops` | one call of `run_git_push_workflow`: the script goes on, finds nothing to stage or commit, or stops |
| `TestLists`, `TestRuns`, `ExplainReads` | the calls of `run_test_workflow` and `run_explain_workflow` |
| `FlowConcludes`, `FlowAborts` | what the loop makes of a workflow's result (2483 to 2525) |
| `Plan` | the planning, where the plan of the goal is added, or nothing (2609) |
| `StopCancelled`, `NextIteration`, `Exhaust` | the head of the loop (2742) and what follows it (3438) |
| `Prepare` | compaction, the budget, the request |
| `ModelFails`, `ModelCalls`, `Nudge`, `Answer` | no model answered (2874); calls; text although nothing was tried (3166); text |
| `Malformed`, `Reject`, `Deny`, `Block`, `Reuse`, `Succeed`, `Fail` | the ways a call can go (2997, `_execute_tool_checked`), each with the statistics, the todo item, the governor's counts and the limit of calls |
| `Close`, `CloseStagnant` | the governor after the calls (3333 to 3436), `_stagnation_recovery` |
| `Cancel` | `cancel`, at any moment |

What the model answers, whether a tool succeeds, what a test run's output says, what the verification
finds and when the budget of tokens, cost or time is used up are choices. A call of a workflow is
followed at once by what `_record_workflow_tool` makes of it, so call, record and script's step on the plan are one
action: nothing in between looks at the plan. `goal.flow` is what `classify_workflow` reads in the words of the goal.
Three variables are history and guard nothing: `unrecovered` (the last call of the run that ran at all failed), `dirty` (files
changed since the last verification) and `lateRequests`. Shell commands that
run no tests are left out: they resolve inspection items, as reads do, but are never answered from a record.

**SessionStore.** `sess`, `runs`, `log`, `mem` are the tables; `proc[p]` is where the command of process `p` is and what
it has read. A shell is at rest between tasks (`pc = "shell"`), a one-shot command is over (`"idle"`).

| action | code |
|---|---|
| `CreateSession`, `AttachSession` | `create_session`, `_setup_session` of the shell |
| `ReadSession`, `WriteSession`, `EmitEvent` | `pause_session` to `archive_session`: get and check, update, log |
| `AskDelete`, `Decline`, `DeleteSession` | `harness session delete`: look up, ask, one transaction |
| `StartRun`, `InsertRun`, `FinishTask`, `ReadRun`, `WriteRun` | `_execute_task`: `start_run`, the execution, then `complete_run`, `interrupt_run` or `fail_run` |
| `CtrlC` | Ctrl+C while the result is shown or `complete_run` is between its calls: the handler around both calls `interrupt_run` (`interactive.py:1409`) |
| `CtrlCEscapes` | Ctrl+C in `start_run`, or in the handlers that call `interrupt_run` and `fail_run`, whose `except Exception` lets it pass (1265, 1416, 1431): the shell ends |
| `StorageError`, `Crash`, `ExitShell` | a storage call that raises, whose error the shell swallows; a kill; `/exit` |

Two variables are history: `done` (writes that took effect) and `lost` (what cut the shell of a run off from it: a fault, a crash, or a Ctrl+C
nobody caught). `done` and `log` are sets: a command that is repeated on one session and the event of its first time are not told apart.

**McpClient.** A request is its place in `asks`; the line that answers it and the thread that looks for it have the same
name. `pending` are the requests the server may still answer, `readers` the calls of `_read_json` that have not returned;
the first `PoolSize` of them have a thread. `Execute`, `StartServer`, `StartFails` are `MCPToolAdapter.execute` up to its
first await; `Initialized`, `NotInitialized`, `Discovered`, `NotDiscovered`, `CallReturns` (`Resume`) are what follows an await; `TimeOut`
is `wait_for`, which gives the reader up but not its thread; `ReadLine` and `ReadEof` are steps of a thread; `Shutdown`
is a part of the failures and of `CloseServer`. `NotDiscovered` is an answer to `tools/list` that is no list of tools: it raises, and the server is
shut down after all. Three calls are made on the thread of the loop and may hold it, as long as they like: the write of a request into a full
stdin (`AskBlocks`; it ends by `Written` when the server reads on, or by `WriteFails`), the read of stderr to its end after a
process has gone (`NoResult`, `Hang`, `Leave`), and the close of a stdout that a thread is reading (`ShutdownFor`, `CloseServer`, `Closed`). While `blocked` is
true no handler takes its `Turn`; threads, server and clock go on. `initialize` and `tools/list` are the first
messages into a new pipe and fit into it.

**MemoryStore.** A process is at rest, about to make the next update of its operation, writing, or renaming. `OpenTmp` makes
the update in the cache and opens the one temporary name, which cuts the file that has the name already; `WriteTmp` puts the
cache or, for a text that is read while another writes, nothing readable there; `Replace` renames. `Record`, `Retrieve`
and `Prune` plan the updates of an operation. `Start` reads the file; when that fails, or the text is no JSON at that moment, `_load` returns
and the cache is empty (`store.py:139`). `OpenFails` and `WriteFails` are exceptions out of `_atomic_write`: the cache has the update already, the
rest of the operation is dropped (`Raise`), and the process goes on. Ages are counted in the steps that the policy tells apart (30 and 90 days).
Three variables are history: `unread` (processes whose load failed and that have not written since), `unsaved` (processes whose last write
raised) and `met` (two processes have been up together).

**ProjectIndex.** A text is known by its imports, by whether the one pattern occurs in it and by whether it is too long to be indexed. The
index is one value, which `IndexFile` and `DropFiles` turn into another. Actions and code (`intelligence/__init__.py`):

| action | code |
|---|---|
| `FullScan`, `Refresh` | `_full_scan` and `refresh` up to the hashes: what the walk finds, the stamp (time and size) of what is to be indexed, in `todo`; a refresh drops what is gone, a full scan replaces the table of files and touches nothing else, also when `force` calls it on an index that is not empty |
| `Hash` | `fast_batch_hash` over `todo`; a file that cannot be read has none |
| `IndexNext` | a turn of either loop, for the files in any order: the same hash renews the stamp only (`SameHash`), a long file gets its stamp and keeps its symbols, any other is indexed (`Track`), with no symbols when it cannot be read |
| `OnFileChanged`, `Invalidate`, `InvalidateAll` | the hooks |
| `Grep` | a search that is not answered from the cache |
| `Write`, `Delete`, `Tick` | whoever writes files, also between two steps of a scan; time |

`Ignored` are paths that `.gitignore` names, which the native walk leaves out (and `on_file_changed` does not); `Skipped` are those `_should_track`
refuses. `Glob` and `Shown` are what the tools would answer in a state: `Glob` lists the index, or walks while that is empty; `Shown` is a cached result
filtered by `include`, which is no part of the cache's key. Two variables are history: `torn` (files whose symbols may not be of the text whose stamp and hash they have:
written between hash and turn, unreadable, or grown too long and back) and `ghosts` (files a forced full scan has forgotten). `Maintain` is `scan` at start-up plus those entries
of the facade that `Hooks` names; the program calls `scan` only, without `force`, the tests call the others as well.

## 4. Runs

A run's properties are those of its configuration. Runs marked V show a violation: the code does
not do what a line of its own documentation, comments or tests says (section 7).

| run | instance | what it shows |
|---|---|---|
| `task_graph_walks` | four tasks, every order of every loop; every subset of six forward edges and one back edge that closes cycles; four statuses each (1.6 million states) | cascade, rewiring and unblocking are what `TaskGraph` says; the cycle test and the sort are right |
| `scheduler_join` | five tasks, five resources (a directory; `src/a*` and `src/ab`, which share a file the conflict test overlooks; a pattern below a slash and a file it matches), two slots, one recovery each, a role without agent, every stimulus | exclusion, down to files; order; nothing starts after `cancel_all`; `execute()` always finds a task to start where the graph allows one; the inductive invariant, with slots and the agreement of graph, workers and locks in it |
| `scheduler_chain` | a task and its dependent, two slots, the code's three attempts | recoveries of recoveries run one at a time; history is kept; blocked tasks have causes; `execute()` returns |
| `scheduler_livelock` V | a join of two of three tasks | `execute()` may poll for ever |
| `runtime` | two parts, `task_1` and `task_10`, and their test, one requirement traced to a part and one to nothing, a timeout and an interruption at every suspension | what SUCCESS and FAILED mean, that an interruption holds, that the run drains |
| `router` | two agents, two models of two providers, nine kinds of answers, at every pace | cooling models are left alone, requests are answered in time, spending is bounded |
| `agent_loop` | a goal to fix and test, one to read, one for each workflow; a read, an edit, a test, and a call that is incomplete, unknown, garbled; three iterations of up to two calls; compaction and cancellation at every moment | what COMPLETED and PARTIAL are worth, no blind retries, a cancellation is obeyed, items stay finished, the run ends |
| `agent_denied_test` V | the same | a refused test command completes the test item, and the task is COMPLETED without a test |
| `sessions` | a shell and two one-shot commands, one session, one run, one crash or error, Ctrl+C at any moment | the log is true, a run ends once; it is tended while it runs and its end is recorded, unless a crash, an error or a Ctrl+C nobody catches took the shell away; the table of transitions is left only by overlapping commands |
| `mcp` | two workers, two threads, two starts of the server, executions that begin while fewer than three requests are sent, calls possibly in one millisecond, writes, reads and closes that hold the loop | no process is lost, an answer belongs to its request, every call returns or the loop is held for ever |
| `memory` | one process, restarted at will, killed once, with two loads or writes that fail; two texts, three entries, ages past each limit of the policy | only the policy removes an entry, and the first write after a load that failed; an idle process knows what the file says, but for loads and writes that failed |
| `project_index` | two files that import each other and a foreign module, one of which may grow too long, a file `.gitignore` names and one in a skipped directory, every entry of the facade with and without `force`, any read that fails, two writes, deletions or ticks | symbols are current, nothing dangles, glob and grep are honest, each up to what the code gives up (section 7) |

### Bounds, and why they are enough

* *Four tasks in the walks*: the shapes on which a depth-first walk goes wrong (a diamond, a
  task reached by two ways, a cut-off between two reachable parts, a cycle with a tail) need
  four. Statuses: the walks tell apart "has ended for good", "ended, can be reset", "blocked", and the rest.
* *Scheduler*: the resources have each shape of path and pattern that `_is_conflict` treats apart, a wildcard inside a component included; a join needs two branches, exclusion needs a task that conflicts with two others,
  and a slot limit of two with three tasks that may run makes a queue. One attempt is enough for
  what a recovery does to neighbours; `scheduler_chain` takes the code's three attempts, on the
  smallest plan with a dependent, because recoveries of recoveries are what its properties are
  about. `MaxAttempts` bounds the ids that exist; attempts are bounded by the code itself. The
  proofs cover all plans and limits.
* *Runtime*: two tasks that can fail apart, the id of one beginning that of the other, and a task that joins them, with a requirement of each
  kind. `MaxAttempts` is one, so that exhaustion happens on the first failed retest.
* *Router*: 60 s of base cooldown, 300 s of longest and of no-tool cooldown, 90 s for an attempt,
  120 s in total and at most 1 s of back-off are scaled to 1, 2, 2, 1, 1 and up to 1 tick: the
  orders between them that matter are kept (an attempt can pass the total timeout, a cooldown
  can end during a request, an exponential cooldown reaches its cap). The attempts per model
  are the code's, two. `FailureLimit` and `HitLimit` are two; in the code they are five and
  four. The answers `auth`,
  `payment`, `client` and `overflow`, Retry-After hints and pinned models are left to the
  proofs: in the code `auth` and `client` end the request as `unknown` does, `payment` and
  `overflow` go on to the next model as `permission` does. With one model per provider the exclusion of an
  exhausted provider has no effect beyond the test `Elsewhere`; the proofs hold for every
  `ProviderOf`. Agents are symmetric, and so are models, each swapped together with its provider.
* *Agent loop*: the limits are scaled, with the code's value in brackets: 3 iterations (30), 2 calls an
  answer (no limit), 3 calls until the limit (100), 2 in the budget (100), 2 kept by compaction
  (10), diagnosis and block at 2 failures (2, 2), stagnation 1 (3), diagnosis 0 iterations
  (5), 2 denials (3), 1 nudge (2). A workflow that explains reads one file (six). Every limit is reached by some behaviour and passed over by another;
  those that compete are close to one another, so that each can be the first. Three iterations allow a
  failure, what is done about it, and the answer. The proofs cover all limits.

* *Sessions*: an illegal transition needs one command that reads and another that writes in between, which two one-shot
  commands do; a third process adds nothing that the two do not do one after the other. A run is tended by one
  shell, and its calls are cut by one fault or by Ctrl+C as often as it likes, also by a second one that comes while the first is handled. Two sessions with one command
  were checked as well and show nothing new, since no call touches two sessions.
* *MCP*: two workers meet at a start, a timeout, a shutdown; a third could only wait. A pool of two is filled by two orphaned
  readers. An execution begins only while fewer than three requests are sent; those that have begun send what they have to. So there are
  two starts one after the other, or a start, its list of tools and calls of both workers. Whether stdin is full is a choice at every call. The
  clock starts where the ids of calls cannot be those of `initialize` and `tools/list`, as in the code. The proofs cover all pools and limits.
* *Memory*: three entries are one to delete, one to archive and one to summarise in one pass of the policy; four files are more than are
  ever open or named; two faults are a load that fails and a write that fails after it, or two writes of one operation. The properties are about processes that follow each other, and one that is restarted is enough for
  that: with two at a time the store promises nothing (section 7).
* *Index*: two files make every shape of edge and registration that `_resolve_import` tells apart (found, itself, not
  found, found under a wrong registration); two changes are a write and a write back, each of which may
  fall into the middle of a scan, or a file that grows too long and shrinks; the two other files make the difference
  between what a walk finds, what is tracked and what is searched (six million states).

`CHECK_DEADLOCK FALSE` stands where a system comes to an end: a run is over, a walk is one call.
The router, the sessions, the memory and the index
never stop, and their runs check for deadlock. In `mcp` the bounds on requests and starts end every behaviour.

## 5. Fairness

Five properties of passing runs are liveness properties: `Termination`, `RunDrains`, `RunEnds`, `RunsAreClosed` and `CallsReturn`.

* *Weak fairness of `Execute`*: `execute()` waits for a timer and for nothing else.
* *Strong fairness of the workers' steps*, together: `worker.run()` ends because the agent loop
  runs under `wait_for` with the contract's timeout, and the planner's call because the
  provider's HTTP client has a timeout. It is strong because a worker that may move is held
  up by every pass of `execute()`; taken together is enough because each worker has finitely many
  steps. That a failure, or a plan, ever arrives is not assumed.
* *Strong fairness of `RuntimeStep`*: a timeout that is due is delivered at the next
  suspension, and the cleanup of an interruption is a task of the loop.
* *Weak fairness of `LoopStep`*: the agent loop waits for nothing but a request, which the router or the
  provider's HTTP client ends, and a tool, which runs under `wait_for` (`loop.py:2143`). What the answer is, and
  whether the run makes progress, is not assumed; `RunEnds` rests on the limit of iterations and on the length of the scripts,
whose tools end their subprocesses after a time of their own (`tools/git.py:524`).

* *Weak fairness of `Continue(p)`* for each process of `sessions`: a process goes on with the command it is in. It includes the end
  of the task a shell executes, which `RunDrains` and `RunEnds` show. Nothing is assumed of users, faults and crashes.
* *Strong fairness of `Resume(w)` or `TimeOut(w)`* for each worker of `mcp`: whenever the loop of asyncio is free it resumes what is ready and fires the
  timers that are due, all of them before it starts over. It is strong because the loop may be held, and freed, again and again by calls of the other worker. Nothing is
  assumed of the server, of the threads, nor of the end of a call that holds the loop: `CallsReturn` holds with a server that never answers and a
  pool that is full, and says of a loop that is held for ever only that this is the one way for a call not to return.

No fairness is assumed of `Interrupt`, `Cancel`, `CancelAll` or of any outcome.
`Termination` is checked without `cancel()`: a worker cancelled before its first step leaves
its entry behind, and `execute()` then polls for ever (hazard at `scheduler.py:191`).
`RunDrains` holds where `Termination` does not, since the run has a timeout.

## 6. Proofs

All theorems hold for every value of the constants that the assumptions of the modules admit
(`SchedulerAssumption`, `RuntimeAssumption`, `HealthAssumption`, `RouterAssumption`, `AgentAssumption`,
`McpAssumption`, `SessionAssumption`, `MemoryAssumption`, `IndexAssumption`, `FilesAssumption`:
finite sets of tasks, agents and models, a symmetric conflict relation, natural numbers as limits, the
kinds of operations disjoint).

**Task graph** (lemmas, first part of `EngineeringRuntime_proofs`). `Reach` is closed and least
(`ReachIsLeast`). From that: what a cascade may change, and that it spares what has been started
(`CascadeSparesStarted`); that what it blocks has a cause (`CascadeHasCauses`); and for a status
update, for marking and for an insertion, that they keep "started after its dependencies",
"dependencies are in the graph" and "blocked has a cause". They speak of any set of tasks and
any two functions on it (`stat`, `needs`), to be used on states and on successor states alike.

**Walks** (`TaskGraphWalk_proofs`). The three properties speak of the end of a walk; the invariant
(`WalkInv`) says what holds in the middle of it.

* *Cascade* (`CascadeInv`): what has been changed lies in `Reach`, since it was reached from
  something changed; and the walk owes nothing, since every eligible dependent of the subject or
  of a changed task is changed already or in the `todo` of some call (`Spreads`). With an empty
  stack the changed tasks are closed under dependency, so they are `Reach`, the least closed set.
* *Insertion* (`InsertInv`): the same argument, with one step more to it. A walk looks up dependents in a graph half
  rewired (`HalfRewired`). It misses no dependent of the rewired graph, since a task the loop has not come to only loses the failed
  task, which a walk may come from, and gains the retest, which is CREATED and no walk comes
  from; what it sees besides, an old dependent of the failed task, is in `left` and is looked at anyway.
* *Search* (`SearchInv`): the grey tasks are those of the stack, each once, and each depends on
  the next one in (`Path`), so a grey task met closes a cycle (`GreyIsCycle`). A task turns black when all it
  depends on is black, so among any black tasks one waits for no other (`Grounded`), and in
  `sorted` each stands after what it depends on. `topological_sort` passes by a grey task; this
  happens only on a cycle, and the invariant says of the order nothing else then (`Exact`).
* *End* (`WalkWindsDown`): no task has two calls under way and none is called on again (`Single`), so
  the pairs (task, dependent) still to be walked only become fewer. Twice these, twice
  `left`, and the length of the stack make a number (`StepsLeft`) that every step of a walk lowers, on cyclic graphs too.

**Scheduler** (`EngineeringRuntime_proofs`, second part). The safety properties are not inductive one by one.
`IInv` is their strengthening; TLC checks it in `scheduler_join`. Its parts and their use:

* `StartedAfterDeps`, `StatusMatchesWorker`: a task that ends was running, so what depends on
  it has not been started, and the cascade meets only tasks it may change;
* `BlockedHasCause`, `DepsInGraph`: preserved by cascade and unblocking by the lemmas above;
* `ChainOrder`: the unsettled tasks of one base id stand in a line. Two of them cannot both have
  all their dependencies completed, so two workers of one base id never live at once
  (`ChainIsSequential`), although `handle_failure` compares attempts before a suspension and
  counts after it;
* with it `PlannerMayInsert` (a planner's answer finds a free attempt) and
  `FreshBeyondAttempts` give `AttemptsBounded` and `RecoveryIdsFresh`;
* `BatchIsReady`, `RoomForBatch`, `DispatchRuns`: what a pass computed at its head is still
  true when it dispatches the last task of the slice; they give `SlotBound` and
  `NoStartAfterCancelAll`;
* `LockExclusion` and `LiveWorkersHoldLocks`, which need each other and the symmetry of the conflict test.

The invariance proof goes by action, grouped by what an action does to the graph: ends a task
(`EndStep`), inserts (`InsertStep`), starts (`StartStep`), nothing (`QuietStep`); locks and
slots are separate lemmas. `SchedulerManagesLocks` shows that every step, seen on the lock
table alone, is a step of `WorkspaceLocks`, for which `LocksExclusion` is proved.

*Files* (`SchedulerNoSharedFile`). `LockExclusion` is about resources, agents work on files. `SharingConflicts` goes from one to the other: two
prefixes of one path are comparable (`PrefixesOfOne`), so resources that share a file have comparable static prefixes, which is what
`_is_conflict` tests, unless one of them has its wildcard inside a path component and the other another name in its place (`Overlooked`). For `src/te*.py` the test compares
`te` with whole components and overlooks `src/test.py` (section 7); the theorem excludes these pairs and no others, so for `src/*`, `src/**` and plain paths, what contracts are
written with, live workers share no file. `RuntimeNoSharedFile` says for how long the runtime keeps it: until the run is decided or
interrupted, when locks are taken from workers that are still alive; after a timeout the workers stay and so do their locks.

*Progress* (`SchedulerNeverStuck`). That `execute()` returns is liveness and false in general (section 7). What is proved is the part that
is a matter of states. A plan that `validate` accepted stays without cycles: an insertion adds edges nobody validates, and
the proof gives the tasks new numbers, three for each old one, so that the debug task and the retest find a place behind the task that failed and before
what waits for it. What is locked is locked by a worker, or by a failed task (`LocksAreOwned`). So a scheduler without workers whose graph is not complete has a task whose
dependencies are completed (the least of the unfinished ones: well-founded induction) and whose locks are free, unless a task waits for one that failed or was
cancelled, or a failed one has kept its locks for want of an agent. Recoveries do not matter: they make what waited for the failed task wait for the retest. In
`scheduler_livelock` a join waits for a task that failed for good.

**Runtime** (`EngineeringRuntime_proofs`). `RInv` is the core of the scheduler's invariant plus what
the runtime adds: `Control` (phase, outcome and `pc` agree), `Unlocked` and `Stopping` (after the
cleanup nothing is locked, the flag is down and every live worker has been told to stop). It
gives `RuntimeInterruptedHoldsNothing` and `RuntimeNothingFinishes`. Of the scheduler's invariant
`LiveWorkersHoldLocks` is lost here, as the runtime takes locks from workers that outlive it;
`LockExclusion` stays (`RuntimeExclusion`). `RuntimeSuccessIsAccounted` holds for every relation `Begins` between ids: what SUCCESS counts as the recovery of a task
is a completed retest of the task itself or of one whose id begins with its id (`CountedRetestCompleted`), because `_all_failures_recovered` takes
`task_10_retest_1` for a retest of `task_1`. A task whose id begins no other one has thus been completed or recovered itself.

*Reasons of failure* (`RuntimeFailureHasReason`). `recovery_exhausted` is set by one worker and read at the end; between them other
recoveries may succeed. The invariant follows the tasks of one base id. `RecoveryReady`: a recovery never waits for anything
that is not completed. `FailedFirst`: whoever has been recovered has failed for good. `RecoveryIsNeeded`: a recovery is open
only while its base id lacks a completed retest or has a failed one. From these, when the attempts of a base id are spent, it is `Hopeless`:
each of its tasks that is not settled waits for one of them that will not be completed; and it has `Missed`: its planned task is neither completed nor recovered, or
a retest failed. Both stay (`HopelessStep`), which is `GaveUp`; `TaskSteps` says once what a step may do to one task, and `InsertEffects` what an insertion does.

**Router** (`ModelRouter_proofs`). `IInv` adds to the types: `ClockIsWatched` (a call starts only
when its request is within the total timeout, so its age is bounded by that and the time of the
present call or sleep), `NoToolHasNoCooldown` (the reason why looking at the no-tool window alone,
`health.py:161`, does not overlook a cooldown) and `SpendIsBounded`. `CooldownsAreRespected` follows from
`HealthyIsCool` and from the check before every first call on a model.

**Agent loop** (`AgentLoop_proofs`). `TypeInv` adds to the types where the run can be (`Control`);
`LimitInv` has three parts: `BudgetKept` (what is left of an answer is counted in advance, which makes
"one answer at most" inductive), `LateIsLast` and `GovernorKept`. `AgentCompletionIsHonest` needs more than
the gate, because the gate reads a history that compaction has cut: `FailureKept` says that the last
failure of the run is still in the history, as only refusals can follow it without recovering it, fewer than
`DenialStop` of them lie between two requests (`GovernorKept`), and compaction keeps `KeepCalls >= DenialStop` calls
(in the code ten, and three denials). `AgentPartialIsHonest` rests on `FailingKnown`, which ties
the statistics to the history. With workflows two more facts are needed (`FlowKept`): behind the step of a script every item is
resolved, and a script that came through has resolved all of its items; so the gate can refuse it only for a failure that
was not made good, and that failure is in the statistics. This is the lemma `ScriptIsDecided`: a workflow that came through
is COMPLETED, goes on explaining, or is FAILED, and the branch that sets PARTIAL (2512), after which `run` would go on into
the planning, is never taken. `FinishedKept` is the lemma behind `AgentTodosNotReopened`. `AgentNoBlindRetry` counts in the history, which compaction cuts, while the code
counts in a table it clears. `RetryInv` joins them: the failures of an operation behind any point of the history are at most its count, unless something
made them good since (`CountsKept`), a count never passes the limit, and hence no stretch of the history without a remedy has more failures than the limit
(`StretchesKept`). A call appends to both, compaction takes a suffix, in which every stretch is one of the old history.
`AgentWindsDown` is the safe half of `RunEnds`: `StepsLeft`, what is left of the iteration, of the answer and of the script, with the iterations still allowed,
is a number that every step of the loop lowers and a cancellation leaves. So nudges, refusals, blocked or repeated calls cannot keep a run going, whatever the model
answers; that the loop takes its steps at all is the fairness TLC's check assumes.

**MCP client** (`McpClient_proofs`). `Inv` is the types with `OneProcess`, `AnswerHasMyId` and `LinesAreOwn` (a pipe holds lines of its
own process: without it a reader could match an id of another process). The proof goes by the shape of a step: every action
leaves the requests as they are and appends at most one (`Grows`), moves lines in their own pipes (`PipesMove`) and resumes workers
with lines that match (`WorkersMove`); `StepKeeps` says that steps of this shape keep `Inv`, and each action is shown to have it.
`McpCallsWindDown` is the safe half of `CallsReturn`: a call waits for at most three answers (initialize, list, call), and `Distance`, what is left of them,
falls with every step that touches its worker, whatever other workers start, shut down or let fail; nine such steps are the most, with a write that holds the loop and a
wait for each answer. A call can hang only by standing still, which the timers prevent while the loop is free; that they fire is the fairness TLC's check assumes.

**Sessions** (`SessionStore_proofs`). `SessionInv` is the types, `LogIsTrue` and `RunningIsTended` with what makes them inductive:
`ProcsFit` (what a command between two storage calls may rely on: which kind of process it is, which status it has read and
that its target follows from it), `RowsFit` (a run is deleted with its session only), `RunsFit` (a run is in the hands of one
shell, and while it is no end of it is recorded) and `EventsFit` (an end is recorded once, and what is about to be recorded is true). The proof goes by the shape of a step: one that touches no row (`Quiet`), writes a row of a session (`Write`),
appends an event (`EmitEvent`) or deletes a session with what hangs on it. `EndIsFinal` follows from `RunsFit`: a command
writes the end of a run only while the run is RUNNING or gone with its session. `StepsAreLegal` follows from `ProcsFit`; it says less than that the
stored rows follow the table, which is false (section 7).

**Memory** (`MemoryStore_proofs`). `StoreInv` says of processes that follow each other: one of them is up at a time (`OneWriter`); between updates its
cache is what the file says, if it has read the file and its last write did not raise; while it writes, the temporary file is another one than the file, and holds nothing or its cache; what the file has and the cache
has not is past its age (`Kept`), unless the load failed; and what the operation has still to delete is past its age as well, and is deleted before anything is archived
(`PlanFits`). So a kill at any step leaves the file as it was before an update or after it, and `NothingIsEverLost` holds although one pass of the policy is many
rewrites. A write that raises leaves a cache that has more updates than the file, which `Kept` allows: the next write takes nothing away. A load that failed is the one exception,
and the property names it: the first write after it puts what the process has made itself in the place of everything. The invariant is conditional on `~met`: with two processes at a time it is false.

**Index** (`ProjectIndex_proofs`). `SymbolsAreCurrent` is not inductive: a refresh that finds the hash it knows renews the stamp and does not read the file. What
makes this right is `HashIsIndexed` (a hash is that of the indexed text, unless there is none, it is of a text that is too long, or the scan has not come to it), and what makes
the hash right while a scan is under way is `TodoWasRead`. Both leave out `torn`: a file written between its hash and its turn is indexed in the new text under the old hash,
a file that cannot be read at its turn keeps its hash without symbols, and a file that is too long gets a hash and keeps its old symbols; if the text of that hash is there
at the next refresh, the stamp is renewed and the file not read. Without the exclusion TLC refutes the property; the
proof shows that nothing else can go wrong. `NothingDangles` follows structure by structure, with the files a forced full scan has forgotten in `ghosts`. `ScanIsWhole` and
`CacheWasRight` are what glob and grep rest on (`ToolsAreHonest`).

*Left to TLC*: liveness (`Termination`, `RunDrains`, `RunEnds`, `RunsAreClosed`, `CallsReturn`) and everything with ENABLED, which are out of
the provers' reach; that a walk which has not returned can always take a step is of this kind, and TLC found it so.
Every other property of a passing run, that is, every invariant and every action property, is a theorem. `LocksAreManaged`, the refinement of `WorkspaceLocks`, is a theorem only: on an
instance it says no more than `LockExclusion`. `LiveWorkersHoldLocks`, `SlotBound`, `StatusMatchesWorker`, `AttemptsBounded`,
`RecoveryIdsFresh`, `CallsBounded` and `GovernorObeyed` are theorems too; runs check the first three inside `IInv`
and the others not on their own. `StoreInv`, `IndexInv`, `RetryInv`, `CallsWindDown`, `WalkInv` and both `WindsDown`
were checked by TLC on the instances of their runs as well. That every lock has a live worker (`LocksHaveWorkers`) holds for plans whose agentless
tasks lock nothing, and is neither run nor proved.

## 7. Where code and words disagree

Two runs show violations; each is a finding in `PROJECT.json` with the line it contradicts.

1. `scheduler_livelock`: a join behind a final and a recovered failure stays CREATED, and
   `execute()` polls for ever (`agents/scheduler.py:181`).
2. `agent_denied_test`: a refused test command counts as the test of the plan (`agent/todos.py:259`).

Patterns that conflict are compared by whole path components, so `src/a*` and `src/ab` are granted together (`agents/locks.py:158`): this pair is in
`scheduler_join`, and `NoSharedFile` names it as the exception (without `Overlooked` TLC refutes it at once). Three more were shown by runs of their own,
which have made room for other components: `execute()` may return while a worker waits for
the recovery planner, whose recovery is then inserted and never executed (`agents/scheduler.py:242`); the branch of an unavailable
model lacks its `break`, and the model is called again at once (`routing/fallback.py:485`); every task that starts resets the
budget all agents share (`agent/loop.py:2435`).

Seen while modelling, not given a run: the total timeout of a request can be exceeded by one attempt
(`fallback.py:303`; `AnswersInTime` states what does hold); a failed authentication ends
the request, while docs/model-routing.md:104 says that the next model is tried (`fallback.py:575`);
the same document says that timeouts are retried and that `max_retries` is 2, the code does not
retry them and has 1; five consecutive failures close a model without a date (`health.py:171`); an
answer that arrives late can overwrite the UNAVAILABLE status of a failed authentication
(`health.py:243`); the timeout branch of `execute_interactive` names `TaskStatus.PENDING`, which
does not exist (`runtime.py:582`); a task without an agent keeps its locks until the runtime
releases them (`scheduler.py:125`); `startswith` takes `task_10_retest_1` for a retest of `task_1`, so that a run may be a SUCCESS although `task_1` failed
for good, while the comment above speaks of an exact prefix (`runtime.py:839`; `SuccessIsAccounted` says what does hold, on a plan with both ids). In the agent loop: a read that succeeded is answered from its record also after the
file was changed (`loop.py:2119`); the limit of calls leaves the inner loop only, and the next
iteration sets the status back to EXECUTING (`loop.py:3161`); a run that is PAUSED for a resume fails its
open items first (`loop.py:2855` on); an implement item that failed once is never completed, whatever succeeds
later, since an edit that succeeds leaves its status alone (`todos.py:274`); a call whose arguments do not
parse is in the history, but neither in the statistics nor under the limit (`loop.py:3065`); evidence for a
goal is sought in the history after compaction (`completion.py:156`); `_recent_failures` is written and
never read; from a test summary that is not understood, the verdict of an earlier test is kept.

In the workflows: the script of a push stops at an ERROR only, and a push that times out is a TIMEOUT (`workflows.py:250`,
`tools/git.py:524`): its item is completed, the log that follows makes the failure good for the gate, and the task is COMPLETED
with "Project successfully pushed". `PushedMeansPushed` states what one expects; put in the place of `TestsWereRun` in
`MCAgentDeniedTest.cfg`, TLC refutes it in a trace of nine states. A log that fails after a push that succeeded makes the run FAILED,
although the script notes that the push succeeded (264). Every tool of git fits every open item of git a little (`todos.py:225`),
so a call completes items of others: `git_remote` completes "Stage intended changes" and `git_add` "Push to remote", before
either is done, and after a commit a push that fails leaves every item COMPLETED in a run that is FAILED. A cancellation and the budget are not looked at during a
workflow, and its calls count as iterations, so that an explanation may be out of iterations before the model is asked.

In the sessions: of two overlapping commands the later write wins, so that `resume` can bring an ARCHIVED session back, which the
table calls terminal (`session/domain.py:58`; `StepsAreLegal` states what does hold); foreign keys are declared and not enforced, so a
command that races with a deletion leaves rows without a session; a crash leaves RUNNING rows, which `get_resume_state`
(`session/manager.py:294`) does not report, though the class speaks of crash detection (38); `start_run` whose event fails leaves a RUNNING row the
shell does not know; a second Ctrl+C, while `interrupt_run` or `fail_run` handles the first or a failure, and one in `start_run`, pass every `except Exception` and leave such a row too
(`cli/interactive.py:1265`, 1416, 1431), without crash or error of the database; `complete_run` also records outcomes that failed.

In the MCP client: ids are milliseconds, so two calls of one millisecond may get each other's answers (`mcp/client.py:209`); a start that
is cancelled leaves a process that runs and is never initialized; a server that died stays in `_initialized` and is not started again,
though the adapter speaks of reconnecting (`mcp/adapter.py:87`); readers whose callers gave up keep their threads and take lines of later calls; `write` and `flush` of
stdin (`mcp/client.py:235`), the read of stderr (`mcp/adapter.py:113`) and the close of a pipe that a thread reads (`client.py:305`) run on the event loop: a server that stops
reading, or a child of it that keeps a pipe open, stops every worker, and the timeout of the call cannot fire.

In the memory: a load that cannot read the file for a moment, or finds no JSON, is taken for an empty memory (`memory/store.py:139`), and the next
record writes it over all entries; `save`, `update` and `delete` change the cache before the write that may raise, so that memory and file differ until the next write; two processes write over each other's entries and share one temporary name, so that an update is lost, the file is
garbled or the rename fails (`memory/store.py:117` says that writes are atomic); archived entries are never deleted, and the
limit on entries is not enforced by the policy.

In the index: nothing in the program calls `refresh`, `on_file_changed` or `invalidate` after start-up, so glob answers from an old list of files; and also right after a scan it is not
the walk whose contract `tools/search.py:34` calls identical: files that `.gitignore` names, files in skipped directories and keys are left out, hidden files are
not. `AnswersAreHonest` states what does hold. An import that is not found is registered under the importer
(`intelligence/__init__.py:187`), and another importer of the same module gets an edge to it; an import of a file that
appears later gets its edge only when the importer is indexed again. Cached searches are related
to relative paths and invalidated by absolute ones, which never match (`cache/search_cache.py:116`); grep filters them by `include` afterwards (`tools/search.py:234`), so that it may say
"no matches" from an old result, although empty results are not cached. Symbols that are not those of the text, under a stamp that is: of a file that has grown too long
(`intelligence/__init__.py:144`, 227, 271: the stamp is renewed, the old symbols stay); of a file that could not be read at its turn (`indexing/symbols.py:211`: it has none, and no refresh reads it
again while its hash is the same); of a file that is written between its hash and its turn in a scan (217) and written back later. `on_file_changed`
does not ask `.gitignore` and tracks what a scan would not. A forced full scan replaces the table of files and leaves symbols, edges and registrations of files that
have vanished (139). The fallback in Python (`native/__init__.py:150`) does not know `.gitignore` either, and a file it may not open makes every scan raise (186).

## 8. What is left out of the modelled parts

Prompts, event payloads, reports, metrics, latencies and the wording of errors. Of the scheduler: the
attachment to the bus, memory records. Of recovery: how the classifier reads a text and what the plan
contains. Of the runtime: everything before EXECUTE (planning, traceability, contexts, which
are inputs here) and checkpoints. Of health: `reset()`, which nothing calls, and statistics. Of the router:
scores, discovery of models, the budget's other counters and limits per model, which are unset by default.
Of the agent loop: prompts and context assembly, steering messages, the streaming of answers, and the limit of reads without a change, which only adds a correction.
Of the sessions: checkpoints, exports, edits of memories and whatever only reads. Of the MCP client: configuration, the texts of tools and
results; servers share nothing but the pool, so one stands for all. Of the memory: ranking, sanitising, the graph that
nothing decides on. Of the index: the parsing of sources, the other languages, candidates and symbol queries, which only read.

The map covers about a seventh of the implementation. The rest is mainly layout of terminals, configuration, HTTP and
subprocesses, catalogues, prompts and heuristics over text: code that keeps no state another part decides on, or whose every
property is about wording. The parts of it that have state are in the table of section 1.

## 9. Plan

1. *Done*: task graph and walks; paths, locks and the files behind them; scheduler with recovery; runtime; health and router; agent loop with workflows;
   sessions; MCP client; project memory; project index. Every safety property the passing runs check is proved.
2. *Proofs to come*: bounded waiting of a
   routed request under retries; the session's log in the order of its writes; which tasks a final failure leaves for ever blocked.
3. *Around the agent loop*: the steering queue (a message is applied once, in order, or reported as not applied), resumption of a PAUSED task. An abstract worker (succeeds, fails, is cancelled), which `Scheduler` uses,
   implemented by the loop.
4. *Parallel scheduler* and *executor* with tokens, the *message bus*, when the program uses them.
