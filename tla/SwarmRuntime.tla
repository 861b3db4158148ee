---------------------------- MODULE SwarmRuntime ----------------------------
(***************************************************************************)
(* One swarm run, as SwarmRuntime drives it (swarm/runtime.py): start_run  *)
(* creates the run and spawns a coordinator thread; the coordinator walks  *)
(* the layers of the task graph, gives the tasks of a layer to a thread    *)
(* pool, waits for them up to a deadline, records the outcomes and writes  *)
(* the verdict.  Task state lives in tasks/task-*.json, run state in       *)
(* run.json, and the coordinator keeps a copy of the tasks in memory.      *)
(*                                                                         *)
(* The processes are the coordinator thread (pc), one pool thread per      *)
(* submitted task, and whoever calls cancel_run.  Only the coordinator     *)
(* writes files, so a load-modify-save of update_status is one step.       *)
(***************************************************************************)
EXTENDS FiniteSets, Integers

CONSTANTS
  Task,        \* task ids of the run
  DependsOn,   \* depends_on of each task
  LayerOf,     \* the layer topological_layers puts each task in
  LastLayer,   \* len(layers) - 1
  Staffings,   \* possible sets of tasks whose agent_id the preset declares
  Timed,       \* the tasks whose agent has a timeout_seconds other than 0
  MaxRetries,  \* max_retries of the agents
  MaxWorkers,  \* max_workers of the runtime
  MaxFaults,   \* bound on failing file operations
  MayCrash     \* whether the host process may die

ASSUME TaskAssumption == IsFiniteSet(Task) /\ Task # {}
ASSUME DependsOnAssumption == DependsOn \in [Task -> SUBSET Task]
\* What topological_layers returns (GraphChecks_proofs, LayersOrderDependencies);
\* a layer it returns is never empty.
ASSUME LayersAssumption ==
  /\ LastLayer \in Nat
  /\ LayerOf \in [Task -> 0..LastLayer]
  /\ \E t \in Task : LayerOf[t] = LastLayer
  /\ \A t \in Task : \A d \in DependsOn[t] : LayerOf[d] < LayerOf[t]
ASSUME BoundsAssumption ==
  /\ Staffings \subseteq SUBSET Task /\ Staffings # {}
  /\ Timed \subseteq Task
  /\ MaxRetries \in Nat
  /\ MaxWorkers \in Nat \ {0}
  /\ MaxFaults \in Nat
  /\ MayCrash \in BOOLEAN

VARIABLES
  pc,          \* where the coordinator is
  layer,       \* layer_idx
  todo,        \* what is left of the loop the coordinator is in
  resolving,   \* the completed task resolve_dependencies is about to handle
  status,      \* run.status in memory
  mem,         \* run.tasks in memory: status of each task
  staffed,     \* the tasks whose agent_id is in agent_map; never changes
  allOk,       \* all_succeeded
  summaries,   \* keys of task_summaries
  report,      \* the task final_report comes from, as a set of at most one
  results,     \* the dict _execute_layer builds: "none" means no entry
  worker,      \* thread pool: what became of the task's future
  attempts,    \* run_worker calls made for the task
  outcome,     \* status in the WorkerResult of the future
  file,        \* status in tasks/task-*.json
  blockedBy,   \* blocked_by in tasks/task-*.json
  runStatus,   \* status in run.json
  runTasks,    \* tasks' statuses in run.json
  runReport,   \* final_report in run.json
  cancel,      \* the run's cancel event
  registered,  \* whether _cancel_events has the run
  faults       \* failed file operations so far

memVars    == <<status, mem, staffed, allOk, summaries, report>>
poolVars   == <<worker, attempts, outcome>>
taskFiles  == <<file, blockedBy>>
runFile    == <<runStatus, runTasks, runReport>>
cancelVars == <<cancel, registered>>
vars == <<pc, layer, todo, resolving, memVars, results, poolVars, taskFiles,
          runFile, cancelVars, faults>>

TaskStatus == {"absent", "pending", "blocked", "in_progress",
               "completed", "failed", "cancelled"}
RunStatus  == {"absent", "pending", "running", "completed", "failed", "cancelled"}
TerminalTask == {"completed", "failed", "cancelled"}
TerminalRun  == {"completed", "failed", "cancelled"}

\* WorkerStatus, as far as the runtime tells its values apart: "unfinished"
\* stands for timeout, token_limit and incomplete, which are neither a success
\* nor a reason to retry.
Outcome == {"completed", "failed", "unfinished"}
NoOutcome == "none"

PC == {"new", "created", "armed", "saving", "layer", "cancelling", "launch",
       "collect", "settle", "sync", "finish", "load", "write", "close", "done",
       "lost", "dead"}

\* The status build_run_from_preset gives a task.
InitialStatus(t) == IF DependsOn[t] = {} THEN "pending" ELSE "blocked"

Init ==
  /\ pc = "new"
  /\ layer = 0
  /\ todo = {}
  /\ resolving = {}
  /\ status = "pending"
  /\ mem = [t \in Task |-> InitialStatus(t)]
  /\ staffed \in Staffings
  /\ allOk = TRUE
  /\ summaries = {}
  /\ report = {}
  /\ results = [t \in Task |-> NoOutcome]
  /\ worker = [t \in Task |-> "none"]
  /\ attempts = [t \in Task |-> 0]
  /\ outcome = [t \in Task |-> NoOutcome]
  /\ file = [t \in Task |-> "absent"]
  /\ blockedBy = [t \in Task |-> {}]
  /\ runStatus = "absent"
  /\ runTasks = [t \in Task |-> "absent"]
  /\ runReport = {}
  /\ cancel = FALSE
  /\ registered = FALSE
  /\ faults = 0
-----------------------------------------------------------------------------
\* TaskStore.save_task and update_status, SwarmStore.update_run: each file is
\* written beside itself and moved into place, so that it is never seen half
\* written.
SaveTaskFile(t, new, blocked) ==
  /\ file' = [file EXCEPT ![t] = new]
  /\ blockedBy' = [blockedBy EXCEPT ![t] = blocked]
UpdateStatus(t, new) == file' = [file EXCEPT ![t] = new]
UpdateRun(new, tasks) == runStatus' = new /\ runTasks' = tasks
-----------------------------------------------------------------------------
(***************************************************************************)
(* start_run, and the coordinator up to the first layer                    *)
(***************************************************************************)
CreateRun ==
  /\ pc = "new"
  /\ pc' = "created"
  /\ UpdateRun(status, mem)
  /\ UNCHANGED <<layer, todo, resolving, memVars, results, poolVars, taskFiles,
                 runReport, cancelVars, faults>>

\* Register the cancel event, then start the coordinator thread.
Register ==
  /\ pc = "created"
  /\ pc' = "armed"
  /\ registered' = TRUE
  /\ UNCHANGED <<layer, todo, resolving, memVars, results, poolVars, taskFiles,
                 runFile, cancel, faults>>

MarkRunning ==
  /\ pc = "armed"
  /\ pc' = "saving"
  /\ status' = "running"
  /\ UpdateRun("running", mem)
  /\ todo' = Task
  /\ UNCHANGED <<layer, resolving, mem, staffed, allOk, summaries, report,
                 results, poolVars, taskFiles, runReport, cancelVars, faults>>

SaveTask(t) ==
  /\ pc = "saving"
  /\ t \in todo
  /\ SaveTaskFile(t, mem[t], DependsOn[t])
  /\ todo' = todo \ {t}
  /\ pc' = IF todo' = {} THEN "layer" ELSE "saving"
  /\ UNCHANGED <<layer, resolving, memVars, results, poolVars, runFile,
                 cancelVars, faults>>
-----------------------------------------------------------------------------
(***************************************************************************)
(* The layer loop of _execute_run                                          *)
(***************************************************************************)
BeginLayer ==
  /\ pc = "layer"
  /\ layer <= LastLayer
  /\ ~cancel
  /\ pc' = "launch"
  /\ todo' = {t \in Task : LayerOf[t] = layer}
  /\ results' = [t \in Task |-> NoOutcome]
  /\ UNCHANGED <<layer, resolving, memVars, poolVars, taskFiles, runFile,
                 cancelVars, faults>>

\* Mutant of CancelAtBoundary: failed tasks are cancelled as well.
CancelAtBoundaryFailedToo ==
  /\ pc = "layer"
  /\ layer <= LastLayer
  /\ cancel
  /\ pc' = "cancelling"
  /\ todo' = {t \in Task : mem[t] # "completed"}
  /\ allOk' = FALSE
  /\ UNCHANGED <<layer, resolving, status, mem, staffed, summaries, report,
                 results, poolVars, taskFiles, runFile, cancelVars, faults>>

\* The check between layers found the cancel event set: what
\* _cancel_remaining_tasks will go through is read from memory, not from disk.
CancelAtBoundary ==
  /\ pc = "layer"
  /\ layer <= LastLayer
  /\ cancel
  /\ pc' = "cancelling"
  /\ todo' = {t \in Task : mem[t] \notin {"completed", "failed"}}
  /\ allOk' = FALSE
  /\ UNCHANGED <<layer, resolving, status, mem, staffed, summaries, report,
                 results, poolVars, taskFiles, runFile, cancelVars, faults>>

\* One task of _cancel_remaining_tasks; a failing update is logged and skipped.
CancelTask(t) ==
  /\ pc = "cancelling"
  /\ t \in todo
  /\ todo' = todo \ {t}
  /\ \/ /\ UpdateStatus(t, "cancelled")
        /\ UNCHANGED faults
     \/ /\ faults < MaxFaults
        /\ faults' = faults + 1
        /\ UNCHANGED file
  /\ UNCHANGED <<pc, layer, resolving, memVars, results, poolVars, blockedBy,
                 runFile, cancelVars>>

EndCancelling ==
  /\ pc = "cancelling"
  /\ todo = {}
  /\ pc' = "finish"
  /\ UNCHANGED <<layer, todo, resolving, memVars, results, poolVars, taskFiles,
                 runFile, cancelVars, faults>>

EndOfLayers ==
  /\ pc = "layer"
  /\ layer > LastLayer
  /\ pc' = "finish"
  /\ UNCHANGED <<layer, todo, resolving, memVars, results, poolVars, taskFiles,
                 runFile, cancelVars, faults>>
-----------------------------------------------------------------------------
(***************************************************************************)
(* _execute_layer: submit, collect, deadline                               *)
(***************************************************************************)
\* Mutant of NotCompleted: only a failed dependency blocks.
NotCompletedIfFailed(t) == {d \in DependsOn[t] : file[d] = "failed"}

NotCompleted(t) == {d \in DependsOn[t] : file[d] # "completed"}

AfterLaunch(t) ==
  /\ todo' = todo \ {t}
  /\ pc' = IF todo' = {} THEN "collect" ELSE "launch"

\* An upstream task is not completed: the task is marked blocked and gets no
\* result.
LaunchBlocked(t) ==
  /\ pc = "launch"
  /\ t \in todo
  /\ NotCompleted(t) # {}
  /\ SaveTaskFile(t, "blocked", NotCompleted(t))
  /\ AfterLaunch(t)
  /\ UNCHANGED <<layer, resolving, memVars, results, poolVars, runFile,
                 cancelVars, faults>>

\* No such agent: a failed result, without the task being started.
LaunchWithoutAgent(t) ==
  /\ pc = "launch"
  /\ t \in todo
  /\ NotCompleted(t) = {}
  /\ t \notin staffed
  /\ results' = [results EXCEPT ![t] = "failed"]
  /\ AfterLaunch(t)
  /\ UNCHANGED <<layer, resolving, memVars, poolVars, taskFiles, runFile,
                 cancelVars, faults>>

\* in_progress on disk, then submitted to the executor.
LaunchWorker(t) ==
  /\ pc = "launch"
  /\ t \in todo
  /\ NotCompleted(t) = {}
  /\ t \in staffed
  /\ UpdateStatus(t, "in_progress")
  /\ worker' = [worker EXCEPT ![t] = "queued"]
  /\ AfterLaunch(t)
  /\ UNCHANGED <<layer, resolving, memVars, results, attempts, outcome,
                 blockedBy, runFile, cancelVars, faults>>

\* The tasks submitted to the executor of the current layer.
Futures == {t \in Task : LayerOf[t] = layer /\ worker[t] # "none"}

\* The futures as_completed still waits for.
Awaited == {t \in Futures : results[t] = NoOutcome}

\* as_completed yields a finished future; its exception counts as "failed".
CollectResult(t) ==
  /\ pc = "collect"
  /\ t \in Awaited
  /\ worker[t] = "returned"
  /\ results' = [results EXCEPT ![t] = outcome[t]]
  /\ UNCHANGED <<pc, layer, todo, resolving, memVars, poolVars, taskFiles,
                 runFile, cancelVars, faults>>

\* _execute_layer returns; the loop over layer_results starts.
StartSettling ==
  /\ pc' = "settle"
  /\ todo' = {t \in Task : results'[t] # NoOutcome}
  /\ UNCHANGED <<layer, resolving, memVars, taskFiles, runFile, cancelVars,
                 faults>>

AllCollected ==
  /\ pc = "collect"
  /\ Awaited = {}
  /\ UNCHANGED <<results, poolVars>>
  /\ StartSettling

\* layer_budget: the layer has a deadline if one of the agents at work in it has
\* a time limit; as_completed waits without one otherwise.
HasDeadline == Futures \cap Timed # {}

\* Mutant of LayerDeadline: it waits for the workers that are running.
LayerDeadlineWaits ==
  /\ pc = "collect"
  /\ HasDeadline
  /\ Awaited # {}
  /\ \A t \in Awaited : worker[t] # "running"
  /\ results' = [t \in Task |-> IF t \in Awaited THEN "unfinished" ELSE results[t]]
  /\ worker' = [t \in Task |->
                  IF t \in Awaited /\ worker[t] = "queued" THEN "dropped"
                  ELSE worker[t]]
  /\ StartSettling
  /\ UNCHANGED <<attempts, outcome>>

\* as_completed timed out.  Every future without a result is given a timeout:
\* queued ones are cancelled, running ones are left running on their own, and
\* a result that came in unseen is dropped.
LayerDeadline ==
  /\ pc = "collect"
  /\ HasDeadline
  /\ Awaited # {}
  /\ results' = [t \in Task |-> IF t \in Awaited THEN "unfinished" ELSE results[t]]
  /\ worker' = [t \in Task |->
                  IF t \in Awaited /\ worker[t] = "queued" THEN "dropped"
                  ELSE worker[t]]
  /\ StartSettling
  /\ UNCHANGED <<attempts, outcome>>
-----------------------------------------------------------------------------
(***************************************************************************)
(* The pool threads: _run_worker_with_retries                              *)
(***************************************************************************)
Busy == {t \in Futures : worker[t] = "running"}

\* A pool thread takes the task; the executor of this layer has MaxWorkers.
StartWorker(t) ==
  /\ worker[t] = "queued"
  /\ Cardinality(Busy) < MaxWorkers
  /\ worker' = [worker EXCEPT ![t] = "running"]
  /\ attempts' = [attempts EXCEPT ![t] = 1]
  /\ UNCHANGED <<pc, layer, todo, resolving, memVars, results, outcome,
                 taskFiles, runFile, cancelVars, faults>>

\* run_worker came back "failed" and an attempt is left.
RetryWorker(t) ==
  /\ worker[t] = "running"
  /\ attempts[t] <= MaxRetries
  /\ attempts' = [attempts EXCEPT ![t] = @ + 1]
  /\ UNCHANGED <<pc, layer, todo, resolving, memVars, results, worker, outcome,
                 taskFiles, runFile, cancelVars, faults>>

\* The future is done: run_worker came back with another status, or "failed"
\* on the last attempt, or raised (which is not retried).
WorkerReturns(t, o) ==
  /\ worker[t] = "running"
  /\ worker' = [worker EXCEPT ![t] = "returned"]
  /\ outcome' = [outcome EXCEPT ![t] = o]
  /\ UNCHANGED <<pc, layer, todo, resolving, memVars, results, attempts,
                 taskFiles, runFile, cancelVars, faults>>
-----------------------------------------------------------------------------
(***************************************************************************)
(* Settling the results of a layer                                         *)
(***************************************************************************)
SettleCompleted(t) ==
  /\ pc = "settle"
  /\ resolving = {}
  /\ t \in todo
  /\ results[t] = "completed"
  /\ summaries' = summaries \cup {t}
  /\ UpdateStatus(t, "completed")
  /\ resolving' = {t}
  /\ todo' = todo \ {t}
  /\ UNCHANGED <<pc, layer, status, mem, staffed, allOk, report, results,
                 poolVars, blockedBy, runFile, cancelVars, faults>>

\* resolve_dependencies as far as it got: the completed task leaves blocked_by
\* in the files of `reached`; a blocked task whose list becomes empty is pending
\* again.
Unblock(t, reached) ==
  /\ blockedBy' = [u \in Task |-> IF u \in reached THEN blockedBy[u] \ {t}
                                 ELSE blockedBy[u]]
  /\ file' = [u \in Task |->
                IF /\ u \in reached /\ t \in blockedBy[u]
                   /\ blockedBy'[u] = {} /\ file[u] = "blocked"
                THEN "pending" ELSE file[u]]

\* A task file that cannot be read is skipped in silence.
ResolveDependencies(t) ==
  /\ pc = "settle"
  /\ t \in resolving
  /\ resolving' = {}
  /\ \/ /\ Unblock(t, Task)
        /\ UNCHANGED faults
     \/ /\ faults < MaxFaults
        /\ faults' = faults + 1
        /\ \E u \in Task : Unblock(t, Task \ {u})
  /\ UNCHANGED <<pc, layer, todo, memVars, results, poolVars, runFile, cancelVars>>

\* Mutant of SettleFailed: a result that is neither a success nor "failed" is
\* not recorded.
SettleFailedOnlyErrors(t) ==
  /\ pc = "settle"
  /\ resolving = {}
  /\ t \in todo
  /\ results[t] # "completed"
  /\ allOk' = FALSE
  /\ file' = [file EXCEPT ![t] = IF results[t] = "failed" THEN "failed" ELSE @]
  /\ todo' = todo \ {t}
  /\ UNCHANGED <<pc, layer, resolving, status, mem, staffed, summaries, report,
                 results, poolVars, blockedBy, runFile, cancelVars, faults>>

\* Mutant of SettleFailed: a timeout does not count against the run.
SettleFailedForgivesTimeouts(t) ==
  /\ pc = "settle"
  /\ resolving = {}
  /\ t \in todo
  /\ results[t] # "completed"
  /\ allOk' = (allOk /\ results[t] # "failed")
  /\ UpdateStatus(t, "failed")
  /\ todo' = todo \ {t}
  /\ UNCHANGED <<pc, layer, resolving, status, mem, staffed, summaries, report,
                 results, poolVars, blockedBy, runFile, cancelVars, faults>>

SettleFailed(t) ==
  /\ pc = "settle"
  /\ resolving = {}
  /\ t \in todo
  /\ results[t] # "completed"
  /\ allOk' = FALSE
  /\ UpdateStatus(t, "failed")
  /\ todo' = todo \ {t}
  /\ UNCHANGED <<pc, layer, resolving, status, mem, staffed, summaries, report,
                 results, poolVars, blockedBy, runFile, cancelVars, faults>>

\* A task of the layer without a result was blocked: not a success either.
EndSettling ==
  /\ pc = "settle"
  /\ resolving = {}
  /\ todo = {}
  /\ pc' = "sync"
  /\ allOk' = (allOk /\ \A t \in Task : LayerOf[t] = layer => results[t] # NoOutcome)
  /\ UNCHANGED <<layer, todo, resolving, status, mem, staffed, summaries,
                 report, results, poolVars, taskFiles, runFile, cancelVars,
                 faults>>

\* _sync_run_tasks_snapshot: reload the tasks, write run.json.  A failing load
\* changes nothing, a failing write leaves the new tasks in memory only; both
\* are logged and the next layer begins.
SyncSnapshot ==
  /\ pc = "sync"
  /\ pc' = "layer"
  /\ layer' = layer + 1
  /\ \/ /\ mem' = file
        /\ UpdateRun(status, file)
        /\ UNCHANGED faults
     \/ /\ faults < MaxFaults
        /\ faults' = faults + 1
        /\ mem' \in {mem, file}
        /\ UNCHANGED <<runStatus, runTasks>>
  /\ UNCHANGED <<todo, resolving, status, staffed, allOk, summaries, report,
                 results, poolVars, taskFiles, runReport, cancelVars>>
-----------------------------------------------------------------------------
(***************************************************************************)
(* The end of _execute_run                                                 *)
(***************************************************************************)
\* Mutant of Decide: success is looked at before cancellation.
DecideSuccessFirst ==
  /\ pc = "finish"
  /\ pc' = "load"
  /\ status' = IF allOk THEN "completed"
               ELSE IF cancel THEN "cancelled" ELSE "failed"
  /\ UNCHANGED <<layer, todo, resolving, mem, staffed, allOk, summaries,
                 report, results, poolVars, taskFiles, runFile, cancelVars,
                 faults>>

Decide ==
  /\ pc = "finish"
  /\ pc' = "load"
  /\ status' = IF cancel THEN "cancelled"
               ELSE IF allOk THEN "completed" ELSE "failed"
  /\ UNCHANGED <<layer, todo, resolving, mem, staffed, allOk, summaries,
                 report, results, poolVars, taskFiles, runFile, cancelVars,
                 faults>>

LoadFinal ==
  /\ pc = "load"
  /\ pc' = "write"
  /\ mem' = file
  /\ LET candidates == {t \in summaries : LayerOf[t] = LastLayer}
     IN IF candidates = {} THEN UNCHANGED report
        ELSE \E t \in candidates : report' = {t}
  /\ UNCHANGED <<layer, todo, resolving, status, staffed, allOk, summaries,
                 results, poolVars, taskFiles, runFile, cancelVars, faults>>

WriteFinal ==
  /\ pc = "write"
  /\ pc' = "close"
  /\ UpdateRun(status, mem)
  /\ runReport' = report
  /\ UNCHANGED <<layer, todo, resolving, memVars, results, poolVars, taskFiles,
                 cancelVars, faults>>

\* Forget the cancel event: cancel_run returns False from here on.
Close ==
  /\ pc = "close"
  /\ pc' = "done"
  /\ registered' = FALSE
  /\ UNCHANGED <<layer, todo, resolving, memVars, results, poolVars, taskFiles,
                 runFile, cancel, faults>>
-----------------------------------------------------------------------------
(***************************************************************************)
(* The environment: cancel_run, failing file operations, the host's death  *)
(***************************************************************************)
CancelRun ==
  /\ pc # "dead"
  /\ registered
  /\ ~cancel
  /\ cancel' = TRUE
  /\ UNCHANGED <<pc, layer, todo, resolving, memVars, results, poolVars,
                 taskFiles, runFile, registered, faults>>

\* What shutdown(wait=False, cancel_futures=True) does to the pool.
DropQueued == worker' = [t \in Task |-> IF worker[t] = "queued" THEN "dropped"
                                        ELSE worker[t]]

\* What the failing step had done before it raised: nothing, or the summary was
\* kept but not the status, or resolve_dependencies wrote some of the files.
HalfDone ==
  \/ UNCHANGED <<summaries, taskFiles>>
  \/ /\ pc = "settle"
     /\ resolving = {}
     /\ \E t \in todo : results[t] = "completed" /\ summaries' = summaries \cup {t}
     /\ UNCHANGED taskFiles
  \/ /\ pc = "settle"
     /\ \E t \in resolving, written \in SUBSET Task : Unblock(t, written)
     /\ UNCHANGED summaries

\* Mutant of RunError: all_succeeded survives the exception.
RunErrorForgotten ==
  /\ pc \in {"launch", "settle"}
  /\ faults < MaxFaults
  /\ faults' = faults + 1
  /\ pc' = "finish"
  /\ resolving' = {}
  /\ HalfDone
  /\ DropQueued
  /\ UNCHANGED <<layer, todo, status, mem, staffed, allOk, report, results,
                 attempts, outcome, runFile, cancelVars>>

\* An exception inside the try of _execute_run: run_error, straight to the end.
RunError ==
  /\ pc \in {"launch", "settle"}
  /\ faults < MaxFaults
  /\ faults' = faults + 1
  /\ pc' = "finish"
  /\ allOk' = FALSE
  /\ resolving' = {}
  /\ HalfDone
  /\ DropQueued
  /\ UNCHANGED <<layer, todo, status, mem, staffed, report, results, attempts,
                 outcome, runFile, cancelVars>>

\* An exception outside it (the first update_run, save_task, load_all, the
\* last update_run) ends the coordinator thread; nobody closes the run.
ThreadDies ==
  /\ pc \in {"armed", "saving", "load", "write"}
  /\ faults < MaxFaults
  /\ faults' = faults + 1
  /\ pc' = "lost"
  /\ UNCHANGED <<layer, todo, resolving, memVars, results, poolVars, taskFiles,
                 runFile, cancelVars>>

\* The host process dies, with all its threads.
Crash ==
  /\ MayCrash
  /\ pc \notin {"new", "done", "dead"}
  /\ pc' = "dead"
  /\ worker' = [t \in Task |-> IF worker[t] \in {"queued", "running"} THEN "dropped"
                               ELSE worker[t]]
  /\ registered' = FALSE
  /\ UNCHANGED <<layer, todo, resolving, memVars, results, attempts, outcome,
                 taskFiles, runFile, cancel, faults>>

Ended == pc \in {"done", "lost", "dead"}

Finished == Ended /\ UNCHANGED vars

Coordinator ==
  \/ CreateRun \/ Register \/ MarkRunning
  \/ BeginLayer \/ CancelAtBoundary \/ EndCancelling \/ EndOfLayers
  \/ AllCollected \/ EndSettling \/ SyncSnapshot
  \/ Decide \/ LoadFinal \/ WriteFinal \/ Close
  \/ \E t \in Task :
       \/ SaveTask(t) \/ CancelTask(t)
       \/ LaunchBlocked(t) \/ LaunchWithoutAgent(t) \/ LaunchWorker(t)
       \/ CollectResult(t)
       \/ SettleCompleted(t) \/ ResolveDependencies(t) \/ SettleFailed(t)

Worker(t) ==
  \/ StartWorker(t)
  \/ RetryWorker(t)
  \/ \E o \in Outcome : WorkerReturns(t, o)

Environment == CancelRun \/ RunError \/ ThreadDies \/ Crash

Next ==
  \/ Coordinator
  \/ LayerDeadline
  \/ \E t \in Task : Worker(t)
  \/ Environment
  \/ Finished

\* The coordinator thread is scheduled and as_completed's timeout, where it has
\* one, expires.
\* Nothing is assumed of the workers: one may hang in a model or a tool call.
Fairness == WF_vars(Coordinator) /\ WF_vars(LayerDeadline)

Spec == Init /\ [][Next]_vars /\ Fairness
-----------------------------------------------------------------------------
TypeOK ==
  /\ pc \in PC
  /\ layer \in 0..(LastLayer + 1)
  /\ todo \in SUBSET Task
  /\ resolving \in SUBSET Task
  /\ status \in RunStatus
  /\ mem \in [Task -> TaskStatus]
  /\ staffed \in SUBSET Task
  /\ allOk \in BOOLEAN
  /\ summaries \in SUBSET Task
  /\ report \in SUBSET Task
  /\ results \in [Task -> Outcome \cup {NoOutcome}]
  /\ worker \in [Task -> {"none", "queued", "running", "returned", "dropped"}]
  /\ attempts \in [Task -> 0..(MaxRetries + 1)]
  /\ outcome \in [Task -> Outcome \cup {NoOutcome}]
  /\ file \in [Task -> TaskStatus]
  /\ blockedBy \in [Task -> SUBSET Task]
  /\ runStatus \in RunStatus
  /\ runTasks \in [Task -> TaskStatus]
  /\ runReport \in SUBSET Task
  /\ cancel \in BOOLEAN
  /\ registered \in BOOLEAN
  /\ faults \in 0..MaxFaults

\* A worker is given the summaries of everything it depends on: whenever a
\* task has been submitted, all its dependencies have settled successfully
\* (runtime.py:445-455 reads the files, 496-500 the summaries in memory).
WorkersHaveTheirInputs ==
  \A t \in Task : worker[t] # "none" => DependsOn[t] \subseteq summaries

\* run.json says "completed" only if every task of the run, whatever layer,
\* settled as completed and is recorded so (runtime.py:368-385).
CompletedMeansAll ==
  runStatus = "completed" =>
    \A t \in Task : t \in summaries /\ runTasks[t] = "completed"

\* The published report of a completed run is a last-layer task's summary.
CompletedHasReport ==
  runStatus = "completed" =>
    runReport # {} /\ \A t \in runReport : LayerOf[t] = LastLayer

-----------------------------------------------------------------------------
(***************************************************************************)
(* Why those three hold: the inductive invariant.  Each conjunct is a fact *)
(* the coordinator relies on without checking it.                          *)
(***************************************************************************)
\* A task file says "completed" only after the summary has been kept.
CompletedHasSummary ==
  \A t \in Task : file[t] = "completed" => t \in summaries

\* Until the first layer, the layer counter and the tasks in memory are as
\* build_run_from_preset left them.
NothingDoneYet ==
  pc \in {"new", "created", "armed", "saving"} =>
    layer = 0 /\ \A t \in Task : mem[t] # "completed"

\* From the submissions to the snapshot, the coordinator works on one layer of
\* the graph, and what it has left to submit are tasks of that layer.
LoopsStayInLayer ==
  /\ pc \in {"launch", "collect", "settle", "sync"} => layer <= LastLayer
  /\ pc = "launch" => \A t \in todo : LayerOf[t] = layer

\* As long as all_succeeded holds, the layers left behind are completed, and in
\* the layer being settled so is every task that has been dealt with.
SuccessSoFar ==
  allOk =>
    /\ pc # "cancelling"
    /\ pc = "finish" => layer > LastLayer
    /\ \A t \in Task : LayerOf[t] < layer => file[t] = "completed"
    /\ pc = "settle" =>
         \A t \in Task : LayerOf[t] = layer /\ results[t] # NoOutcome /\ t \notin todo
                          => file[t] = "completed"
    /\ pc = "sync" => \A t \in Task : LayerOf[t] = layer => file[t] = "completed"

\* The verdict "completed" is about the task files, and they do not change
\* between the verdict and the last write of run.json.
VerdictIsEarned ==
  status = "completed" =>
    /\ pc \in {"load", "write", "close", "done", "lost", "dead"}
    /\ \A t \in Task : file[t] = "completed"
    /\ pc = "write" => /\ \A t \in Task : mem[t] = "completed"
                       /\ report # {}

ReportIsFromLastLayer == \A t \in report : LayerOf[t] = LastLayer

CoordinatorInv ==
  /\ TypeOK
  /\ CompletedHasSummary
  /\ WorkersHaveTheirInputs
  /\ NothingDoneYet
  /\ LoopsStayInLayer
  /\ SuccessSoFar
  /\ VerdictIsEarned
  /\ ReportIsFromLastLayer

-----------------------------------------------------------------------------
(***************************************************************************)
(* What the coordinator relies on besides while no file operation has      *)
(* failed: where each task file stands, from its layer and the place the   *)
(* coordinator is at.                                                      *)
(***************************************************************************)
Waiting == {"pending", "blocked"}
Past == {"completed", "failed", "blocked"}
InLayers == {"layer", "launch", "collect", "settle", "sync"}
InRun == InLayers \cup {"saving", "cancelling", "finish"}

\* The task files appear one by one, as build_run_from_preset made the tasks.
StartsFresh ==
  /\ pc \in {"new", "created", "armed"} =>
       status = "pending" /\ \A t \in Task : file[t] = "absent"
  /\ pc \in {"new", "created", "armed", "saving"} =>
       allOk /\ \A t \in Task : mem[t] \in Waiting /\ worker[t] = "none"
  /\ pc = "saving" =>
       \A t \in Task : file[t] = IF t \in todo THEN "absent" ELSE mem[t]
  /\ pc \in InRun => status = "running"

\* Between layers, and from the last load on, memory and files agree.
MemoryIsFresh ==
  /\ pc \in {"layer", "write", "close", "done"} => mem = file
  /\ pc \in {"close", "done"} => runTasks = file

\* The coordinator has yet to come to the task, or has been past its layer.
IsAhead(t) ==
  \/ LayerOf[t] > layer
  \/ LayerOf[t] = layer /\ (pc = "layer" \/ (pc = "launch" /\ t \in todo))
IsBehind(t) == LayerOf[t] < layer \/ (LayerOf[t] = layer /\ pc = "sync")

LayersAhead ==
  pc \in InLayers =>
    \A t \in Task : IsAhead(t) => file[t] \in Waiting /\ worker[t] = "none"

\* A task left behind blocked waits for one that will not complete any more.
IsBlocked(t) == file[t] = "blocked" /\ blockedBy[t] # {}

LayersBehind ==
  pc \in InLayers =>
    \A t \in Task :
      IsBehind(t) => file[t] \in {"completed", "failed"} \/ IsBlocked(t)

ResultsOfLayer ==
  /\ pc \in {"launch", "collect", "settle", "sync"} =>
       \A t \in Task : results[t] # NoOutcome => LayerOf[t] = layer
  /\ pc = "launch" => \A t \in todo : results[t] = NoOutcome
  /\ pc = "settle" => \A t \in todo : results[t] # NoOutcome

\* No agent was found for the task, which keeps its first status until it is
\* settled.
Unstaffed(t) == results[t] = "failed" /\ file[t] \in Waiting /\ NotCompleted(t) = {}

LayerLaunched ==
  pc \in {"launch", "collect"} =>
    \A t \in Task : LayerOf[t] = layer /\ ~(pc = "launch" /\ t \in todo) =>
      \/ worker[t] = "none" /\ results[t] = NoOutcome /\ IsBlocked(t)
      \/ worker[t] = "none" /\ Unstaffed(t)
      \/ worker[t] # "none" /\ file[t] = "in_progress"

LayerSettling ==
  pc = "settle" =>
    \A t \in Task : LayerOf[t] = layer =>
      \/ t \notin todo /\ results[t] = NoOutcome /\ IsBlocked(t)
      \/ /\ t \in todo /\ results[t] # NoOutcome
         /\ file[t] = "in_progress" \/ Unstaffed(t)
      \/ /\ t \notin todo /\ results[t] # NoOutcome
         /\ file[t] \in {"completed", "failed"}

ResolvingIsSettled ==
  /\ pc = "settle" => \A t \in resolving : LayerOf[t] = layer
  /\ pc \notin {"settle", "dead"} => resolving = {}

BlockedByDependencies == \A t \in Task : blockedBy[t] \subseteq DependsOn[t]

\* What _cancel_remaining_tasks goes through is waiting, all else has ended;
\* after the last layer nothing waits for a thread or runs; and the coordinator
\* thread does not end before its time.
EndIsQuiet ==
  /\ pc # "lost"
  /\ pc = "cancelling" => cancel
  /\ pc = "cancelling" =>
       \A t \in Task : file[t] \in IF t \in todo THEN Waiting ELSE TerminalTask
  /\ pc \in {"finish", "load", "write", "close", "done"} =>
       \A t \in Task : file[t] \in Past \cup {"cancelled"}

\* all_succeeded is given up only for a cancel request or for a task that has
\* failed or been left behind blocked.
FailureHasCause ==
  pc \in InLayers \cup {"finish"} /\ ~allOk =>
    \/ cancel
    \/ \E t \in Task : file[t] = "failed" \/ (IsBehind(t) /\ file[t] = "blocked")

FaultFree ==
  /\ StartsFresh
  /\ MemoryIsFresh
  /\ LayersAhead
  /\ LayersBehind
  /\ ResultsOfLayer
  /\ LayerLaunched
  /\ LayerSettling
  /\ ResolvingIsSettled
  /\ BlockedByDependencies
  /\ EndIsQuiet
  /\ FailureHasCause

IInv ==
  /\ CoordinatorInv
  /\ CompletedMeansAll
  /\ CompletedHasReport
  /\ faults = 0 => FaultFree
-----------------------------------------------------------------------------
\* When the coordinator closes a run none of whose file operations failed, no
\* task is left looking as if it were waiting for a thread or running.
ClosedRunIsQuiet ==
  pc = "done" /\ faults = 0 =>
    \A t \in Task : runTasks[t] \notin {"pending", "in_progress"}

\* A task file that is completed, failed or cancelled stays as it is.
TerminalTaskIsFinal ==
  [][\A t \in Task : file[t] \in TerminalTask => file'[t] = file[t]]_vars

\* Whatever the workers do, even if every one of them hangs, the run ends; but
\* for a layer in which no agent at work has a time limit, which waits for its
\* workers for as long as they take (runtime.py:515-521).
WaitsUnbounded == pc = "collect" /\ Awaited # {} /\ ~HasDeadline
RunEnds == <>Ended \/ <>[]WaitsUnbounded

\* A cancel request that reaches the coordinator before the verdict is taken
\* becomes the verdict: cancelled in run.json, unless the host or the
\* coordinator thread dies first, or is in a layer that waits without a limit.
CancelIsHonoured ==
  \/ [](cancel /\ pc \notin {"load", "write", "close", "done"} =>
          <>(runStatus = "cancelled" \/ pc \in {"lost", "dead"}))
  \/ <>[]WaitsUnbounded
-----------------------------------------------------------------------------
(***************************************************************************)
(* The run implements SwarmSpec as long as its file operations succeed.    *)
(***************************************************************************)
StageOf(s) ==
  CASE s = "in_progress" -> "started"
    [] s = "completed"   -> "succeeded"
    [] s = "failed"      -> "failed"
    [] s = "cancelled"   -> "cancelled"
    [] OTHER             -> "waiting"

Abstract == INSTANCE SwarmSpec WITH
  stage   <- [t \in Task |-> StageOf(file[t])],
  asked   <- cancel,
  verdict <- IF status \in TerminalRun THEN status ELSE "open"

ImplementsSwarmSpec == Abstract!Spec
=============================================================================
