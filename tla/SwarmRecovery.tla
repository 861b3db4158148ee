--------------------------- MODULE SwarmRecovery ---------------------------
(***************************************************************************)
(* A swarm run together with the sweeps that other start_run calls make    *)
(* over its directory (swarm/store.py, reap_stale_running_runs): each one  *)
(* loads run.json, reads the task files one by one, and when all tasks are *)
(* terminal, or the run has been silent for too long, writes its own idea  *)
(* of the tasks and of the run back.                                       *)
(*                                                                         *)
(* The host of the run (module SwarmRuntime) may be alive, gone, or end    *)
(* between any two steps of a sweep.                                       *)
(***************************************************************************)
EXTENDS SwarmRuntime, Functions

CONSTANTS
  Reaper,        \* the start_run calls that sweep
  InPreset,      \* the place of a task in the preset, where run.tasks starts
  ById,          \* its place by id, which load_all gives it
  MaxBroken      \* bound on sweeps that fail or die half-way

ASSUME ReaperAssumption == IsFiniteSet(Reaper) /\ MaxBroken \in Nat
ASSUME OrderAssumption ==
  /\ InPreset \in [Task -> Nat] /\ IsInjective(InPreset)
  /\ ById \in [Task -> Nat] /\ IsInjective(ById)

VARIABLES
  sweep,   \* the local state of each sweep
  silent,  \* no event for longer than compute_stale_threshold
  logged,  \* the kinds of recovery events in events.jsonl
  broken   \* sweeps that failed half-way so far

hostVars == <<pc, layer, todo, resolving, memVars, results, poolVars,
              cancelVars, faults>>
allVars  == <<vars, sweep, silent, logged, broken>>

Kind == {"run_recovered_terminal", "run_reaped"}

\* run.tasks of run.json is in the order of the preset until the host has
\* loaded the task files once, and in that of the ids from then on.
Orders == {InPreset, ById}
FirstOf(tasks, order) == {t \in tasks : \A u \in tasks : order[t] <= order[u]}
LastInRunFile == {t \in Task : \E o \in Orders : \A u \in Task : o[u] <= o[t]}

\* step: where the sweep is; left: task files it has yet to read or to write;
\* view, blocked, report: the tasks' status and blocked_by and the final_report
\* of the run it works with; quiet: whether the run was silent when it began;
\* kind: the event it is to append.
Idle == [step |-> "idle", left |-> {},
         view |-> [t \in Task |-> "absent"], blocked |-> [t \in Task |-> {}],
         report |-> {}, quiet |-> FALSE, kind |-> "none"]

InitRecovery ==
  /\ Init
  /\ sweep = [r \in Reaper |-> Idle]
  /\ silent = FALSE
  /\ logged = {}
  /\ broken = 0
-----------------------------------------------------------------------------
(***************************************************************************)
(* One sweep, as far as it concerns this run                               *)
(***************************************************************************)
\* load_run; only a run that says "running" is looked at any further.
Load(r) ==
  /\ sweep[r].step = "idle"
  /\ runStatus = "running"
  /\ sweep' = [sweep EXCEPT ![r] =
                 [step |-> "hydrate", left |-> Task, view |-> runTasks,
                  blocked |-> DependsOn, report |-> runReport, quiet |-> silent,
                  kind |-> "none"]]
  /\ UNCHANGED <<vars, silent, logged, broken>>

\* Mutant of ReadTask: the tasks are taken from run.json as it is.
ReadTaskFromRunFile(r, t) ==
  /\ sweep[r].step = "hydrate"
  /\ t \in FirstOf(sweep[r].left, ById)
  /\ sweep' = [sweep EXCEPT ![r].left = @ \ {t}]
  /\ UNCHANGED <<vars, silent, logged, broken>>

\* hydrate_run: a task file, where there is one, overrides run.json.
ReadTask(r, t) ==
  /\ sweep[r].step = "hydrate"
  /\ t \in FirstOf(sweep[r].left, ById)
  /\ sweep' = IF file[t] = "absent" THEN [sweep EXCEPT ![r].left = @ \ {t}]
              ELSE [sweep EXCEPT ![r].left = @ \ {t},
                                 ![r].view[t] = file[t],
                                 ![r].blocked[t] = blockedBy[t]]
  /\ UNCHANGED <<vars, silent, logged, broken>>

Hydrated(r) == sweep[r].step = "hydrate" /\ sweep[r].left = {}

AllTerminal(r) == \A t \in Task : sweep[r].view[t] \in TerminalTask

\* Mutant of DerivedStatus: whatever has not failed has completed.
DerivedUnlessFailed(tasks) ==
  IF \E t \in Task : tasks[t] = "failed" THEN "failed" ELSE "completed"

\* _recover_terminal's status for tasks that are all terminal.
DerivedStatus(tasks) ==
  IF \A t \in Task : tasks[t] = "completed" THEN "completed"
  ELSE IF \E t \in Task : tasks[t] = "failed" THEN "failed"
  ELSE "cancelled"

\* Every task is terminal although the run says "running".
JudgeTerminal(r) ==
  /\ Hydrated(r)
  /\ AllTerminal(r)
  /\ sweep' = [sweep EXCEPT ![r].step = "persist", ![r].left = Task,
                            ![r].kind = "run_recovered_terminal"]
  /\ UNCHANGED <<vars, silent, logged, broken>>

\* is_run_stale.  The silence lasts a minute or more and the reads do not, so a
\* run that is stale after them was silent before them.
Stale(r) == sweep[r].quiet /\ silent

\* The run is stale: what is not terminal has failed.
JudgeStale(r) ==
  /\ Hydrated(r)
  /\ ~AllTerminal(r)
  /\ Stale(r)
  /\ sweep' = [sweep EXCEPT ![r].step = "persist", ![r].left = Task,
                ![r].view = [t \in Task |-> IF @[t] \in TerminalTask THEN @[t]
                                           ELSE "failed"],
                ![r].kind = "run_reaped"]
  /\ UNCHANGED <<vars, silent, logged, broken>>

JudgeAlive(r) ==
  /\ Hydrated(r)
  /\ ~AllTerminal(r)
  /\ ~Stale(r)
  /\ sweep' = [sweep EXCEPT ![r] = Idle]
  /\ UNCHANGED <<vars, silent, logged, broken>>

\* Mutant of PersistTask: only run.json is written in the end.
PersistTaskNowhere(r, t) ==
  /\ sweep[r].step = "persist"
  /\ \E o \in Orders : t \in FirstOf(sweep[r].left, o)
  /\ sweep' = [sweep EXCEPT ![r].left = @ \ {t}]
  /\ UNCHANGED <<vars, silent, logged, broken>>

\* _persist_recovery: the task files in turn, then run.json, then the event.
PersistTask(r, t) ==
  /\ sweep[r].step = "persist"
  /\ \E o \in Orders : t \in FirstOf(sweep[r].left, o)
  /\ sweep' = [sweep EXCEPT ![r].left = @ \ {t}]
  /\ SaveTaskFile(t, sweep[r].view[t], sweep[r].blocked[t])
  /\ UNCHANGED <<hostVars, runFile, silent, logged, broken>>

\* Mutant of PersistRun: the run keeps the status it was loaded with.
PersistRunStatusKept(r) ==
  /\ sweep[r].step = "persist"
  /\ sweep[r].left = {}
  /\ sweep' = [sweep EXCEPT ![r].step = "events"]
  /\ runTasks' = sweep[r].view
  /\ UNCHANGED <<hostVars, taskFiles, runStatus, runReport, silent, logged,
                 broken>>

\* A completed run without a report gets the summary of its last task.
PersistRun(r) ==
  /\ sweep[r].step = "persist"
  /\ sweep[r].left = {}
  /\ sweep' = [sweep EXCEPT ![r].step = "events"]
  /\ UpdateRun(DerivedStatus(sweep[r].view), sweep[r].view)
  /\ IF runStatus' = "completed" /\ sweep[r].report = {}
     THEN \E t \in LastInRunFile : runReport' = {t}
     ELSE runReport' = sweep[r].report
  /\ UNCHANGED <<hostVars, taskFiles, silent, logged, broken>>

\* read_events: an event of this kind is there already, or not yet.
ReadEvents(r) ==
  /\ sweep[r].step = "events"
  /\ sweep' = [sweep EXCEPT ![r] = IF sweep[r].kind \in logged THEN Idle
                                   ELSE [@ EXCEPT !.step = "append"]]
  /\ UNCHANGED <<vars, silent, logged, broken>>

\* append_event; the event also ends the silence.
Log(kind) == logged' = logged \cup {kind} /\ silent' = FALSE

AppendEvent(r) ==
  /\ sweep[r].step = "append"
  /\ Log(sweep[r].kind)
  /\ sweep' = [sweep EXCEPT ![r] = Idle]
  /\ UNCHANGED <<vars, broken>>

\* A read or a write fails, or the sweeping process dies: it stops where it is.
SweepFails(r) ==
  /\ sweep[r].step # "idle"
  /\ broken < MaxBroken
  /\ broken' = broken + 1
  /\ sweep' = [sweep EXCEPT ![r] = Idle]
  /\ UNCHANGED <<vars, silent, logged>>

Sweep(r) ==
  \/ Load(r) \/ JudgeTerminal(r) \/ JudgeStale(r) \/ JudgeAlive(r)
  \/ PersistRun(r) \/ ReadEvents(r) \/ AppendEvent(r)
  \/ \E t \in Task : ReadTask(r, t) \/ PersistTask(r, t)
-----------------------------------------------------------------------------
HostGone == pc = "dead" \/ (pc = "lost" /\ \A t \in Task : worker[t] # "running")

\* A host at work appends a heartbeat every few seconds (worker.py:477, 652), so
\* only a run whose host is gone falls silent.
FallSilent ==
  /\ HostGone
  /\ ~silent
  /\ silent' = TRUE
  /\ UNCHANGED <<vars, sweep, logged, broken>>

HostStep ==
  /\ Coordinator \/ LayerDeadline \/ (\E t \in Task : Worker(t)) \/ Environment
  /\ silent' = FALSE
  /\ UNCHANGED <<sweep, logged, broken>>

NextRecovery ==
  \/ HostStep
  \/ \E r \in Reaper : Sweep(r) \/ SweepFails(r)
  \/ FallSilent
  \/ Finished /\ UNCHANGED allVars

\* The host is scheduled while it lives, the minute of silence passes once it is
\* gone, and start_run goes on being called.
FairRecovery ==
  /\ WF_allVars(HostStep /\ (Coordinator \/ LayerDeadline))
  /\ \A r \in Reaper : WF_allVars(Sweep(r))
  /\ WF_allVars(FallSilent)

SpecRecovery == InitRecovery /\ [][NextRecovery]_allVars /\ FairRecovery
-----------------------------------------------------------------------------
\* The verdict "completed" stays true to the task files whoever wrote it last,
\* the host or a sweep (store.py:389-416).
CompletedIsOnDisk ==
  runStatus = "completed" =>
    \A t \in Task : file[t] = "completed" /\ runTasks[t] = "completed"

\* "Duplicate readers converge" (store.py:461-463): when a run's host is gone
\* and no sweep is at work on it, a run that some sweep settled has one story,
\* the same in run.json and in the task files, and every task of it is at an end.
SweepsConverge ==
  HostGone /\ logged # {} /\ (\A r \in Reaper : sweep[r].step = "idle")
    => runTasks = file /\ \A t \in Task : file[t] \in TerminalTask

\* No task's ending is ever rewritten, by the host or by a sweep.
TaskEndingsStand ==
  [][\A t \in Task : file[t] \in TerminalTask => file'[t] = file[t]]_allVars

\* final_report is the text of the final synthesis (models.py:164).
ReportIsTheSynthesis ==
  \A t \in runReport : LayerOf[t] = LastLayer

\* A run that was left behind running is settled, however the host ended and
\* whatever a sweep that failed half-way left (store.py:495-517).
AbandonedRunsEnd ==
  (HostGone /\ runStatus = "running") ~> (runStatus \in TerminalRun)
-----------------------------------------------------------------------------
(***************************************************************************)
(* Why the sweeps do no harm: what each knows of the run stays true while  *)
(* the host, or another sweep, is at work on it.                           *)
(***************************************************************************)
SweepState ==
  [step : {"idle", "hydrate", "persist", "events", "append"},
   left : SUBSET Task, view : [Task -> TaskStatus], blocked : [Task -> SUBSET Task],
   report : SUBSET Task, quiet : BOOLEAN, kind : Kind \cup {"none"}]

RecoveryTypeOK ==
  /\ sweep \in [Reaper -> SweepState]
  /\ silent \in BOOLEAN
  /\ logged \subseteq Kind \cup {"none"}
  /\ broken \in 0..MaxBroken

\* Only a run whose host is dead falls silent, and a dead host stays dead.
SilentIsDead ==
  (silent \/ \E r \in Reaper : sweep[r].quiet) => pc = "dead"

\* run.json is behind the task files, never ahead of them.
RunFileIsBehind ==
  \A t \in Task : runTasks[t] \in TerminalTask => file[t] = runTasks[t]

BlockedIsDependency ==
  \A r \in Reaper, t \in Task : sweep[r].blocked[t] \subseteq DependsOn[t]

\* An ending a sweep has read is still there; and where it read none in a silent
\* run, there is none yet but the failure another sweep may have written.
ReadsStand ==
  \A r \in Reaper, t \in Task : sweep[r].step = "hydrate" =>
    /\ sweep[r].view[t] \in TerminalTask => file[t] = sweep[r].view[t]
    /\ sweep[r].quiet /\ t \notin sweep[r].left /\ sweep[r].view[t] \notin TerminalTask
         => file[t] \notin TerminalTask \/ file[t] = "failed"

\* What a sweep has to write to a task file is there, or it is the failure of a
\* task of a dead host that has not ended.
WritesStand ==
  \A r \in Reaper, t \in Task : sweep[r].step = "persist" =>
    /\ sweep[r].view[t] \in TerminalTask
    /\ \/ file[t] = sweep[r].view[t]
       \/ /\ t \in sweep[r].left /\ file[t] \notin TerminalTask
          /\ sweep[r].view[t] = "failed" /\ pc = "dead"

\* Once a sweep has written all it had to, the run has one story.
Settled == runTasks = file /\ \A t \in Task : file[t] \in TerminalTask

SettledOnce ==
  logged # {} \/ (\E r \in Reaper : sweep[r].step \in {"events", "append"}) => Settled

SweepInv ==
  /\ RecoveryTypeOK
  /\ SilentIsDead
  /\ RunFileIsBehind
  /\ BlockedIsDependency
  /\ ReadsStand
  /\ WritesStand
  /\ SettledOnce

RecoveryInv == CoordinatorInv /\ FaultFree /\ SweepInv
-----------------------------------------------------------------------------
(***************************************************************************)
(* Why the verdict "completed" is true even when the host's own file       *)
(* operations fail: an ending may then be rewritten, but never the last    *)
(* one a run lacks.                                                        *)
(***************************************************************************)
\* What every place that holds a status of the task says of it.
Copies(t) == {file[t], mem[t], runTasks[t]} \cup {sweep[r].view[t] : r \in Reaper}

Unsuccessful == {"failed", "cancelled"}

\* The host will not complete the task any more, if it has not.
PassedByHost(t) ==
  \/ pc \in {"cancelling", "finish", "load", "write", "close", "done", "lost", "dead"}
  \/ pc \in InLayers /\ IsBehind(t)
  \/ pc = "settle" /\ LayerOf[t] = layer /\ t \notin todo

Hopeless(t) == PassedByHost(t) /\ "completed" \notin Copies(t)

SilentIsGone ==
  (silent \/ \E r \in Reaper : sweep[r].quiet) => pc \in {"lost", "dead"}

\* Nobody takes a task for ended that the host has yet to settle.
EndingsComeLast ==
  \A t \in Task : ~PassedByHost(t) => Copies(t) \cap TerminalTask = {}

\* What anybody takes for completed has been, and its file says an ending since.
CompletionsAreKept ==
  \A t \in Task : "completed" \in Copies(t) =>
    t \in summaries /\ file[t] \in TerminalTask

\* Where anybody knows of a failure or a cancellation, or the host is about to
\* cancel, one task at least will never be completed.
FailureIsForGood ==
  pc = "cancelling" \/ (\E t \in Task : Copies(t) \cap Unsuccessful # {})
    => \E t \in Task : Hopeless(t)

\* Until the host gives all_succeeded up, nobody disagrees about a completed task.
SuccessIsUndisputed ==
  /\ allOk => \A t \in Task :
       "completed" \in Copies(t) => Copies(t) \cap Unsuccessful = {}
  /\ status = "completed" => allOk

\* What a sweep of a silent run finds open was never completed.
OpenIsOpen ==
  \A r \in Reaper, t \in Task :
    /\ sweep[r].step = "hydrate" /\ sweep[r].quiet /\ t \notin sweep[r].left
    /\ sweep[r].view[t] \notin TerminalTask
    => "completed" \notin Copies(t)

SweepsWriteEndings ==
  \A r \in Reaper, t \in Task :
    sweep[r].step = "persist" => sweep[r].view[t] \in TerminalTask

VerdictInv ==
  /\ CoordinatorInv
  /\ ResultsOfLayer
  /\ RecoveryTypeOK
  /\ SilentIsGone
  /\ EndingsComeLast
  /\ CompletionsAreKept
  /\ FailureIsForGood
  /\ SuccessIsUndisputed
  /\ OpenIsOpen
  /\ SweepsWriteEndings
  /\ CompletedIsOnDisk
=============================================================================
