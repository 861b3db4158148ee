---------------------------- MODULE Swarm_proofs ----------------------------
(***************************************************************************)
(* The safety of a swarm run for every task graph, every layering that     *)
(* respects it, every number of retries, pool threads and failing file     *)
(* operations, and whether or not the host may die.  One lemma per action  *)
(* shows that it preserves CoordinatorInv: first the types, then the       *)
(* conjuncts it can really disturb, then the others together.  A second    *)
(* series does the same for FaultFree, which holds until a file operation  *)
(* fails, and from it follow that no ending is rewritten and that the run  *)
(* implements SwarmSpec, action by action.                                 *)
(*                                                                         *)
(* In the second part, the sweeps that other start_run calls make over the *)
(* run do no harm to it, for any number of sweeps at once and any number   *)
(* that break off half-way, while the host works, has been killed, or dies *)
(* in the middle of one.  What they make of "completed" is true whatever   *)
(* file operations of the host fail; that endings stand and stories agree  *)
(* needs that none does: a host that cannot reload a task whose ending it  *)
(* wrote may write another over it.                                        *)
(***************************************************************************)
EXTENDS SwarmRecovery, TLAPS

LEMMA InitEstablishes == Init => IInv
<1> SUFFICES ASSUME Init PROVE IInv
  OBVIOUS
<1> USE DEF Init, IInv, CoordinatorInv
<1>1. TypeOK
  <2>1. \A t \in Task : InitialStatus(t) \in TaskStatus
    BY DEF InitialStatus, TaskStatus
  <2>2. mem \in [Task -> TaskStatus]
    BY <2>1
  <2>3. layer \in 0..(LastLayer + 1) /\ faults \in 0..MaxFaults
    BY LayersAssumption, BoundsAssumption
  <2>4. attempts \in [Task -> 0..(MaxRetries + 1)]
    BY BoundsAssumption
  <2>5. file \in [Task -> TaskStatus] /\ runTasks \in [Task -> TaskStatus]
    BY DEF TaskStatus
  <2>6. staffed \in SUBSET Task
    BY BoundsAssumption
  <2> QED  BY <2>2, <2>3, <2>4, <2>5, <2>6 DEF TypeOK, PC, RunStatus, NoOutcome
<1>2. /\ CompletedHasSummary /\ WorkersHaveTheirInputs /\ NothingDoneYet
      /\ LoopsStayInLayer /\ VerdictIsEarned /\ ReportIsFromLastLayer
      /\ CompletedMeansAll /\ CompletedHasReport
  BY DEF CompletedHasSummary, WorkersHaveTheirInputs, NothingDoneYet,
         LoopsStayInLayer, VerdictIsEarned, ReportIsFromLastLayer,
         CompletedMeansAll, CompletedHasReport, InitialStatus
<1>3. SuccessSoFar
  BY LayersAssumption DEF SuccessSoFar
<1>4. FaultFree
  BY DEF FaultFree, StartsFresh, MemoryIsFresh, LayersAhead, LayersBehind,
         ResultsOfLayer, LayerLaunched, LayerSettling, ResolvingIsSettled,
         BlockedByDependencies, EndIsQuiet, FailureHasCause, InLayers, InRun,
         Waiting, InitialStatus
<1> QED  BY <1>1, <1>2, <1>3, <1>4

(* Creating the run *)

LEMMA CreateRunStep == ASSUME CoordinatorInv, CreateRun PROVE CoordinatorInv'
<1> USE DEF SaveTaskFile, UpdateStatus, UpdateRun, CoordinatorInv, CreateRun,
            memVars, poolVars, taskFiles, cancelVars
<1>1. TypeOK'
  BY DEF TypeOK, PC, TaskStatus, RunStatus
<1>2. /\ CompletedHasSummary' /\ WorkersHaveTheirInputs' /\ NothingDoneYet'
      /\ LoopsStayInLayer' /\ SuccessSoFar' /\ VerdictIsEarned'
      /\ ReportIsFromLastLayer'
  BY DEF CompletedHasSummary, WorkersHaveTheirInputs, NothingDoneYet,
         LoopsStayInLayer, SuccessSoFar, VerdictIsEarned,
         ReportIsFromLastLayer
<1> QED  BY <1>1, <1>2

LEMMA RegisterStep == ASSUME CoordinatorInv, Register PROVE CoordinatorInv'
<1> USE DEF SaveTaskFile, UpdateStatus, UpdateRun, CoordinatorInv, Register,
            memVars, poolVars, taskFiles, runFile
<1>1. TypeOK'
  BY DEF TypeOK, PC
<1>2. /\ CompletedHasSummary' /\ WorkersHaveTheirInputs' /\ NothingDoneYet'
      /\ LoopsStayInLayer' /\ SuccessSoFar' /\ VerdictIsEarned'
      /\ ReportIsFromLastLayer'
  BY DEF CompletedHasSummary, WorkersHaveTheirInputs, NothingDoneYet,
         LoopsStayInLayer, SuccessSoFar, VerdictIsEarned,
         ReportIsFromLastLayer
<1> QED  BY <1>1, <1>2

LEMMA MarkRunningStep ==
  ASSUME CoordinatorInv, MarkRunning
  PROVE  CoordinatorInv'
<1> USE DEF SaveTaskFile, UpdateStatus, UpdateRun, CoordinatorInv, MarkRunning,
            poolVars, taskFiles, cancelVars
<1>1. TypeOK'
  BY DEF TypeOK, PC, TaskStatus, RunStatus
<1>2. LoopsStayInLayer'
  BY DEF LoopsStayInLayer, TypeOK
<1>3. SuccessSoFar'
  BY LayersAssumption DEF SuccessSoFar, TypeOK
<1>4. VerdictIsEarned'
  BY DEF VerdictIsEarned, TypeOK
<1>5. /\ CompletedHasSummary' /\ WorkersHaveTheirInputs' /\ NothingDoneYet'
      /\ ReportIsFromLastLayer'
  BY DEF CompletedHasSummary, WorkersHaveTheirInputs, NothingDoneYet,
         ReportIsFromLastLayer
<1> QED  BY <1>1, <1>2, <1>3, <1>4, <1>5

LEMMA SaveTaskStep ==
  ASSUME CoordinatorInv, NEW t \in Task, SaveTask(t)
  PROVE  CoordinatorInv'
<1> USE DEF SaveTaskFile, UpdateStatus, UpdateRun, CoordinatorInv, SaveTask,
            memVars, poolVars, runFile, cancelVars
<1>1. TypeOK'
  BY DependsOnAssumption DEF TypeOK, PC, TaskStatus
<1>2. CompletedHasSummary'
  BY DEF CompletedHasSummary, TypeOK, NothingDoneYet
<1>3. LoopsStayInLayer'
  BY DEF LoopsStayInLayer, TypeOK
<1>4. SuccessSoFar'
  <2>1. \A u \in Task : ~(LayerOf[u] < layer)
    BY LayersAssumption DEF NothingDoneYet
  <2>2. pc' \in {"saving", "layer"} /\ layer' = layer
    OBVIOUS
  <2> QED  BY <2>1, <2>2 DEF SuccessSoFar
<1>5. VerdictIsEarned'
  BY DEF VerdictIsEarned, TypeOK
<1>6. /\ WorkersHaveTheirInputs' /\ NothingDoneYet' /\ ReportIsFromLastLayer'
  BY DEF WorkersHaveTheirInputs, NothingDoneYet, ReportIsFromLastLayer
<1> QED  BY <1>1, <1>2, <1>3, <1>4, <1>5, <1>6

(* The layer loop *)

LEMMA BeginLayerStep == ASSUME CoordinatorInv, BeginLayer PROVE CoordinatorInv'
<1> USE DEF SaveTaskFile, UpdateStatus, UpdateRun, CoordinatorInv, BeginLayer,
            memVars, poolVars, taskFiles, runFile, cancelVars
<1>1. TypeOK'
  BY DEF TypeOK, PC, Outcome, NoOutcome
<1>2. LoopsStayInLayer'
  BY DEF LoopsStayInLayer, TypeOK
<1>3. SuccessSoFar'
  BY DEF SuccessSoFar, TypeOK
<1>4. /\ CompletedHasSummary' /\ WorkersHaveTheirInputs' /\ NothingDoneYet'
      /\ VerdictIsEarned' /\ ReportIsFromLastLayer'
  BY DEF CompletedHasSummary, WorkersHaveTheirInputs, NothingDoneYet,
         VerdictIsEarned, ReportIsFromLastLayer
<1> QED  BY <1>1, <1>2, <1>3, <1>4

LEMMA CancelAtBoundaryStep ==
  ASSUME CoordinatorInv, CancelAtBoundary
  PROVE  CoordinatorInv'
<1> USE DEF SaveTaskFile, UpdateStatus, UpdateRun, CoordinatorInv,
            CancelAtBoundary, poolVars, taskFiles, runFile, cancelVars
<1>1. TypeOK'
  BY DEF TypeOK, PC
<1>2. LoopsStayInLayer'
  BY DEF LoopsStayInLayer, TypeOK
<1>3. SuccessSoFar'
  BY DEF SuccessSoFar, TypeOK
<1>4. /\ CompletedHasSummary' /\ WorkersHaveTheirInputs' /\ NothingDoneYet'
      /\ VerdictIsEarned' /\ ReportIsFromLastLayer'
  BY DEF CompletedHasSummary, WorkersHaveTheirInputs, NothingDoneYet,
         VerdictIsEarned, ReportIsFromLastLayer
<1> QED  BY <1>1, <1>2, <1>3, <1>4

LEMMA CancelTaskStep ==
  ASSUME CoordinatorInv, NEW t \in Task, CancelTask(t)
  PROVE  CoordinatorInv'
<1> USE DEF SaveTaskFile, UpdateStatus, UpdateRun, CoordinatorInv, CancelTask,
            memVars, poolVars, runFile, cancelVars
<1>1. TypeOK'
  BY BoundsAssumption DEF TypeOK, TaskStatus
<1>2. CompletedHasSummary'
  BY DEF CompletedHasSummary, TypeOK
<1>3. LoopsStayInLayer'
  BY DEF LoopsStayInLayer, TypeOK
<1>4. SuccessSoFar'
  BY DEF SuccessSoFar, TypeOK
<1>5. VerdictIsEarned'
  BY DEF VerdictIsEarned, TypeOK
<1>6. /\ WorkersHaveTheirInputs' /\ NothingDoneYet' /\ ReportIsFromLastLayer'
  BY DEF WorkersHaveTheirInputs, NothingDoneYet, ReportIsFromLastLayer
<1> QED  BY <1>1, <1>2, <1>3, <1>4, <1>5, <1>6

LEMMA EndCancellingStep ==
  ASSUME CoordinatorInv, EndCancelling
  PROVE  CoordinatorInv'
<1> USE DEF SaveTaskFile, UpdateStatus, UpdateRun, CoordinatorInv,
            EndCancelling, memVars, poolVars, taskFiles, runFile, cancelVars
<1>1. TypeOK'
  BY DEF TypeOK, PC
<1>2. /\ CompletedHasSummary' /\ WorkersHaveTheirInputs' /\ NothingDoneYet'
      /\ LoopsStayInLayer' /\ SuccessSoFar' /\ VerdictIsEarned'
      /\ ReportIsFromLastLayer'
  BY DEF CompletedHasSummary, WorkersHaveTheirInputs, NothingDoneYet,
         LoopsStayInLayer, SuccessSoFar, VerdictIsEarned,
         ReportIsFromLastLayer
<1> QED  BY <1>1, <1>2

LEMMA EndOfLayersStep ==
  ASSUME CoordinatorInv, EndOfLayers
  PROVE  CoordinatorInv'
<1> USE DEF SaveTaskFile, UpdateStatus, UpdateRun, CoordinatorInv, EndOfLayers,
            memVars, poolVars, taskFiles, runFile, cancelVars
<1>1. TypeOK'
  BY DEF TypeOK, PC
<1>2. SuccessSoFar'
  BY LayersAssumption DEF SuccessSoFar, TypeOK
<1>3. /\ CompletedHasSummary' /\ WorkersHaveTheirInputs' /\ NothingDoneYet'
      /\ LoopsStayInLayer' /\ VerdictIsEarned' /\ ReportIsFromLastLayer'
  BY DEF CompletedHasSummary, WorkersHaveTheirInputs, NothingDoneYet,
         LoopsStayInLayer, VerdictIsEarned, ReportIsFromLastLayer
<1> QED  BY <1>1, <1>2, <1>3

(* Submitting and collecting a layer *)

LEMMA LaunchBlockedStep ==
  ASSUME CoordinatorInv, NEW t \in Task, LaunchBlocked(t)
  PROVE  CoordinatorInv'
<1> USE DEF SaveTaskFile, UpdateStatus, UpdateRun, CoordinatorInv,
            LaunchBlocked, memVars, poolVars, runFile, cancelVars
<1>1. TypeOK'
  BY DependsOnAssumption DEF TypeOK, PC, TaskStatus, AfterLaunch,
                             NotCompleted
<1>2. CompletedHasSummary'
  BY DEF CompletedHasSummary, TypeOK, AfterLaunch, NotCompleted
<1>3. LoopsStayInLayer'
  BY DEF LoopsStayInLayer, TypeOK, AfterLaunch, NotCompleted
<1>4. SuccessSoFar'
  BY DEF SuccessSoFar, TypeOK, LoopsStayInLayer, AfterLaunch, NotCompleted
<1>5. VerdictIsEarned'
  BY DEF VerdictIsEarned, TypeOK, AfterLaunch, NotCompleted
<1>6. /\ WorkersHaveTheirInputs' /\ NothingDoneYet' /\ ReportIsFromLastLayer'
  BY DEF WorkersHaveTheirInputs, NothingDoneYet, ReportIsFromLastLayer,
         AfterLaunch, NotCompleted
<1> QED  BY <1>1, <1>2, <1>3, <1>4, <1>5, <1>6

LEMMA LaunchWithoutAgentStep ==
  ASSUME CoordinatorInv, NEW t \in Task, LaunchWithoutAgent(t)
  PROVE  CoordinatorInv'
<1> USE DEF SaveTaskFile, UpdateStatus, UpdateRun, CoordinatorInv,
            LaunchWithoutAgent, memVars, poolVars, taskFiles, runFile,
            cancelVars
<1>1. TypeOK'
  BY DEF TypeOK, PC, Outcome, NoOutcome, AfterLaunch, NotCompleted
<1>2. LoopsStayInLayer'
  BY DEF LoopsStayInLayer, TypeOK, AfterLaunch, NotCompleted
<1>3. SuccessSoFar'
  BY DEF SuccessSoFar, TypeOK, AfterLaunch, NotCompleted
<1>4. /\ CompletedHasSummary' /\ WorkersHaveTheirInputs' /\ NothingDoneYet'
      /\ VerdictIsEarned' /\ ReportIsFromLastLayer'
  BY DEF CompletedHasSummary, WorkersHaveTheirInputs, NothingDoneYet,
         VerdictIsEarned, ReportIsFromLastLayer, AfterLaunch, NotCompleted
<1> QED  BY <1>1, <1>2, <1>3, <1>4

LEMMA LaunchWorkerStep ==
  ASSUME CoordinatorInv, NEW t \in Task, LaunchWorker(t)
  PROVE  CoordinatorInv'
<1> USE DEF SaveTaskFile, UpdateStatus, UpdateRun, CoordinatorInv,
            LaunchWorker, memVars, runFile, cancelVars
<1>1. TypeOK'
  BY DEF TypeOK, PC, TaskStatus, AfterLaunch, NotCompleted
<1>2. CompletedHasSummary'
  BY DEF CompletedHasSummary, TypeOK, AfterLaunch, NotCompleted
<1>3. WorkersHaveTheirInputs'
  <2>1. DependsOn[t] \subseteq summaries
    <3>1. \A d \in DependsOn[t] : file[d] = "completed"
      BY DEF NotCompleted
    <3> QED  BY <3>1, DependsOnAssumption DEF CompletedHasSummary
  <2> QED  BY <2>1 DEF WorkersHaveTheirInputs, TypeOK
<1>4. LoopsStayInLayer'
  BY DEF LoopsStayInLayer, TypeOK, AfterLaunch, NotCompleted
<1>5. SuccessSoFar'
  BY DEF SuccessSoFar, TypeOK, LoopsStayInLayer, AfterLaunch, NotCompleted
<1>6. VerdictIsEarned'
  BY DEF VerdictIsEarned, TypeOK, AfterLaunch, NotCompleted
<1>7. /\ NothingDoneYet' /\ ReportIsFromLastLayer'
  BY DEF NothingDoneYet, ReportIsFromLastLayer, AfterLaunch, NotCompleted
<1> QED  BY <1>1, <1>2, <1>3, <1>4, <1>5, <1>6, <1>7

LEMMA CollectResultStep ==
  ASSUME CoordinatorInv, NEW t \in Task, CollectResult(t)
  PROVE  CoordinatorInv'
<1> USE DEF SaveTaskFile, UpdateStatus, UpdateRun, CoordinatorInv,
            CollectResult, memVars, poolVars, taskFiles, runFile, cancelVars
<1>1. TypeOK'
  BY DEF TypeOK, Outcome, NoOutcome
<1>2. SuccessSoFar'
  BY DEF SuccessSoFar, TypeOK
<1>3. /\ CompletedHasSummary' /\ WorkersHaveTheirInputs' /\ NothingDoneYet'
      /\ LoopsStayInLayer' /\ VerdictIsEarned' /\ ReportIsFromLastLayer'
  BY DEF CompletedHasSummary, WorkersHaveTheirInputs, NothingDoneYet,
         LoopsStayInLayer, VerdictIsEarned, ReportIsFromLastLayer
<1> QED  BY <1>1, <1>2, <1>3

LEMMA AllCollectedStep ==
  ASSUME CoordinatorInv, AllCollected
  PROVE  CoordinatorInv'
<1> USE DEF SaveTaskFile, UpdateStatus, UpdateRun, CoordinatorInv,
            AllCollected, memVars, poolVars, taskFiles, runFile, cancelVars
<1>1. TypeOK'
  BY DEF TypeOK, PC, Outcome, NoOutcome, StartSettling
<1>2. LoopsStayInLayer'
  BY DEF LoopsStayInLayer, TypeOK, StartSettling
<1>3. SuccessSoFar'
  BY DEF SuccessSoFar, TypeOK, StartSettling
<1>4. /\ CompletedHasSummary' /\ WorkersHaveTheirInputs' /\ NothingDoneYet'
      /\ VerdictIsEarned' /\ ReportIsFromLastLayer'
  BY DEF CompletedHasSummary, WorkersHaveTheirInputs, NothingDoneYet,
         VerdictIsEarned, ReportIsFromLastLayer, StartSettling
<1> QED  BY <1>1, <1>2, <1>3, <1>4

LEMMA LayerDeadlineStep ==
  ASSUME CoordinatorInv, LayerDeadline
  PROVE  CoordinatorInv'
<1> USE DEF SaveTaskFile, UpdateStatus, UpdateRun, CoordinatorInv,
            LayerDeadline, memVars, taskFiles, runFile, cancelVars
<1>1. TypeOK'
  BY DEF TypeOK, PC, Outcome, NoOutcome, StartSettling
<1>2. WorkersHaveTheirInputs'
  BY DEF WorkersHaveTheirInputs, TypeOK, StartSettling
<1>3. LoopsStayInLayer'
  BY DEF LoopsStayInLayer, TypeOK, StartSettling
<1>4. SuccessSoFar'
  BY DEF SuccessSoFar, TypeOK, StartSettling
<1>5. /\ CompletedHasSummary' /\ NothingDoneYet' /\ VerdictIsEarned'
      /\ ReportIsFromLastLayer'
  BY DEF CompletedHasSummary, NothingDoneYet, VerdictIsEarned,
         ReportIsFromLastLayer,
         StartSettling
<1> QED  BY <1>1, <1>2, <1>3, <1>4, <1>5

(* The pool threads *)

LEMMA StartWorkerStep ==
  ASSUME CoordinatorInv, NEW t \in Task, StartWorker(t)
  PROVE  CoordinatorInv'
<1> USE DEF SaveTaskFile, UpdateStatus, UpdateRun, CoordinatorInv, StartWorker,
            memVars, taskFiles, runFile, cancelVars
<1>1. TypeOK'
  BY BoundsAssumption DEF TypeOK
<1>2. WorkersHaveTheirInputs'
  BY DEF WorkersHaveTheirInputs, TypeOK
<1>3. /\ CompletedHasSummary' /\ NothingDoneYet' /\ LoopsStayInLayer'
      /\ SuccessSoFar' /\ VerdictIsEarned' /\ ReportIsFromLastLayer'
  BY DEF CompletedHasSummary, NothingDoneYet, LoopsStayInLayer, SuccessSoFar,
         VerdictIsEarned, ReportIsFromLastLayer
<1> QED  BY <1>1, <1>2, <1>3

LEMMA RetryWorkerStep ==
  ASSUME CoordinatorInv, NEW t \in Task, RetryWorker(t)
  PROVE  CoordinatorInv'
<1> USE DEF SaveTaskFile, UpdateStatus, UpdateRun, CoordinatorInv, RetryWorker,
            memVars, taskFiles, runFile, cancelVars
<1>1. TypeOK'
  BY BoundsAssumption DEF TypeOK
<1>2. /\ CompletedHasSummary' /\ WorkersHaveTheirInputs' /\ NothingDoneYet'
      /\ LoopsStayInLayer' /\ SuccessSoFar' /\ VerdictIsEarned'
      /\ ReportIsFromLastLayer'
  BY DEF CompletedHasSummary, WorkersHaveTheirInputs, NothingDoneYet,
         LoopsStayInLayer, SuccessSoFar, VerdictIsEarned,
         ReportIsFromLastLayer
<1> QED  BY <1>1, <1>2

LEMMA WorkerReturnsStep ==
  ASSUME CoordinatorInv, NEW t \in Task, NEW o \in Outcome, WorkerReturns(t, o)
  PROVE  CoordinatorInv'
<1> USE DEF SaveTaskFile, UpdateStatus, UpdateRun, CoordinatorInv,
            WorkerReturns, memVars, taskFiles, runFile, cancelVars
<1>1. TypeOK'
  BY DEF TypeOK, Outcome, NoOutcome
<1>2. WorkersHaveTheirInputs'
  BY DEF WorkersHaveTheirInputs, TypeOK
<1>3. /\ CompletedHasSummary' /\ NothingDoneYet' /\ LoopsStayInLayer'
      /\ SuccessSoFar' /\ VerdictIsEarned' /\ ReportIsFromLastLayer'
  BY DEF CompletedHasSummary, NothingDoneYet, LoopsStayInLayer, SuccessSoFar,
         VerdictIsEarned, ReportIsFromLastLayer
<1> QED  BY <1>1, <1>2, <1>3

(* Settling a layer *)

LEMMA SettleCompletedStep ==
  ASSUME CoordinatorInv, NEW t \in Task, SettleCompleted(t)
  PROVE  CoordinatorInv'
<1> USE DEF SaveTaskFile, UpdateStatus, UpdateRun, CoordinatorInv,
            SettleCompleted, poolVars, runFile, cancelVars
<1>1. TypeOK'
  BY DEF TypeOK, TaskStatus
<1>2. CompletedHasSummary'
  BY DEF CompletedHasSummary, TypeOK
<1>3. WorkersHaveTheirInputs'
  BY DEF WorkersHaveTheirInputs, TypeOK
<1>4. LoopsStayInLayer'
  BY DEF LoopsStayInLayer, TypeOK
<1>5. SuccessSoFar'
  BY DEF SuccessSoFar, TypeOK
<1>6. VerdictIsEarned'
  BY DEF VerdictIsEarned, TypeOK
<1>7. /\ NothingDoneYet' /\ ReportIsFromLastLayer'
  BY DEF NothingDoneYet, ReportIsFromLastLayer
<1> QED  BY <1>1, <1>2, <1>3, <1>4, <1>5, <1>6, <1>7

\* However far resolve_dependencies gets, it makes no task completed and undoes
\* no completion.
LEMMA UnblockKeepsCompleted ==
  ASSUME TypeOK, NEW t \in Task, NEW reached \in SUBSET Task, Unblock(t, reached)
  PROVE  /\ file' \in [Task -> TaskStatus]
         /\ blockedBy' \in [Task -> SUBSET Task]
         /\ \A u \in Task : file'[u] = "completed" <=> file[u] = "completed"
  BY DEF Unblock, TypeOK, TaskStatus

LEMMA ResolveDependenciesStep ==
  ASSUME CoordinatorInv, NEW t \in Task, ResolveDependencies(t)
  PROVE  CoordinatorInv'
<1> USE DEF SaveTaskFile, UpdateStatus, UpdateRun, CoordinatorInv,
            ResolveDependencies, memVars, poolVars, runFile, cancelVars
<1>1. /\ file' \in [Task -> TaskStatus]
      /\ blockedBy' \in [Task -> SUBSET Task]
      /\ \A u \in Task : file'[u] = "completed" <=> file[u] = "completed"
  <2>1. \E reached \in SUBSET Task : Unblock(t, reached)
    OBVIOUS
  <2> QED  BY <2>1, UnblockKeepsCompleted
<1>2. TypeOK'
  <2>1. faults' \in 0..MaxFaults
    BY BoundsAssumption DEF TypeOK
  <2> QED  BY <1>1, <2>1 DEF TypeOK
<1>3. CompletedHasSummary'
  BY <1>1 DEF CompletedHasSummary
<1>4. SuccessSoFar'
  BY <1>1 DEF SuccessSoFar, TypeOK
<1>5. VerdictIsEarned'
  BY <1>1 DEF VerdictIsEarned
<1>6. /\ WorkersHaveTheirInputs' /\ NothingDoneYet' /\ LoopsStayInLayer'
      /\ ReportIsFromLastLayer'
  BY DEF WorkersHaveTheirInputs, NothingDoneYet, LoopsStayInLayer,
         ReportIsFromLastLayer
<1> QED  BY <1>2, <1>3, <1>4, <1>5, <1>6

LEMMA SettleFailedStep ==
  ASSUME CoordinatorInv, NEW t \in Task, SettleFailed(t)
  PROVE  CoordinatorInv'
<1> USE DEF SaveTaskFile, UpdateStatus, UpdateRun, CoordinatorInv,
            SettleFailed, poolVars, runFile, cancelVars
<1>1. TypeOK'
  BY DEF TypeOK, TaskStatus
<1>2. CompletedHasSummary'
  BY DEF CompletedHasSummary, TypeOK
<1>3. LoopsStayInLayer'
  BY DEF LoopsStayInLayer, TypeOK
<1>4. SuccessSoFar'
  BY DEF SuccessSoFar, TypeOK
<1>5. VerdictIsEarned'
  BY DEF VerdictIsEarned, TypeOK
<1>6. /\ WorkersHaveTheirInputs' /\ NothingDoneYet' /\ ReportIsFromLastLayer'
  BY DEF WorkersHaveTheirInputs, NothingDoneYet, ReportIsFromLastLayer
<1> QED  BY <1>1, <1>2, <1>3, <1>4, <1>5, <1>6

LEMMA EndSettlingStep ==
  ASSUME CoordinatorInv, EndSettling
  PROVE  CoordinatorInv'
<1> USE DEF SaveTaskFile, UpdateStatus, UpdateRun, CoordinatorInv, EndSettling,
            poolVars, taskFiles, runFile, cancelVars
<1>1. TypeOK'
  BY DEF TypeOK, PC
<1>2. SuccessSoFar'
  BY DEF SuccessSoFar, TypeOK
<1>3. /\ CompletedHasSummary' /\ WorkersHaveTheirInputs' /\ NothingDoneYet'
      /\ LoopsStayInLayer' /\ VerdictIsEarned' /\ ReportIsFromLastLayer'
  BY DEF CompletedHasSummary, WorkersHaveTheirInputs, NothingDoneYet,
         LoopsStayInLayer, VerdictIsEarned, ReportIsFromLastLayer
<1> QED  BY <1>1, <1>2, <1>3

LEMMA SyncSnapshotStep ==
  ASSUME CoordinatorInv, SyncSnapshot
  PROVE  CoordinatorInv'
<1> USE DEF SaveTaskFile, UpdateStatus, UpdateRun, CoordinatorInv,
            SyncSnapshot, poolVars, taskFiles, cancelVars
<1>1. TypeOK'
  BY BoundsAssumption, LayersAssumption DEF TypeOK, PC, TaskStatus,
                                            RunStatus, LoopsStayInLayer
<1>2. NothingDoneYet'
  BY DEF NothingDoneYet, TypeOK
<1>3. LoopsStayInLayer'
  BY DEF LoopsStayInLayer, TypeOK
<1>4. SuccessSoFar'
  BY LayersAssumption DEF SuccessSoFar, TypeOK
<1>5. VerdictIsEarned'
  BY DEF VerdictIsEarned, TypeOK
<1>6. /\ CompletedHasSummary' /\ WorkersHaveTheirInputs' /\ ReportIsFromLastLayer'
  BY DEF CompletedHasSummary, WorkersHaveTheirInputs, ReportIsFromLastLayer
<1> QED  BY <1>1, <1>2, <1>3, <1>4, <1>5, <1>6

(* The verdict *)

LEMMA DecideStep == ASSUME CoordinatorInv, Decide PROVE CoordinatorInv'
<1> USE DEF SaveTaskFile, UpdateStatus, UpdateRun, CoordinatorInv, Decide,
            poolVars, taskFiles, runFile, cancelVars
<1>1. TypeOK'
  BY DEF TypeOK, PC, RunStatus
<1>2. VerdictIsEarned'
  BY LayersAssumption DEF VerdictIsEarned, TypeOK, SuccessSoFar
<1>3. /\ CompletedHasSummary' /\ WorkersHaveTheirInputs' /\ NothingDoneYet'
      /\ LoopsStayInLayer' /\ SuccessSoFar' /\ ReportIsFromLastLayer'
  BY DEF CompletedHasSummary, WorkersHaveTheirInputs, NothingDoneYet,
         LoopsStayInLayer, SuccessSoFar, ReportIsFromLastLayer
<1> QED  BY <1>1, <1>2, <1>3

LEMMA LoadFinalStep == ASSUME CoordinatorInv, LoadFinal PROVE CoordinatorInv'
<1> USE DEF SaveTaskFile, UpdateStatus, UpdateRun, CoordinatorInv, LoadFinal,
            poolVars, taskFiles, runFile, cancelVars
<1>1. TypeOK'
  BY DEF TypeOK, PC, TaskStatus
<1>2. NothingDoneYet'
  BY DEF NothingDoneYet, TypeOK
<1>3. VerdictIsEarned'
  BY LayersAssumption DEF VerdictIsEarned, TypeOK, CompletedHasSummary
<1>4. ReportIsFromLastLayer'
  BY DEF ReportIsFromLastLayer
<1>5. /\ CompletedHasSummary' /\ WorkersHaveTheirInputs' /\ LoopsStayInLayer'
      /\ SuccessSoFar'
  BY DEF CompletedHasSummary, WorkersHaveTheirInputs, LoopsStayInLayer,
         SuccessSoFar
<1> QED  BY <1>1, <1>2, <1>3, <1>4, <1>5

LEMMA WriteFinalStep == ASSUME CoordinatorInv, WriteFinal PROVE CoordinatorInv'
<1> USE DEF SaveTaskFile, UpdateStatus, UpdateRun, CoordinatorInv, WriteFinal,
            memVars, poolVars, taskFiles, cancelVars
<1>1. TypeOK'
  BY DEF TypeOK, PC, TaskStatus, RunStatus
<1>2. /\ CompletedHasSummary' /\ WorkersHaveTheirInputs' /\ NothingDoneYet'
      /\ LoopsStayInLayer' /\ SuccessSoFar' /\ VerdictIsEarned'
      /\ ReportIsFromLastLayer'
  BY DEF CompletedHasSummary, WorkersHaveTheirInputs, NothingDoneYet,
         LoopsStayInLayer, SuccessSoFar, VerdictIsEarned,
         ReportIsFromLastLayer
<1> QED  BY <1>1, <1>2

LEMMA CloseStep == ASSUME CoordinatorInv, Close PROVE CoordinatorInv'
<1> USE DEF SaveTaskFile, UpdateStatus, UpdateRun, CoordinatorInv, Close,
            memVars, poolVars, taskFiles, runFile
<1>1. TypeOK'
  BY DEF TypeOK, PC
<1>2. /\ CompletedHasSummary' /\ WorkersHaveTheirInputs' /\ NothingDoneYet'
      /\ LoopsStayInLayer' /\ SuccessSoFar' /\ VerdictIsEarned'
      /\ ReportIsFromLastLayer'
  BY DEF CompletedHasSummary, WorkersHaveTheirInputs, NothingDoneYet,
         LoopsStayInLayer, SuccessSoFar, VerdictIsEarned,
         ReportIsFromLastLayer
<1> QED  BY <1>1, <1>2

(* The environment *)

LEMMA CancelRunStep == ASSUME CoordinatorInv, CancelRun PROVE CoordinatorInv'
<1> USE DEF SaveTaskFile, UpdateStatus, UpdateRun, CoordinatorInv, CancelRun,
            memVars, poolVars, taskFiles, runFile
<1>1. TypeOK'
  BY DEF TypeOK
<1>2. /\ CompletedHasSummary' /\ WorkersHaveTheirInputs' /\ NothingDoneYet'
      /\ LoopsStayInLayer' /\ SuccessSoFar' /\ VerdictIsEarned'
      /\ ReportIsFromLastLayer'
  BY DEF CompletedHasSummary, WorkersHaveTheirInputs, NothingDoneYet,
         LoopsStayInLayer, SuccessSoFar, VerdictIsEarned,
         ReportIsFromLastLayer
<1> QED  BY <1>1, <1>2

LEMMA RunErrorStep == ASSUME CoordinatorInv, RunError PROVE CoordinatorInv'
<1> USE DEF SaveTaskFile, UpdateStatus, UpdateRun, CoordinatorInv, RunError,
            runFile, cancelVars
<1>1. /\ file' \in [Task -> TaskStatus]
      /\ blockedBy' \in [Task -> SUBSET Task]
      /\ \A u \in Task : file'[u] = "completed" <=> file[u] = "completed"
      /\ summaries \subseteq summaries'
      /\ summaries' \in SUBSET Task
  <2>1. CASE UNCHANGED <<summaries, taskFiles>>
    BY <2>1 DEF TypeOK, taskFiles
  <2>2. CASE /\ UNCHANGED taskFiles
             /\ \E t \in todo : summaries' = summaries \cup {t}
    BY <2>2 DEF TypeOK, taskFiles
  <2>3. CASE /\ UNCHANGED summaries
             /\ \E t \in resolving, written \in SUBSET Task : Unblock(t, written)
    <3>1. PICK t \in resolving, written \in SUBSET Task : Unblock(t, written)
      BY <2>3
    <3>2. t \in Task
      BY DEF TypeOK
    <3> QED  BY <2>3, <3>1, <3>2, UnblockKeepsCompleted DEF TypeOK
  <2> QED  BY <2>1, <2>2, <2>3 DEF HalfDone
<1>2. TypeOK'
  <2>1. faults' \in 0..MaxFaults
    BY BoundsAssumption DEF TypeOK
  <2>2. worker' \in [Task -> {"none", "queued", "running", "returned", "dropped"}]
    BY DEF TypeOK, DropQueued
  <2> QED  BY <1>1, <2>1, <2>2 DEF TypeOK, PC
<1>3. WorkersHaveTheirInputs'
  BY <1>1 DEF WorkersHaveTheirInputs, TypeOK, DropQueued
<1>4. CompletedHasSummary'
  BY <1>1 DEF CompletedHasSummary
<1>5. /\ NothingDoneYet' /\ LoopsStayInLayer' /\ SuccessSoFar'
      /\ VerdictIsEarned' /\ ReportIsFromLastLayer'
  BY DEF NothingDoneYet, LoopsStayInLayer, SuccessSoFar, VerdictIsEarned,
         ReportIsFromLastLayer
<1> QED  BY <1>2, <1>3, <1>4, <1>5

LEMMA ThreadDiesStep == ASSUME CoordinatorInv, ThreadDies PROVE CoordinatorInv'
<1> USE DEF SaveTaskFile, UpdateStatus, UpdateRun, CoordinatorInv, ThreadDies,
            memVars, poolVars, taskFiles, runFile, cancelVars
<1>1. TypeOK'
  BY BoundsAssumption DEF TypeOK, PC
<1>2. /\ CompletedHasSummary' /\ WorkersHaveTheirInputs' /\ NothingDoneYet'
      /\ LoopsStayInLayer' /\ SuccessSoFar' /\ VerdictIsEarned'
      /\ ReportIsFromLastLayer'
  BY DEF CompletedHasSummary, WorkersHaveTheirInputs, NothingDoneYet,
         LoopsStayInLayer, SuccessSoFar, VerdictIsEarned,
         ReportIsFromLastLayer
<1> QED  BY <1>1, <1>2

LEMMA CrashStep == ASSUME CoordinatorInv, Crash PROVE CoordinatorInv'
<1> USE DEF SaveTaskFile, UpdateStatus, UpdateRun, CoordinatorInv, Crash,
            memVars, taskFiles, runFile
<1>1. TypeOK'
  BY DEF TypeOK, PC
<1>2. WorkersHaveTheirInputs'
  BY DEF WorkersHaveTheirInputs, TypeOK
<1>3. /\ CompletedHasSummary' /\ NothingDoneYet' /\ LoopsStayInLayer'
      /\ SuccessSoFar' /\ VerdictIsEarned' /\ ReportIsFromLastLayer'
  BY DEF CompletedHasSummary, NothingDoneYet, LoopsStayInLayer, SuccessSoFar,
         VerdictIsEarned, ReportIsFromLastLayer
<1> QED  BY <1>1, <1>2, <1>3

\* Together: every step of the run preserves what the coordinator relies on.
LEMMA CoordinatorPreserves == CoordinatorInv /\ [Next]_vars => CoordinatorInv'
<1> SUFFICES ASSUME CoordinatorInv, [Next]_vars PROVE CoordinatorInv'
  OBVIOUS
<1>1. CASE Coordinator
  <2>1. CASE CreateRun \/ Register \/ MarkRunning
    BY <2>1, CreateRunStep, RegisterStep, MarkRunningStep
  <2>2. CASE BeginLayer \/ CancelAtBoundary \/ EndCancelling \/ EndOfLayers
    BY <2>2, BeginLayerStep, CancelAtBoundaryStep, EndCancellingStep,
       EndOfLayersStep
  <2>3. CASE AllCollected \/ EndSettling \/ SyncSnapshot
    BY <2>3, AllCollectedStep, EndSettlingStep, SyncSnapshotStep
  <2>4. CASE Decide \/ LoadFinal \/ WriteFinal \/ Close
    BY <2>4, DecideStep, LoadFinalStep, WriteFinalStep, CloseStep
  <2>5. ASSUME NEW t \in Task,
               \/ SaveTask(t) \/ CancelTask(t) \/ LaunchBlocked(t)
               \/ LaunchWithoutAgent(t) \/ LaunchWorker(t)
        PROVE  CoordinatorInv'
    BY <2>5, SaveTaskStep, CancelTaskStep, LaunchBlockedStep,
       LaunchWithoutAgentStep, LaunchWorkerStep
  <2>6. ASSUME NEW t \in Task,
               \/ CollectResult(t) \/ SettleCompleted(t)
               \/ ResolveDependencies(t) \/ SettleFailed(t)
        PROVE  CoordinatorInv'
    BY <2>6, CollectResultStep, SettleCompletedStep, ResolveDependenciesStep,
       SettleFailedStep
  <2> QED  BY <1>1, <2>1, <2>2, <2>3, <2>4, <2>5, <2>6 DEF Coordinator
<1>2. CASE LayerDeadline
  BY <1>2, LayerDeadlineStep
<1>3. ASSUME NEW t \in Task, Worker(t) PROVE CoordinatorInv'
  BY <1>3, StartWorkerStep, RetryWorkerStep, WorkerReturnsStep DEF Worker
<1>4. CASE Environment
  BY <1>4, CancelRunStep, RunErrorStep, ThreadDiesStep, CrashStep DEF Environment
<1>5. CASE UNCHANGED vars
  BY <1>5 DEF CoordinatorInv, vars, memVars, poolVars, taskFiles, runFile, cancelVars,
     TypeOK, CompletedHasSummary, WorkersHaveTheirInputs, NothingDoneYet,
     LoopsStayInLayer, SuccessSoFar, VerdictIsEarned, ReportIsFromLastLayer
<1> QED  BY <1>1, <1>2, <1>3, <1>4, <1>5 DEF Next, Finished

\* run.json is given the status "completed" by the last write only.
LEMMA RunFileWriters ==
  ASSUME CoordinatorInv, [Next]_vars
  PROVE  \/ UNCHANGED runFile /\ summaries \subseteq summaries'
         \/ runStatus' # "completed"
         \/ WriteFinal
<1> USE DEF UpdateRun, memVars, runFile
<1>1. CASE CreateRun \/ MarkRunning \/ SyncSnapshot
  BY <1>1 DEF CreateRun, MarkRunning, SyncSnapshot, CoordinatorInv, VerdictIsEarned
<1>2. CASE \/ Register \/ BeginLayer \/ CancelAtBoundary \/ EndCancelling
           \/ EndOfLayers \/ AllCollected \/ EndSettling \/ Decide \/ LoadFinal
           \/ Close \/ LayerDeadline
  BY <1>2 DEF Register, BeginLayer, CancelAtBoundary, EndCancelling, EndOfLayers,
              AllCollected, EndSettling, Decide, LoadFinal, Close, LayerDeadline,
              StartSettling
<1>3. CASE \E t \in Task :
             \/ SaveTask(t) \/ CancelTask(t) \/ LaunchBlocked(t)
             \/ LaunchWithoutAgent(t) \/ LaunchWorker(t) \/ CollectResult(t)
             \/ SettleCompleted(t) \/ ResolveDependencies(t) \/ SettleFailed(t)
             \/ Worker(t)
  BY <1>3 DEF SaveTask, CancelTask, LaunchBlocked, LaunchWithoutAgent,
              LaunchWorker, CollectResult, SettleCompleted, ResolveDependencies,
              SettleFailed, Worker, StartWorker, RetryWorker, WorkerReturns
<1>4. CASE Environment
  BY <1>4 DEF Environment, CancelRun, RunError, HalfDone, ThreadDies, Crash
<1>5. CASE UNCHANGED vars
  BY <1>5 DEF vars
<1> QED  BY <1>1, <1>2, <1>3, <1>4, <1>5 DEF Next, Coordinator, Finished

(***************************************************************************)
(* While no file operation has failed: one lemma per action again, first   *)
(* what it leaves as it was, then the conjuncts of FaultFree it disturbs.  *)
(***************************************************************************)
USE DEF CoordinatorInv, FaultFree, Waiting, Past, InLayers, InRun, IsAhead, IsBehind,
        IsBlocked, TerminalTask

\* What has all its inputs keeps them while no completed task is undone.
LEMMA InputsStay ==
  ASSUME NEW u \in Task, NotCompleted(u) = {},
         \A d \in DependsOn[u] : file[d] = "completed" => file'[d] = "completed"
  PROVE  NotCompleted(u)' = {}
  BY DEF NotCompleted

\* A task unblocks tasks of later layers only, and only from blocked to pending.
LEMMA UnblockReachesAhead ==
  ASSUME TypeOK, BlockedByDependencies, NEW t \in Task, LayerOf[t] = layer,
         NEW reached \in SUBSET Task, Unblock(t, reached), NEW u \in Task
  PROVE  /\ LayerOf[u] <= layer =>
              file'[u] = file[u] /\ blockedBy'[u] = blockedBy[u]
         /\ file'[u] = file[u] \/ (file[u] = "blocked" /\ file'[u] = "pending")
         /\ blockedBy'[u] \subseteq blockedBy[u]
<1>1. LayerOf[u] <= layer => t \notin blockedBy[u]
  BY LayersAssumption DEF BlockedByDependencies, TypeOK
<1>2. /\ blockedBy'[u] = IF u \in reached THEN blockedBy[u] \ {t} ELSE blockedBy[u]
      /\ file'[u] = IF /\ u \in reached /\ t \in blockedBy[u]
                       /\ blockedBy'[u] = {} /\ file[u] = "blocked"
                    THEN "pending" ELSE file[u]
  BY DEF Unblock
<1>3. t \notin blockedBy[u] => blockedBy[u] \ {t} = blockedBy[u]
  OBVIOUS
<1> QED  BY <1>1, <1>2, <1>3 DEF TypeOK

LEMMA CreateRunQuiet ==
  ASSUME CoordinatorInv, FaultFree, CreateRun
  PROVE  FaultFree'
<1> USE DEF CreateRun, UpdateRun, memVars, poolVars, taskFiles, cancelVars
<1>1. /\ StartsFresh' /\ MemoryIsFresh' /\ LayersAhead'
      /\ LayersBehind' /\ ResultsOfLayer' /\ LayerLaunched'
      /\ LayerSettling' /\ ResolvingIsSettled' /\ BlockedByDependencies'
      /\ EndIsQuiet' /\ FailureHasCause'
  BY DEF StartsFresh, MemoryIsFresh, LayersAhead, LayersBehind, ResultsOfLayer,
         LayerLaunched, LayerSettling, ResolvingIsSettled,
         BlockedByDependencies, EndIsQuiet, FailureHasCause, TypeOK
<1> QED  BY <1>1

LEMMA RegisterQuiet ==
  ASSUME CoordinatorInv, FaultFree, Register
  PROVE  FaultFree'
<1> USE DEF Register, memVars, poolVars, taskFiles, runFile
<1>1. /\ StartsFresh' /\ MemoryIsFresh' /\ LayersAhead'
      /\ LayersBehind' /\ ResultsOfLayer' /\ LayerLaunched'
      /\ LayerSettling' /\ ResolvingIsSettled' /\ BlockedByDependencies'
      /\ EndIsQuiet' /\ FailureHasCause'
  BY DEF StartsFresh, MemoryIsFresh, LayersAhead, LayersBehind, ResultsOfLayer,
         LayerLaunched, LayerSettling, ResolvingIsSettled,
         BlockedByDependencies, EndIsQuiet, FailureHasCause, TypeOK
<1> QED  BY <1>1

LEMMA MarkRunningQuiet ==
  ASSUME CoordinatorInv, FaultFree, MarkRunning
  PROVE  FaultFree'
<1> USE DEF MarkRunning, UpdateRun, poolVars, taskFiles, cancelVars
<1>1. /\ StartsFresh' /\ MemoryIsFresh' /\ LayersAhead'
      /\ LayersBehind' /\ ResultsOfLayer' /\ LayerLaunched'
      /\ LayerSettling' /\ ResolvingIsSettled' /\ BlockedByDependencies'
      /\ EndIsQuiet' /\ FailureHasCause'
  BY DEF StartsFresh, MemoryIsFresh, LayersAhead, LayersBehind, ResultsOfLayer,
         LayerLaunched, LayerSettling, ResolvingIsSettled,
         BlockedByDependencies, EndIsQuiet, FailureHasCause, TypeOK
<1> QED  BY <1>1

LEMMA SaveTaskQuiet ==
  ASSUME CoordinatorInv, FaultFree, NEW t \in Task, SaveTask(t)
  PROVE  FaultFree'
<1> USE DEF SaveTask, SaveTaskFile, memVars, poolVars, runFile, cancelVars
<1>1. /\ ResultsOfLayer' /\ LayerLaunched' /\ LayerSettling'
      /\ ResolvingIsSettled' /\ BlockedByDependencies' /\ EndIsQuiet'
  BY DEF ResultsOfLayer, LayerLaunched, LayerSettling, ResolvingIsSettled,
         BlockedByDependencies, EndIsQuiet, TypeOK
<1>2. StartsFresh'
  BY LayersAssumption DEF StartsFresh, TypeOK
<1>3. MemoryIsFresh'
  BY LayersAssumption DEF MemoryIsFresh, StartsFresh, TypeOK
<1>4. LayersAhead'
  BY LayersAssumption DEF LayersAhead, StartsFresh, NothingDoneYet, TypeOK
<1>5. LayersBehind'
  <2>1. layer' = 0 /\ pc' \in {"saving", "layer"}
    BY DEF NothingDoneYet
  <2>2. \A u \in Task : ~IsBehind(u)'
    BY <2>1, LayersAssumption
  <2> QED  BY <2>2 DEF LayersBehind
<1>6. FailureHasCause'
  BY LayersAssumption DEF FailureHasCause, StartsFresh, TypeOK
<1> QED  BY <1>1, <1>2, <1>3, <1>4, <1>5, <1>6

LEMMA BeginLayerQuiet ==
  ASSUME CoordinatorInv, FaultFree, BeginLayer
  PROVE  FaultFree'
<1> USE DEF BeginLayer, memVars, poolVars, taskFiles, runFile, cancelVars
<1>1. /\ StartsFresh' /\ MemoryIsFresh' /\ ResultsOfLayer'
      /\ LayerSettling' /\ ResolvingIsSettled' /\ BlockedByDependencies'
      /\ EndIsQuiet'
  BY DEF StartsFresh, MemoryIsFresh, ResultsOfLayer, LayerSettling,
         ResolvingIsSettled, BlockedByDependencies, EndIsQuiet, TypeOK
<1>2. LayersAhead'
  BY LayersAssumption DEF LayersAhead, TypeOK
<1>3. LayersBehind'
  BY LayersAssumption DEF LayersBehind, TypeOK
<1>4. LayerLaunched'
  BY LayersAssumption DEF LayerLaunched, TypeOK
<1>5. FailureHasCause'
  BY LayersAssumption DEF FailureHasCause, TypeOK
<1> QED  BY <1>1, <1>2, <1>3, <1>4, <1>5

LEMMA CancelAtBoundaryQuiet ==
  ASSUME CoordinatorInv, FaultFree, CancelAtBoundary
  PROVE  FaultFree'
<1> USE DEF CancelAtBoundary, poolVars, taskFiles, runFile, cancelVars
<1>1. /\ StartsFresh' /\ MemoryIsFresh' /\ LayersAhead'
      /\ LayersBehind' /\ ResultsOfLayer' /\ LayerLaunched'
      /\ LayerSettling' /\ ResolvingIsSettled' /\ BlockedByDependencies'
      /\ FailureHasCause'
  BY DEF StartsFresh, MemoryIsFresh, LayersAhead, LayersBehind, ResultsOfLayer,
         LayerLaunched, LayerSettling, ResolvingIsSettled,
         BlockedByDependencies, FailureHasCause, TypeOK
<1>2. EndIsQuiet'
  BY LayersAssumption DEF EndIsQuiet, MemoryIsFresh, LayersAhead, LayersBehind,
                          TypeOK
<1> QED  BY <1>1, <1>2

LEMMA CancelTaskQuiet ==
  ASSUME CoordinatorInv, FaultFree, NEW t \in Task, CancelTask(t), faults' = 0
  PROVE  FaultFree'
<1> USE DEF CancelTask, UpdateStatus, memVars, poolVars, runFile, cancelVars
<1>1. /\ StartsFresh' /\ MemoryIsFresh' /\ LayersAhead'
      /\ LayersBehind' /\ ResultsOfLayer' /\ LayerLaunched'
      /\ LayerSettling' /\ ResolvingIsSettled' /\ BlockedByDependencies'
      /\ FailureHasCause'
  BY DEF StartsFresh, MemoryIsFresh, LayersAhead, LayersBehind, ResultsOfLayer,
         LayerLaunched, LayerSettling, ResolvingIsSettled,
         BlockedByDependencies, FailureHasCause, TypeOK
<1>2. EndIsQuiet'
  BY LayersAssumption DEF EndIsQuiet, TypeOK
<1> QED  BY <1>1, <1>2

LEMMA EndCancellingQuiet ==
  ASSUME CoordinatorInv, FaultFree, EndCancelling
  PROVE  FaultFree'
<1> USE DEF EndCancelling, memVars, poolVars, taskFiles, runFile, cancelVars
<1>1. /\ StartsFresh' /\ MemoryIsFresh' /\ LayersAhead'
      /\ LayersBehind' /\ ResultsOfLayer' /\ LayerLaunched'
      /\ LayerSettling' /\ ResolvingIsSettled' /\ BlockedByDependencies'
  BY DEF StartsFresh, MemoryIsFresh, LayersAhead, LayersBehind, ResultsOfLayer,
         LayerLaunched, LayerSettling, ResolvingIsSettled,
         BlockedByDependencies, TypeOK
<1>2. EndIsQuiet'
  BY LayersAssumption DEF EndIsQuiet, TypeOK
<1>3. FailureHasCause'
  BY LayersAssumption DEF FailureHasCause, EndIsQuiet, TypeOK
<1> QED  BY <1>1, <1>2, <1>3

LEMMA EndOfLayersQuiet ==
  ASSUME CoordinatorInv, FaultFree, EndOfLayers
  PROVE  FaultFree'
<1> USE DEF EndOfLayers, memVars, poolVars, taskFiles, runFile, cancelVars
<1>1. /\ StartsFresh' /\ MemoryIsFresh' /\ LayersAhead'
      /\ LayersBehind' /\ ResultsOfLayer' /\ LayerLaunched'
      /\ LayerSettling' /\ ResolvingIsSettled' /\ BlockedByDependencies'
  BY DEF StartsFresh, MemoryIsFresh, LayersAhead, LayersBehind, ResultsOfLayer,
         LayerLaunched, LayerSettling, ResolvingIsSettled,
         BlockedByDependencies, TypeOK
<1>2. EndIsQuiet'
  BY LayersAssumption DEF EndIsQuiet, LayersBehind, TypeOK
<1>3. FailureHasCause'
  BY LayersAssumption DEF FailureHasCause, TypeOK
<1> QED  BY <1>1, <1>2, <1>3

LEMMA LaunchBlockedQuiet ==
  ASSUME CoordinatorInv, FaultFree, NEW t \in Task, LaunchBlocked(t)
  PROVE  FaultFree'
<1> USE DEF LaunchBlocked, SaveTaskFile, AfterLaunch, memVars, poolVars,
            runFile, cancelVars
<1>1. /\ StartsFresh' /\ MemoryIsFresh' /\ ResultsOfLayer'
      /\ LayerSettling' /\ ResolvingIsSettled' /\ EndIsQuiet'
  BY DEF StartsFresh, MemoryIsFresh, ResultsOfLayer, LayerSettling,
         ResolvingIsSettled, EndIsQuiet, TypeOK
<1>2. LayersAhead'
  BY LayersAssumption DEF LayersAhead, TypeOK
<1>3. LayersBehind'
  BY LayersAssumption DEF LayersBehind, LoopsStayInLayer, TypeOK
<1>4. LayerLaunched'
  BY LayersAssumption DEF LayerLaunched, LoopsStayInLayer, LayersAhead,
                          ResultsOfLayer, Unstaffed, NotCompleted, TypeOK
<1>5. BlockedByDependencies'
  BY LayersAssumption DEF BlockedByDependencies, NotCompleted, TypeOK
<1>6. FailureHasCause'
  BY LayersAssumption DEF FailureHasCause, LayersAhead, LoopsStayInLayer,
                          TypeOK
<1> QED  BY <1>1, <1>2, <1>3, <1>4, <1>5, <1>6

LEMMA LaunchWithoutAgentQuiet ==
  ASSUME CoordinatorInv, FaultFree, NEW t \in Task, LaunchWithoutAgent(t)
  PROVE  FaultFree'
<1> USE DEF LaunchWithoutAgent, AfterLaunch, memVars, poolVars, taskFiles,
            runFile, cancelVars
<1>1. /\ StartsFresh' /\ MemoryIsFresh' /\ LayersBehind'
      /\ LayerSettling' /\ ResolvingIsSettled' /\ BlockedByDependencies'
      /\ EndIsQuiet' /\ FailureHasCause'
  BY DEF StartsFresh, MemoryIsFresh, LayersBehind, LayerSettling,
         ResolvingIsSettled, BlockedByDependencies, EndIsQuiet,
         FailureHasCause, TypeOK
<1>2. LayersAhead'
  BY LayersAssumption DEF LayersAhead, TypeOK
<1>3. ResultsOfLayer'
  BY LayersAssumption DEF ResultsOfLayer, LoopsStayInLayer, TypeOK
<1>4. LayerLaunched'
  BY LayersAssumption DEF LayerLaunched, LayersAhead, Unstaffed, NotCompleted,
                          TypeOK
<1> QED  BY <1>1, <1>2, <1>3, <1>4

LEMMA LaunchWorkerQuiet ==
  ASSUME CoordinatorInv, FaultFree, NEW t \in Task, LaunchWorker(t)
  PROVE  FaultFree'
<1> USE DEF LaunchWorker, UpdateStatus, AfterLaunch, memVars, runFile,
            cancelVars
<1>1. /\ StartsFresh' /\ MemoryIsFresh' /\ ResultsOfLayer'
      /\ LayerSettling' /\ ResolvingIsSettled' /\ BlockedByDependencies'
      /\ EndIsQuiet'
  BY DEF StartsFresh, MemoryIsFresh, ResultsOfLayer, LayerSettling,
         ResolvingIsSettled, BlockedByDependencies, EndIsQuiet, TypeOK
<1>2. LayersAhead'
  BY LayersAssumption DEF LayersAhead, LoopsStayInLayer, TypeOK
<1>3. LayersBehind'
  BY LayersAssumption DEF LayersBehind, LoopsStayInLayer, TypeOK
<1>4. LayerLaunched'
  <2>1. LayerOf[t] = layer /\ file[t] \in Waiting /\ worker[t] = "none"
    BY DEF LoopsStayInLayer, LayersAhead
  <2>2. \A u \in Task : file[u] = "completed" => file'[u] = "completed"
    BY <2>1 DEF TypeOK
  <2>3. ASSUME NEW u \in Task, u # t, Unstaffed(u) PROVE Unstaffed(u)'
    BY <2>2, <2>3, InputsStay, DependsOnAssumption DEF Unstaffed, TypeOK
  <2> QED  BY <2>1, <2>3 DEF LayerLaunched, TypeOK
<1>5. FailureHasCause'
  BY LayersAssumption DEF FailureHasCause, LayersAhead, LoopsStayInLayer,
                          TypeOK
<1> QED  BY <1>1, <1>2, <1>3, <1>4, <1>5

LEMMA CollectResultQuiet ==
  ASSUME CoordinatorInv, FaultFree, NEW t \in Task, CollectResult(t)
  PROVE  FaultFree'
<1> USE DEF CollectResult, Awaited, Futures, memVars, poolVars, taskFiles,
            runFile, cancelVars
<1>1. /\ StartsFresh' /\ MemoryIsFresh' /\ LayersAhead'
      /\ LayersBehind' /\ LayerSettling' /\ ResolvingIsSettled'
      /\ BlockedByDependencies' /\ EndIsQuiet' /\ FailureHasCause'
  BY DEF StartsFresh, MemoryIsFresh, LayersAhead, LayersBehind, LayerSettling,
         ResolvingIsSettled, BlockedByDependencies, EndIsQuiet,
         FailureHasCause, TypeOK
<1>2. ResultsOfLayer'
  BY LayersAssumption DEF ResultsOfLayer, TypeOK
<1>3. LayerLaunched'
  BY LayersAssumption DEF LayerLaunched, Unstaffed, NotCompleted, TypeOK
<1> QED  BY <1>1, <1>2, <1>3

LEMMA AllCollectedQuiet ==
  ASSUME CoordinatorInv, FaultFree, AllCollected
  PROVE  FaultFree'
<1> USE DEF AllCollected, StartSettling, Awaited, Futures, memVars, poolVars,
            taskFiles, runFile, cancelVars
<1>1. /\ StartsFresh' /\ MemoryIsFresh' /\ LayersAhead'
      /\ LayersBehind' /\ LayerLaunched' /\ ResolvingIsSettled'
      /\ BlockedByDependencies' /\ EndIsQuiet' /\ FailureHasCause'
  BY DEF StartsFresh, MemoryIsFresh, LayersAhead, LayersBehind, LayerLaunched,
         ResolvingIsSettled, BlockedByDependencies, EndIsQuiet,
         FailureHasCause, TypeOK
<1>2. ResultsOfLayer'
  BY LayersAssumption DEF ResultsOfLayer, NoOutcome, TypeOK
<1>3. LayerSettling'
  BY LayersAssumption DEF LayerSettling, LayerLaunched, Unstaffed,
                          NotCompleted, Outcome, NoOutcome, TypeOK
<1> QED  BY <1>1, <1>2, <1>3

LEMMA LayerDeadlineQuiet ==
  ASSUME CoordinatorInv, FaultFree, LayerDeadline
  PROVE  FaultFree'
<1> USE DEF LayerDeadline, StartSettling, Awaited, Futures, memVars, taskFiles,
            runFile, cancelVars
<1>1. /\ StartsFresh' /\ MemoryIsFresh' /\ LayersAhead'
      /\ LayersBehind' /\ LayerLaunched' /\ ResolvingIsSettled'
      /\ BlockedByDependencies' /\ EndIsQuiet' /\ FailureHasCause'
  BY DEF StartsFresh, MemoryIsFresh, LayersAhead, LayersBehind, LayerLaunched,
         ResolvingIsSettled, BlockedByDependencies, EndIsQuiet,
         FailureHasCause, TypeOK
<1>2. ResultsOfLayer'
  BY LayersAssumption DEF ResultsOfLayer, NoOutcome, TypeOK
<1>3. LayerSettling'
  BY LayersAssumption DEF LayerSettling, LayerLaunched, Unstaffed,
                          NotCompleted, Outcome, NoOutcome, TypeOK
<1> QED  BY <1>1, <1>2, <1>3

LEMMA StartWorkerQuiet ==
  ASSUME CoordinatorInv, FaultFree, NEW t \in Task, StartWorker(t)
  PROVE  FaultFree'
<1> USE DEF StartWorker, Unstaffed, NotCompleted, memVars, taskFiles, runFile,
            cancelVars
<1>1. /\ StartsFresh' /\ MemoryIsFresh' /\ LayersBehind'
      /\ ResultsOfLayer' /\ LayerSettling' /\ ResolvingIsSettled'
      /\ BlockedByDependencies' /\ EndIsQuiet' /\ FailureHasCause'
  BY DEF StartsFresh, MemoryIsFresh, LayersBehind, ResultsOfLayer,
         LayerSettling, ResolvingIsSettled, BlockedByDependencies, EndIsQuiet,
         FailureHasCause, TypeOK
<1>2. LayersAhead'
  BY LayersAssumption DEF LayersAhead, TypeOK
<1>3. LayerLaunched'
  BY LayersAssumption DEF LayerLaunched, Unstaffed, NotCompleted, TypeOK
<1> QED  BY <1>1, <1>2, <1>3

LEMMA RetryWorkerQuiet ==
  ASSUME CoordinatorInv, FaultFree, NEW t \in Task, RetryWorker(t)
  PROVE  FaultFree'
<1> USE DEF RetryWorker, Unstaffed, NotCompleted, memVars, taskFiles, runFile,
            cancelVars
<1>1. /\ StartsFresh' /\ MemoryIsFresh' /\ LayersAhead'
      /\ LayersBehind' /\ ResultsOfLayer' /\ LayerLaunched'
      /\ LayerSettling' /\ ResolvingIsSettled' /\ BlockedByDependencies'
      /\ EndIsQuiet' /\ FailureHasCause'
  BY DEF StartsFresh, MemoryIsFresh, LayersAhead, LayersBehind, ResultsOfLayer,
         LayerLaunched, LayerSettling, ResolvingIsSettled,
         BlockedByDependencies, EndIsQuiet, FailureHasCause, TypeOK
<1> QED  BY <1>1

LEMMA WorkerReturnsQuiet ==
  ASSUME CoordinatorInv, FaultFree, NEW t \in Task, NEW o \in Outcome,
         WorkerReturns(t, o)
  PROVE  FaultFree'
<1> USE DEF WorkerReturns, Unstaffed, NotCompleted, memVars, taskFiles,
            runFile, cancelVars
<1>1. /\ StartsFresh' /\ MemoryIsFresh' /\ LayersBehind'
      /\ ResultsOfLayer' /\ LayerSettling' /\ ResolvingIsSettled'
      /\ BlockedByDependencies' /\ EndIsQuiet' /\ FailureHasCause'
  BY DEF StartsFresh, MemoryIsFresh, LayersBehind, ResultsOfLayer,
         LayerSettling, ResolvingIsSettled, BlockedByDependencies, EndIsQuiet,
         FailureHasCause, TypeOK
<1>2. LayersAhead'
  BY LayersAssumption DEF LayersAhead, TypeOK
<1>3. LayerLaunched'
  BY LayersAssumption DEF LayerLaunched, Unstaffed, NotCompleted, TypeOK
<1> QED  BY <1>1, <1>2, <1>3

LEMMA SettleCompletedQuiet ==
  ASSUME CoordinatorInv, FaultFree, NEW t \in Task, SettleCompleted(t)
  PROVE  FaultFree'
<1> USE DEF SettleCompleted, UpdateStatus, poolVars, runFile, cancelVars
<1>1. /\ StartsFresh' /\ MemoryIsFresh' /\ ResultsOfLayer'
      /\ LayerLaunched' /\ BlockedByDependencies' /\ EndIsQuiet'
  BY DEF StartsFresh, MemoryIsFresh, ResultsOfLayer, LayerLaunched,
         BlockedByDependencies, EndIsQuiet, TypeOK
<1>2. LayersAhead'
  BY LayersAssumption DEF LayersAhead, ResultsOfLayer, NoOutcome, TypeOK
<1>3. LayersBehind'
  BY LayersAssumption DEF LayersBehind, ResultsOfLayer, TypeOK
<1>4. LayerSettling'
  BY LayersAssumption DEF LayerSettling, ResultsOfLayer, Unstaffed,
                          NotCompleted, TypeOK
<1>5. ResolvingIsSettled'
  BY DEF ResolvingIsSettled, ResultsOfLayer, NoOutcome, TypeOK
<1>6. FailureHasCause'
  <2>1. LayerOf[t] = layer /\ file[t] # "failed"
    BY DEF ResultsOfLayer, LayerSettling, Unstaffed, NoOutcome, TypeOK
  <2> QED  BY <2>1, LayersAssumption DEF FailureHasCause, TypeOK
<1> QED  BY <1>1, <1>2, <1>3, <1>4, <1>5, <1>6

LEMMA ResolveDependenciesQuiet ==
  ASSUME CoordinatorInv, FaultFree, NEW t \in Task, ResolveDependencies(t),
         faults' = 0
  PROVE  FaultFree'
<1> USE DEF ResolveDependencies, Unblock, memVars, poolVars, runFile,
            cancelVars
<1>0. \A u \in Task :
        /\ LayerOf[u] <= layer => file'[u] = file[u] /\ blockedBy'[u] = blockedBy[u]
        /\ file'[u] = file[u] \/ (file[u] = "blocked" /\ file'[u] = "pending")
        /\ blockedBy'[u] \subseteq blockedBy[u]
  <2>1. LayerOf[t] = layer /\ Unblock(t, Task)
    BY DEF ResolvingIsSettled, TypeOK
  <2> QED  BY <2>1, UnblockReachesAhead
<1>1. /\ StartsFresh' /\ MemoryIsFresh' /\ ResultsOfLayer'
      /\ LayerLaunched' /\ ResolvingIsSettled' /\ EndIsQuiet'
  BY DEF StartsFresh, MemoryIsFresh, ResultsOfLayer, LayerLaunched,
         ResolvingIsSettled, EndIsQuiet, TypeOK
<1>2. LayersAhead'
  BY <1>0, LayersAssumption DEF LayersAhead, TypeOK
<1>3. LayersBehind'
  BY <1>0, LayersAssumption DEF LayersBehind, TypeOK
<1>4. LayerSettling'
  <2>1. ASSUME NEW u \in Task, Unstaffed(u) PROVE Unstaffed(u)'
    BY <1>0, <2>1, InputsStay, DependsOnAssumption DEF Unstaffed, TypeOK
  <2> QED  BY <1>0, <2>1, LayersAssumption DEF LayerSettling, TypeOK
<1>5. BlockedByDependencies'
  BY <1>0 DEF BlockedByDependencies, TypeOK
<1>6. FailureHasCause'
  BY <1>0, LayersAssumption DEF FailureHasCause, TypeOK
<1> QED  BY <1>1, <1>2, <1>3, <1>4, <1>5, <1>6

LEMMA SettleFailedQuiet ==
  ASSUME CoordinatorInv, FaultFree, NEW t \in Task, SettleFailed(t)
  PROVE  FaultFree'
<1> USE DEF SettleFailed, UpdateStatus, poolVars, runFile, cancelVars
<1>1. /\ StartsFresh' /\ MemoryIsFresh' /\ ResultsOfLayer'
      /\ LayerLaunched' /\ ResolvingIsSettled' /\ BlockedByDependencies'
      /\ EndIsQuiet'
  BY DEF StartsFresh, MemoryIsFresh, ResultsOfLayer, LayerLaunched,
         ResolvingIsSettled, BlockedByDependencies, EndIsQuiet, TypeOK
<1>2. LayersAhead'
  BY LayersAssumption DEF LayersAhead, ResultsOfLayer, TypeOK
<1>3. LayersBehind'
  BY LayersAssumption DEF LayersBehind, ResultsOfLayer, TypeOK
<1>4. LayerSettling'
  <2>1. LayerOf[t] = layer /\ file[t] # "completed"
    BY DEF ResultsOfLayer, LayerSettling, Unstaffed, TypeOK
  <2>2. \A u \in Task : file[u] = "completed" => file'[u] = "completed"
    BY <2>1 DEF TypeOK
  <2>3. ASSUME NEW u \in Task, u # t, Unstaffed(u) PROVE Unstaffed(u)'
    BY <2>2, <2>3, InputsStay, DependsOnAssumption DEF Unstaffed, TypeOK
  <2> QED  BY <2>1, <2>3 DEF LayerSettling, ResultsOfLayer, TypeOK
<1>5. FailureHasCause'
  BY LayersAssumption DEF FailureHasCause, TypeOK
<1> QED  BY <1>1, <1>2, <1>3, <1>4, <1>5

LEMMA EndSettlingQuiet ==
  ASSUME CoordinatorInv, FaultFree, EndSettling
  PROVE  FaultFree'
<1> USE DEF EndSettling, poolVars, taskFiles, runFile, cancelVars
<1>1. /\ StartsFresh' /\ MemoryIsFresh' /\ ResultsOfLayer'
      /\ LayerLaunched' /\ LayerSettling' /\ ResolvingIsSettled'
      /\ BlockedByDependencies' /\ EndIsQuiet'
  BY DEF StartsFresh, MemoryIsFresh, ResultsOfLayer, LayerLaunched,
         LayerSettling, ResolvingIsSettled, BlockedByDependencies, EndIsQuiet,
         TypeOK
<1>2. LayersAhead'
  BY LayersAssumption DEF LayersAhead, TypeOK
<1>3. LayersBehind'
  BY LayersAssumption DEF LayersBehind, LayerSettling, TypeOK
<1>4. FailureHasCause'
  BY LayersAssumption DEF FailureHasCause, LayerSettling, TypeOK
<1> QED  BY <1>1, <1>2, <1>3, <1>4

LEMMA SyncSnapshotQuiet ==
  ASSUME CoordinatorInv, FaultFree, SyncSnapshot, faults' = 0
  PROVE  FaultFree'
<1> USE DEF SyncSnapshot, UpdateRun, poolVars, taskFiles, cancelVars
<1>1. /\ StartsFresh' /\ ResultsOfLayer' /\ LayerLaunched'
      /\ LayerSettling' /\ ResolvingIsSettled' /\ BlockedByDependencies'
      /\ EndIsQuiet'
  BY DEF StartsFresh, ResultsOfLayer, LayerLaunched, LayerSettling,
         ResolvingIsSettled, BlockedByDependencies, EndIsQuiet, TypeOK
<1>2. MemoryIsFresh'
  BY LayersAssumption DEF MemoryIsFresh, TypeOK
<1>3. LayersAhead'
  BY LayersAssumption DEF LayersAhead, TypeOK
<1>4. LayersBehind'
  BY LayersAssumption DEF LayersBehind, TypeOK
<1>5. FailureHasCause'
  BY LayersAssumption DEF FailureHasCause, TypeOK
<1> QED  BY <1>1, <1>2, <1>3, <1>4, <1>5

LEMMA DecideQuiet ==
  ASSUME CoordinatorInv, FaultFree, Decide
  PROVE  FaultFree'
<1> USE DEF Decide, poolVars, taskFiles, runFile, cancelVars
<1>1. /\ StartsFresh' /\ MemoryIsFresh' /\ LayersAhead'
      /\ LayersBehind' /\ ResultsOfLayer' /\ LayerLaunched'
      /\ LayerSettling' /\ ResolvingIsSettled' /\ BlockedByDependencies'
      /\ EndIsQuiet' /\ FailureHasCause'
  BY DEF StartsFresh, MemoryIsFresh, LayersAhead, LayersBehind, ResultsOfLayer,
         LayerLaunched, LayerSettling, ResolvingIsSettled,
         BlockedByDependencies, EndIsQuiet, FailureHasCause, TypeOK
<1> QED  BY <1>1

LEMMA LoadFinalQuiet ==
  ASSUME CoordinatorInv, FaultFree, LoadFinal
  PROVE  FaultFree'
<1> USE DEF LoadFinal, poolVars, taskFiles, runFile, cancelVars
<1>1. /\ StartsFresh' /\ MemoryIsFresh' /\ LayersAhead'
      /\ LayersBehind' /\ ResultsOfLayer' /\ LayerLaunched'
      /\ LayerSettling' /\ ResolvingIsSettled' /\ BlockedByDependencies'
      /\ EndIsQuiet' /\ FailureHasCause'
  BY DEF StartsFresh, MemoryIsFresh, LayersAhead, LayersBehind, ResultsOfLayer,
         LayerLaunched, LayerSettling, ResolvingIsSettled,
         BlockedByDependencies, EndIsQuiet, FailureHasCause, TypeOK
<1> QED  BY <1>1

LEMMA WriteFinalQuiet ==
  ASSUME CoordinatorInv, FaultFree, WriteFinal
  PROVE  FaultFree'
<1> USE DEF WriteFinal, UpdateRun, memVars, poolVars, taskFiles, cancelVars
<1>1. /\ StartsFresh' /\ MemoryIsFresh' /\ LayersAhead'
      /\ LayersBehind' /\ ResultsOfLayer' /\ LayerLaunched'
      /\ LayerSettling' /\ ResolvingIsSettled' /\ BlockedByDependencies'
      /\ EndIsQuiet' /\ FailureHasCause'
  BY DEF StartsFresh, MemoryIsFresh, LayersAhead, LayersBehind, ResultsOfLayer,
         LayerLaunched, LayerSettling, ResolvingIsSettled,
         BlockedByDependencies, EndIsQuiet, FailureHasCause, TypeOK
<1> QED  BY <1>1

LEMMA CloseQuiet ==
  ASSUME CoordinatorInv, FaultFree, Close
  PROVE  FaultFree'
<1> USE DEF Close, memVars, poolVars, taskFiles, runFile
<1>1. /\ StartsFresh' /\ MemoryIsFresh' /\ LayersAhead'
      /\ LayersBehind' /\ ResultsOfLayer' /\ LayerLaunched'
      /\ LayerSettling' /\ ResolvingIsSettled' /\ BlockedByDependencies'
      /\ EndIsQuiet' /\ FailureHasCause'
  BY DEF StartsFresh, MemoryIsFresh, LayersAhead, LayersBehind, ResultsOfLayer,
         LayerLaunched, LayerSettling, ResolvingIsSettled,
         BlockedByDependencies, EndIsQuiet, FailureHasCause, TypeOK
<1> QED  BY <1>1

LEMMA CancelRunQuiet ==
  ASSUME CoordinatorInv, FaultFree, CancelRun
  PROVE  FaultFree'
<1> USE DEF CancelRun, Unstaffed, NotCompleted, memVars, poolVars, taskFiles,
            runFile
<1>1. /\ StartsFresh' /\ MemoryIsFresh' /\ LayersAhead'
      /\ LayersBehind' /\ ResultsOfLayer' /\ LayerLaunched'
      /\ LayerSettling' /\ ResolvingIsSettled' /\ BlockedByDependencies'
      /\ EndIsQuiet' /\ FailureHasCause'
  BY DEF StartsFresh, MemoryIsFresh, LayersAhead, LayersBehind, ResultsOfLayer,
         LayerLaunched, LayerSettling, ResolvingIsSettled,
         BlockedByDependencies, EndIsQuiet, FailureHasCause, TypeOK
<1> QED  BY <1>1

LEMMA CrashQuiet ==
  ASSUME CoordinatorInv, FaultFree, Crash
  PROVE  FaultFree'
<1> USE DEF Crash, memVars, taskFiles, runFile
<1>1. /\ StartsFresh' /\ MemoryIsFresh' /\ LayersAhead'
      /\ LayersBehind' /\ ResultsOfLayer' /\ LayerLaunched'
      /\ LayerSettling' /\ ResolvingIsSettled' /\ BlockedByDependencies'
      /\ EndIsQuiet' /\ FailureHasCause'
  BY DEF StartsFresh, MemoryIsFresh, LayersAhead, LayersBehind, ResultsOfLayer,
         LayerLaunched, LayerSettling, ResolvingIsSettled,
         BlockedByDependencies, EndIsQuiet, FailureHasCause, TypeOK
<1> QED  BY <1>1

\* Failed file operations are only ever added up.
LEMMA FaultsOnlyGrow ==
  CoordinatorInv /\ [Next]_vars => faults' \in Nat /\ faults <= faults'
<1> SUFFICES ASSUME CoordinatorInv, [Next]_vars
             PROVE  faults \in Nat /\ (faults' = faults \/ faults' = faults + 1)
  OBVIOUS
<1>1. faults \in Nat
  BY BoundsAssumption DEF TypeOK
<1>2. CASE \/ CreateRun \/ Register \/ MarkRunning \/ BeginLayer \/ CancelAtBoundary
           \/ EndCancelling \/ EndOfLayers \/ AllCollected \/ EndSettling
           \/ SyncSnapshot \/ Decide \/ LoadFinal \/ WriteFinal \/ Close
           \/ LayerDeadline
  BY <1>1, <1>2 DEF CreateRun, Register, MarkRunning, BeginLayer, CancelAtBoundary,
       EndCancelling, EndOfLayers, AllCollected, EndSettling, SyncSnapshot, Decide,
       LoadFinal, WriteFinal, Close, LayerDeadline, StartSettling
<1>3. CASE \E t \in Task :
             \/ SaveTask(t) \/ CancelTask(t) \/ LaunchBlocked(t)
             \/ LaunchWithoutAgent(t) \/ LaunchWorker(t) \/ CollectResult(t)
             \/ SettleCompleted(t) \/ ResolveDependencies(t) \/ SettleFailed(t)
             \/ Worker(t)
  BY <1>1, <1>3 DEF SaveTask, CancelTask, LaunchBlocked, LaunchWithoutAgent,
       LaunchWorker, CollectResult, SettleCompleted, ResolveDependencies,
       SettleFailed, Worker, StartWorker, RetryWorker, WorkerReturns
<1>4. CASE Environment
  BY <1>1, <1>4 DEF Environment, CancelRun, RunError, ThreadDies, Crash
<1>5. CASE UNCHANGED vars
  BY <1>1, <1>5 DEF vars
<1> QED  BY <1>1, <1>2, <1>3, <1>4, <1>5 DEF Next, Coordinator, Finished

\* The two actions that are nothing but a failing operation.
LEMMA FaultlessSteps ==
  ASSUME CoordinatorInv, [Next]_vars, faults' = 0
  PROVE  ~RunError /\ ~ThreadDies
  BY FaultsOnlyGrow, BoundsAssumption DEF RunError, ThreadDies, TypeOK

LEMMA FaultFreePreserves ==
  CoordinatorInv /\ FaultFree /\ [Next]_vars /\ faults' = 0 => FaultFree'
<1> SUFFICES ASSUME CoordinatorInv, FaultFree, [Next]_vars, faults' = 0
             PROVE  FaultFree'
  OBVIOUS
<1> HIDE DEF CoordinatorInv, FaultFree
<1>1. CASE Coordinator
  <2>1. CASE CreateRun \/ Register \/ MarkRunning
    BY <2>1, CreateRunQuiet, RegisterQuiet, MarkRunningQuiet
  <2>2. CASE BeginLayer \/ CancelAtBoundary \/ EndCancelling \/ EndOfLayers
    BY <2>2, BeginLayerQuiet, CancelAtBoundaryQuiet, EndCancellingQuiet,
       EndOfLayersQuiet
  <2>3. CASE AllCollected \/ EndSettling \/ SyncSnapshot
    BY <2>3, AllCollectedQuiet, EndSettlingQuiet, SyncSnapshotQuiet
  <2>4. CASE Decide \/ LoadFinal \/ WriteFinal \/ Close
    BY <2>4, DecideQuiet, LoadFinalQuiet, WriteFinalQuiet, CloseQuiet
  <2>5. ASSUME NEW t \in Task,
               \/ SaveTask(t) \/ CancelTask(t) \/ LaunchBlocked(t)
               \/ LaunchWithoutAgent(t) \/ LaunchWorker(t)
        PROVE  FaultFree'
    BY <2>5, SaveTaskQuiet, CancelTaskQuiet, LaunchBlockedQuiet,
       LaunchWithoutAgentQuiet, LaunchWorkerQuiet
  <2>6. ASSUME NEW t \in Task,
               \/ CollectResult(t) \/ SettleCompleted(t)
               \/ ResolveDependencies(t) \/ SettleFailed(t)
        PROVE  FaultFree'
    BY <2>6, CollectResultQuiet, SettleCompletedQuiet, ResolveDependenciesQuiet,
       SettleFailedQuiet
  <2> QED  BY <1>1, <2>1, <2>2, <2>3, <2>4, <2>5, <2>6 DEF Coordinator
<1>2. CASE LayerDeadline
  BY <1>2, LayerDeadlineQuiet
<1>3. ASSUME NEW t \in Task, Worker(t) PROVE FaultFree'
  BY <1>3, StartWorkerQuiet, RetryWorkerQuiet, WorkerReturnsQuiet DEF Worker
<1>4. CASE Environment
  BY <1>4, FaultlessSteps, CancelRunQuiet, CrashQuiet DEF Environment
<1>5. CASE UNCHANGED vars
  BY <1>5 DEF vars, memVars, poolVars, taskFiles, runFile, cancelVars, FaultFree,
     StartsFresh, MemoryIsFresh, LayersAhead, LayersBehind, ResultsOfLayer,
     LayerLaunched, LayerSettling, ResolvingIsSettled, BlockedByDependencies,
     EndIsQuiet, FailureHasCause, Unstaffed, NotCompleted
<1> QED  BY <1>1, <1>2, <1>3, <1>4, <1>5 DEF Next, Finished

(* What follows for a run none of whose file operations fails *)

\* A task that has ended is never among those the coordinator writes.
LEMMA EndedTasksStay ==
  ASSUME CoordinatorInv, FaultFree, [Next]_vars, faults' = 0,
         NEW t \in Task, file[t] \in TerminalTask
  PROVE  file'[t] = file[t]
<1>1. ASSUME NEW u \in Task, SaveTask(u) PROVE file'[t] = file[t]
  BY <1>1 DEF SaveTask, SaveTaskFile, StartsFresh, TypeOK
<1>2. ASSUME NEW u \in Task, CancelTask(u) PROVE file'[t] = file[t]
  BY <1>2 DEF CancelTask, UpdateStatus, EndIsQuiet, TypeOK
<1>3. ASSUME NEW u \in Task, LaunchBlocked(u) \/ LaunchWorker(u)
      PROVE  file'[t] = file[t]
  BY <1>3 DEF LaunchBlocked, LaunchWorker, SaveTaskFile, UpdateStatus, LayersAhead,
              LoopsStayInLayer, TypeOK
<1>4. ASSUME NEW u \in Task, SettleCompleted(u) \/ SettleFailed(u)
      PROVE  file'[t] = file[t]
  BY <1>4 DEF SettleCompleted, SettleFailed, UpdateStatus, LayerSettling,
              ResultsOfLayer, Unstaffed, NoOutcome, TypeOK
<1>5. ASSUME NEW u \in Task, ResolveDependencies(u) PROVE file'[t] = file[t]
  BY <1>5 DEF ResolveDependencies, Unblock
<1>6. CASE \/ CreateRun \/ Register \/ MarkRunning \/ BeginLayer \/ CancelAtBoundary
           \/ EndCancelling \/ EndOfLayers \/ AllCollected \/ EndSettling
           \/ SyncSnapshot \/ Decide \/ LoadFinal \/ WriteFinal \/ Close
           \/ LayerDeadline \/ CancelRun \/ Crash
  BY <1>6 DEF CreateRun, Register, MarkRunning, BeginLayer, CancelAtBoundary,
       EndCancelling, EndOfLayers, AllCollected, EndSettling, SyncSnapshot, Decide,
       LoadFinal, WriteFinal, Close, LayerDeadline, StartSettling, CancelRun, Crash,
       taskFiles
<1>7. ASSUME NEW u \in Task, LaunchWithoutAgent(u) \/ CollectResult(u) \/ Worker(u)
      PROVE  file'[t] = file[t]
  BY <1>7 DEF LaunchWithoutAgent, CollectResult, Worker, StartWorker, RetryWorker,
              WorkerReturns, taskFiles
<1>8. CASE UNCHANGED vars
  BY <1>8 DEF vars, taskFiles
<1> QED  BY <1>1, <1>2, <1>3, <1>4, <1>5, <1>6, <1>7, <1>8, FaultlessSteps
            DEF Next, Coordinator, Environment, Finished

LEMMA StageValues ==
  ASSUME NEW s \in TaskStatus
  PROVE  /\ StageOf(s) = "started" <=> s = "in_progress"
         /\ StageOf(s) = "succeeded" <=> s = "completed"
         /\ StageOf(s) = "failed" <=> s = "failed"
         /\ StageOf(s) = "cancelled" <=> s = "cancelled"
         /\ StageOf(s) = "waiting" <=> s \in Waiting \cup {"absent"}
  BY DEF StageOf, TaskStatus

Stages == [t \in Task |-> StageOf(file[t])]

LEMMA AbstractInit == Init => Abstract!Init
<1> SUFFICES ASSUME Init PROVE Abstract!Init
  OBVIOUS
<1>1. StageOf("absent") = "waiting"
  BY DEF StageOf
<1> QED  BY <1>1 DEF Init, Abstract!Init, TerminalRun

LEMMA CancelTaskRefines ==
  ASSUME CoordinatorInv, FaultFree, NEW t \in Task, CancelTask(t), faults' = 0,
         TypeOK'
  PROVE  Abstract!Cancel(t)
<1>1. /\ file[t] \in Waiting /\ cancel /\ status = "running"
      /\ file' = [file EXCEPT ![t] = "cancelled"]
  BY BoundsAssumption DEF CancelTask, UpdateStatus, EndIsQuiet, StartsFresh, TypeOK
<1>2. \A u \in Task : file[u] # "in_progress"
  BY DEF CancelTask, EndIsQuiet
<1>3. \A u \in Task : StageOf(file[u]) # "started"
  BY <1>2, StageValues DEF TypeOK
<1>4. StageOf(file[t]) = "waiting" /\ StageOf("cancelled") = "cancelled"
  BY <1>1, StageValues DEF TypeOK, StageOf
<1>5. Stages' = [Stages EXCEPT ![t] = "cancelled"]
  BY <1>1, <1>4 DEF Stages, TypeOK
<1>6. UNCHANGED <<cancel, status>>
  BY DEF CancelTask, cancelVars, memVars
<1> QED  BY <1>1, <1>3, <1>4, <1>5, <1>6 DEF Abstract!Cancel, Stages, TerminalRun

LEMMA LaunchWorkerRefines ==
  ASSUME CoordinatorInv, FaultFree, NEW t \in Task, LaunchWorker(t), TypeOK'
  PROVE  Abstract!Start(t)
<1>1. /\ file[t] \in Waiting /\ status = "running"
      /\ file' = [file EXCEPT ![t] = "in_progress"]
      /\ \A d \in DependsOn[t] : d \in Task /\ file[d] = "completed"
  BY DependsOnAssumption DEF LaunchWorker, UpdateStatus, LoopsStayInLayer, LayersAhead,
     StartsFresh, NotCompleted
<1>2. ASSUME NEW u \in Task PROVE file[u] # "cancelled"
  <2>1. IsAhead(u) \/ IsBehind(u) \/ (LayerOf[u] = layer /\ u \notin todo)
    BY LayersAssumption DEF TypeOK, LaunchWorker
  <2> QED  BY <2>1 DEF LaunchWorker, LayersAhead, LayersBehind, LayerLaunched, Unstaffed
<1>3. /\ StageOf(file[t]) = "waiting" /\ StageOf("in_progress") = "started"
      /\ \A u \in Task : StageOf(file[u]) # "cancelled"
      /\ \A d \in DependsOn[t] : StageOf(file[d]) = "succeeded"
  BY <1>1, <1>2, StageValues DEF TypeOK, StageOf
<1>4. Stages' = [Stages EXCEPT ![t] = "started"]
  BY <1>1, <1>3 DEF Stages, TypeOK
<1>5. UNCHANGED <<cancel, status>>
  BY DEF LaunchWorker, cancelVars, memVars
<1>6. \A d \in DependsOn[t] : d \in Task
  BY <1>1
<1> QED  BY <1>1, <1>3, <1>4, <1>5, <1>6 DEF Abstract!Start, Stages, TerminalRun

LEMMA SettleCompletedRefines ==
  ASSUME CoordinatorInv, FaultFree, NEW t \in Task, SettleCompleted(t), TypeOK'
  PROVE  Abstract!Succeed(t)
<1>1. /\ file[t] = "in_progress" /\ status = "running"
      /\ file' = [file EXCEPT ![t] = "completed"]
  BY DEF SettleCompleted, UpdateStatus, LayerSettling, ResultsOfLayer, Unstaffed,
         NoOutcome, StartsFresh
<1>2. StageOf("in_progress") = "started" /\ StageOf("completed") = "succeeded"
  BY DEF StageOf
<1>3. Stages' = [Stages EXCEPT ![t] = "succeeded"]
  BY <1>1, <1>2 DEF Stages, TypeOK
<1>4. UNCHANGED <<cancel, status>>
  BY DEF SettleCompleted, cancelVars
<1> QED  BY <1>1, <1>2, <1>3, <1>4 DEF Abstract!Succeed, Stages, TerminalRun

LEMMA SettleFailedRefines ==
  ASSUME CoordinatorInv, FaultFree, NEW t \in Task, SettleFailed(t), TypeOK'
  PROVE  Abstract!Fail(t)
<1>1. /\ status = "running" /\ file' = [file EXCEPT ![t] = "failed"]
      /\ file[t] = "in_progress" \/ (file[t] \in Waiting /\ NotCompleted(t) = {})
  BY DEF SettleFailed, UpdateStatus, LayerSettling, ResultsOfLayer, Unstaffed,
         StartsFresh
<1>2. /\ StageOf("failed") = "failed"
      /\ \/ StageOf(file[t]) = "started"
         \/ /\ StageOf(file[t]) = "waiting"
            /\ \A d \in DependsOn[t] : d \in Task /\ StageOf(file[d]) = "succeeded"
  BY <1>1, StageValues, DependsOnAssumption DEF NotCompleted, TypeOK, StageOf
<1>3. Stages' = [Stages EXCEPT ![t] = "failed"]
  BY <1>1, <1>2 DEF Stages, TypeOK
<1>4. UNCHANGED <<cancel, status>>
  BY DEF SettleFailed, cancelVars
<1> QED  BY <1>1, <1>2, <1>3, <1>4 DEF Abstract!Fail, Stages, TerminalRun

LEMMA DecideRefines ==
  ASSUME CoordinatorInv, FaultFree, Decide, TypeOK'
  PROVE  Abstract!Conclude
<1>1. status = "running" /\ \A u \in Task : file[u] # "in_progress"
  BY DEF Decide, StartsFresh, EndIsQuiet
<1>2. \A u \in Task : StageOf(file[u]) # "started"
  BY <1>1, StageValues DEF TypeOK
<1>3. ~cancel => (allOk <=> \A u \in Task : file[u] = "completed")
  BY LayersAssumption DEF Decide, SuccessSoFar, FailureHasCause, TypeOK
<1>4. (\A u \in Task : StageOf(file[u]) = "succeeded")
        <=> \A u \in Task : file[u] = "completed"
  BY StageValues DEF TypeOK
<1>5. /\ UNCHANGED <<cancel, file>>
      /\ status' = IF cancel THEN "cancelled"
                   ELSE IF allOk THEN "completed" ELSE "failed"
  BY DEF Decide, cancelVars, taskFiles
<1> QED  BY <1>1, <1>2, <1>3, <1>4, <1>5 DEF Abstract!Conclude, TerminalRun

\* While no file operation fails, each step is one of the abstract run's, or
\* changes nothing it sees.
LEMMA StepRefines ==
  ASSUME CoordinatorInv, FaultFree, [Next]_vars, faults' = 0, TypeOK'
  PROVE  [Abstract!Next]_Abstract!vars
<1>1. CASE \E t \in Task : \/ CancelTask(t) \/ LaunchWorker(t)
                           \/ SettleCompleted(t) \/ SettleFailed(t)
  BY <1>1, CancelTaskRefines, LaunchWorkerRefines, SettleCompletedRefines,
     SettleFailedRefines DEF Abstract!Next
<1>2. CASE Decide
  BY <1>2, DecideRefines DEF Abstract!Next
<1>3. CASE CancelRun
  <2>1. Abstract!Ask
    BY <1>3 DEF CancelRun, Abstract!Ask, memVars, taskFiles
  <2> QED  BY <2>1 DEF Abstract!Next
<1>4. CASE \/ CreateRun \/ Register \/ BeginLayer \/ CancelAtBoundary
           \/ EndCancelling \/ EndOfLayers \/ AllCollected \/ EndSettling
           \/ SyncSnapshot \/ LoadFinal \/ WriteFinal \/ Close
           \/ LayerDeadline \/ Crash
  <2>1. UNCHANGED <<file, cancel, status>>
    BY <1>4 DEF CreateRun, Register, BeginLayer, CancelAtBoundary, EndCancelling,
         EndOfLayers, AllCollected, EndSettling, SyncSnapshot, LoadFinal, WriteFinal,
         Close, LayerDeadline, StartSettling, Crash, taskFiles, cancelVars, memVars
  <2> QED  BY <2>1 DEF Abstract!vars
<1>5. CASE MarkRunning
  <2>1. UNCHANGED <<file, cancel>> /\ status = "pending" /\ status' = "running"
    BY <1>5 DEF MarkRunning, StartsFresh, taskFiles, cancelVars
  <2> QED  BY <2>1 DEF Abstract!vars, TerminalRun
<1>6. CASE \E t \in Task : LaunchWithoutAgent(t) \/ CollectResult(t) \/ Worker(t)
  <2>1. UNCHANGED <<file, cancel, status>>
    BY <1>6 DEF LaunchWithoutAgent, CollectResult, Worker, StartWorker, RetryWorker,
         WorkerReturns, taskFiles, cancelVars, memVars
  <2> QED  BY <2>1 DEF Abstract!vars
<1>7. CASE \E t \in Task : SaveTask(t) \/ LaunchBlocked(t) \/ ResolveDependencies(t)
  <2>1. UNCHANGED <<cancel, status>>
    BY <1>7 DEF SaveTask, LaunchBlocked, ResolveDependencies, cancelVars, memVars
  <2>2. ASSUME NEW u \in Task
        PROVE  \/ file'[u] = file[u]
               \/ {file[u], file'[u]} \subseteq Waiting \cup {"absent"}
    <3>1. CASE \E t \in Task : SaveTask(t)
      BY <3>1 DEF SaveTask, SaveTaskFile, StartsFresh, TypeOK
    <3>2. CASE \E t \in Task : LaunchBlocked(t)
      BY <3>2 DEF LaunchBlocked, SaveTaskFile, LayersAhead, LoopsStayInLayer, TypeOK
    <3>3. CASE \E t \in Task : ResolveDependencies(t)
      BY <3>3 DEF ResolveDependencies, Unblock
    <3> QED  BY <1>7, <3>1, <3>2, <3>3
  <2>3. \A u \in Task : StageOf(file'[u]) = StageOf(file[u])
    BY <2>2, StageValues DEF TypeOK
  <2> QED  BY <2>1, <2>3 DEF Abstract!vars
<1>8. CASE UNCHANGED vars
  BY <1>8 DEF vars, taskFiles, cancelVars, memVars, Abstract!vars
<1> QED  BY <1>1, <1>2, <1>3, <1>4, <1>5, <1>6, <1>7, <1>8, FaultlessSteps
            DEF Next, Coordinator, Environment, Finished

HIDE DEF CoordinatorInv, FaultFree, Waiting, Past, InLayers, InRun, IsAhead, IsBehind,
         IsBlocked, TerminalTask

LEMMA NextPreserves == IInv /\ [Next]_vars => IInv'
<1> SUFFICES ASSUME IInv, [Next]_vars PROVE IInv'
  OBVIOUS
<1> USE DEF IInv
<1>1. CoordinatorInv'
  BY CoordinatorPreserves
<1>2. CompletedMeansAll' /\ CompletedHasReport'
  <2>1. CASE UNCHANGED runFile /\ summaries \subseteq summaries'
    BY <2>1 DEF CompletedMeansAll, CompletedHasReport, runFile
  <2>2. CASE runStatus' # "completed"
    BY <2>2 DEF CompletedMeansAll, CompletedHasReport
  <2>3. CASE WriteFinal
    BY <2>3 DEF WriteFinal, UpdateRun, CoordinatorInv, VerdictIsEarned,
                CompletedHasSummary, ReportIsFromLastLayer, CompletedMeansAll,
                CompletedHasReport, memVars, taskFiles
  <2> QED  BY <2>1, <2>2, <2>3, RunFileWriters
<1>3. faults' = 0 => FaultFree'
  <2>1. faults' = 0 => faults = 0
    BY FaultsOnlyGrow, BoundsAssumption DEF CoordinatorInv, TypeOK
  <2> QED  BY <2>1, FaultFreePreserves
<1> QED  BY <1>1, <1>2, <1>3

\* Every reachable state satisfies the inductive invariant, and with it the
\* type invariant.
THEOREM RunInvariant == Spec => []IInv
  BY InitEstablishes, NextPreserves, PTL DEF Spec

\* A worker is submitted only when every task it depends on has left its
\* summary with the coordinator (runtime.py:445-500).
THEOREM InputsAvailable == Spec => []WorkersHaveTheirInputs
<1>1. IInv => WorkersHaveTheirInputs
  BY DEF IInv, CoordinatorInv
<1> QED  BY <1>1, RunInvariant, PTL

\* A run.json that says completed speaks the truth about all its tasks, however
\* the layers went, whatever timed out, failed or died on the way
\* (runtime.py:368-385).
THEOREM CompletedIsTrue == Spec => []CompletedMeansAll
<1>1. IInv => CompletedMeansAll
  BY DEF IInv, CoordinatorInv
<1> QED  BY <1>1, RunInvariant, PTL

\* And it carries the report of a task of the last layer (runtime.py:378-383).
THEOREM CompletedIsReported == Spec => []CompletedHasReport
<1>1. IInv => CompletedHasReport
  BY DEF IInv, CoordinatorInv
<1> QED  BY <1>1, RunInvariant, PTL

\* The files of a run that was closed without a failing file operation leave no
\* task waiting for a thread or running (runtime.py:367-391).
THEOREM ClosedIsQuiet == Spec => []ClosedRunIsQuiet
<1>1. IInv => ClosedRunIsQuiet
  BY DEF IInv, FaultFree, MemoryIsFresh, EndIsQuiet, Past, ClosedRunIsQuiet
<1> QED  BY <1>1, RunInvariant, PTL

\* As long as file operations succeed, no task file that says completed, failed
\* or cancelled is written again, whoever times out, returns late or cancels
\* (task_store.py:113-188).
THEOREM EndingsAreFinal == Spec /\ [](faults = 0) => TerminalTaskIsFinal
<1>1. IInv /\ [Next]_vars /\ faults = 0 /\ (faults = 0)' =>
        [\A t \in Task : file[t] \in TerminalTask => file'[t] = file[t]]_vars
  BY EndedTasksStay DEF IInv
<1> QED  BY <1>1, RunInvariant, PTL DEF Spec, TerminalTaskIsFinal

\* And then the run with its layers, files, threads, deadlines and retries does what
\* SwarmSpec promises: a task starts when all it depends on has succeeded, ends
\* once, and the verdict says what became of the tasks.
THEOREM RunImplementsSpec == Spec /\ [](faults = 0) => ImplementsSwarmSpec
<1>1. Init => Abstract!Init
  BY AbstractInit
<1>2. IInv /\ IInv' /\ [Next]_vars /\ faults = 0 /\ (faults = 0)'
        => [Abstract!Next]_Abstract!vars
  BY StepRefines DEF IInv, CoordinatorInv
<1> QED  BY <1>1, <1>2, RunInvariant, PTL DEF Spec, ImplementsSwarmSpec, Abstract!Spec

-----------------------------------------------------------------------------
(***************************************************************************)
(* The run together with the sweeps over its directory                     *)
(***************************************************************************)

(* What a step of the host does to the files the sweeps look at *)

LEMMA DeadHostIsStill ==
  ASSUME TypeOK, [Next]_vars, pc = "dead"
  PROVE  pc' = "dead" /\ UNCHANGED <<taskFiles, runFile>>
<1>1. CASE \/ CreateRun \/ Register \/ MarkRunning \/ BeginLayer \/ CancelAtBoundary
           \/ EndCancelling \/ EndOfLayers \/ AllCollected \/ EndSettling
           \/ SyncSnapshot \/ Decide \/ LoadFinal \/ WriteFinal \/ Close
           \/ LayerDeadline \/ Environment
  BY <1>1 DEF CreateRun, Register, MarkRunning, BeginLayer, CancelAtBoundary,
       EndCancelling, EndOfLayers, AllCollected, EndSettling, SyncSnapshot, Decide,
       LoadFinal, WriteFinal, Close, LayerDeadline, StartSettling, Environment,
       CancelRun, RunError, ThreadDies, Crash
<1>2. CASE \E t \in Task :
             \/ SaveTask(t) \/ CancelTask(t) \/ LaunchBlocked(t)
             \/ LaunchWithoutAgent(t) \/ LaunchWorker(t) \/ CollectResult(t)
             \/ SettleCompleted(t) \/ ResolveDependencies(t) \/ SettleFailed(t)
             \/ Worker(t)
  BY <1>2 DEF SaveTask, CancelTask, LaunchBlocked, LaunchWithoutAgent, LaunchWorker,
       CollectResult, SettleCompleted, ResolveDependencies, SettleFailed, Worker,
       StartWorker, RetryWorker, WorkerReturns
<1>3. CASE UNCHANGED vars
  BY <1>3 DEF vars
<1> QED  BY <1>1, <1>2, <1>3 DEF Next, Coordinator, Finished

\* The tasks in run.json are written by create_run and at the start, when there
\* is no task file yet, or from the task files.
LEMMA RunTasksWriters ==
  ASSUME CoordinatorInv, FaultFree, [Next]_vars, faults' = 0
  PROVE  \/ runTasks' = runTasks
         \/ runTasks' = file /\ file' = file
         \/ \A t \in Task : file[t] = "absent" /\ runTasks'[t] \in Waiting
<1> USE DEF CoordinatorInv, FaultFree
<1>1. CASE CreateRun \/ MarkRunning \/ SyncSnapshot \/ WriteFinal
  BY <1>1, BoundsAssumption DEF CreateRun, MarkRunning, SyncSnapshot, WriteFinal,
     UpdateRun, StartsFresh, MemoryIsFresh, taskFiles, TypeOK
<1>2. CASE \/ Register \/ BeginLayer \/ CancelAtBoundary \/ EndCancelling
           \/ EndOfLayers \/ AllCollected \/ EndSettling \/ Decide \/ LoadFinal
           \/ Close \/ LayerDeadline \/ Environment
  BY <1>2 DEF Register, BeginLayer, CancelAtBoundary, EndCancelling, EndOfLayers,
       AllCollected, EndSettling, Decide, LoadFinal, Close, LayerDeadline,
       StartSettling, Environment, CancelRun, RunError, ThreadDies, Crash, runFile
<1>3. CASE \E t \in Task :
             \/ SaveTask(t) \/ CancelTask(t) \/ LaunchBlocked(t)
             \/ LaunchWithoutAgent(t) \/ LaunchWorker(t) \/ CollectResult(t)
             \/ SettleCompleted(t) \/ ResolveDependencies(t) \/ SettleFailed(t)
             \/ Worker(t)
  BY <1>3 DEF SaveTask, CancelTask, LaunchBlocked, LaunchWithoutAgent, LaunchWorker,
       CollectResult, SettleCompleted, ResolveDependencies, SettleFailed, Worker,
       StartWorker, RetryWorker, WorkerReturns, runFile
<1>4. CASE UNCHANGED vars
  BY <1>4 DEF vars, runFile
<1> QED  BY <1>1, <1>2, <1>3, <1>4 DEF Next, Coordinator, Finished

(* What a step of a sweep does to its own state *)

LEMMA IdleIsTyped == Idle \in SweepState
BY DEF Idle, SweepState, TaskStatus

LEMMA LoadEffect ==
  ASSUME TypeOK, RecoveryTypeOK, NEW r \in Reaper, Load(r)
  PROVE  /\ sweep'[r] = [step |-> "hydrate", left |-> Task, view |-> runTasks,
                         blocked |-> DependsOn, report |-> runReport, quiet |-> silent,
                         kind |-> "none"]
         /\ \A q \in Reaper : q # r => sweep'[q] = sweep[q]
         /\ UNCHANGED <<vars, silent, logged>>
         /\ RecoveryTypeOK'
<1>1. sweep'[r] = [step |-> "hydrate", left |-> Task, view |-> runTasks,
                   blocked |-> DependsOn, report |-> runReport, quiet |-> silent,
                   kind |-> "none"]
  BY DEF Load, RecoveryTypeOK
<1>2. sweep'[r] \in SweepState
  BY <1>1, DependsOnAssumption DEF SweepState, TypeOK, RecoveryTypeOK, Kind
<1> QED  BY <1>1, <1>2 DEF Load, RecoveryTypeOK

LEMMA ReadTaskEffect ==
  ASSUME TypeOK, RecoveryTypeOK, NEW r \in Reaper, NEW t \in Task, ReadTask(r, t)
  PROVE  /\ sweep'[r].step = "hydrate" /\ sweep[r].step = "hydrate"
         /\ sweep'[r].left = sweep[r].left \ {t}
         /\ sweep'[r].quiet = sweep[r].quiet
         /\ \A u \in Task : u # t => /\ sweep'[r].view[u] = sweep[r].view[u]
                                     /\ sweep'[r].blocked[u] = sweep[r].blocked[u]
         /\ sweep'[r].view[t] = IF file[t] = "absent" THEN sweep[r].view[t] ELSE file[t]
         /\ sweep'[r].blocked[t] \in {sweep[r].blocked[t], blockedBy[t]}
         /\ \A q \in Reaper : q # r => sweep'[q] = sweep[q]
         /\ UNCHANGED <<vars, silent, logged>>
         /\ RecoveryTypeOK'
<1>1. sweep[r] \in SweepState /\ sweep \in [Reaper -> SweepState]
  BY DEF RecoveryTypeOK
<1>2. sweep'[r] \in SweepState /\ sweep' \in [Reaper -> SweepState]
  BY <1>1 DEF ReadTask, SweepState, TypeOK
<1>3. UNCHANGED <<vars, silent, logged, broken>> /\ RecoveryTypeOK'
  BY <1>2 DEF ReadTask, RecoveryTypeOK
<1>4. \A q \in Reaper : q # r => sweep'[q] = sweep[q]
  BY <1>1 DEF ReadTask
<1> QED  BY <1>1, <1>3, <1>4 DEF ReadTask, SweepState

LEMMA JudgeEffect ==
  ASSUME RecoveryTypeOK, NEW r \in Reaper, JudgeTerminal(r) \/ JudgeStale(r)
  PROVE  /\ sweep[r].step = "hydrate" /\ sweep[r].left = {}
         /\ sweep'[r].step = "persist"
         /\ sweep'[r].left = Task
         /\ sweep'[r].quiet = sweep[r].quiet
         /\ sweep'[r].blocked = sweep[r].blocked
         /\ \A u \in Task : sweep'[r].view[u] =
              IF sweep[r].view[u] \in TerminalTask THEN sweep[r].view[u] ELSE "failed"
         /\ (\A u \in Task : sweep[r].view[u] \in TerminalTask) \/ sweep[r].quiet
         /\ \A q \in Reaper : q # r => sweep'[q] = sweep[q]
         /\ UNCHANGED <<vars, silent, logged>>
         /\ RecoveryTypeOK'
<1>1. /\ sweep[r] \in SweepState /\ sweep \in [Reaper -> SweepState]
      /\ sweep[r].step = "hydrate" /\ sweep[r].left = {}
  BY DEF RecoveryTypeOK, JudgeTerminal, JudgeStale, Hydrated
<1> DEFINE Judged(u) == IF sweep[r].view[u] \in TerminalTask THEN sweep[r].view[u]
                        ELSE "failed"
<1>2. /\ sweep'[r] \in SweepState
      /\ sweep'[r].step = "persist"
      /\ sweep'[r].left = Task
      /\ sweep'[r].quiet = sweep[r].quiet
      /\ sweep'[r].blocked = sweep[r].blocked
      /\ \A u \in Task : sweep'[r].view[u] = Judged(u)
      /\ (\A u \in Task : sweep[r].view[u] \in TerminalTask) \/ sweep[r].quiet
  <2>1. CASE JudgeTerminal(r)
    <3>1. sweep'[r] = [sweep[r] EXCEPT !.step = "persist", !.left = Task,
                                       !.kind = "run_recovered_terminal"]
      BY <2>1, <1>1 DEF JudgeTerminal
    <3> QED  BY <2>1, <3>1, <1>1 DEF JudgeTerminal, AllTerminal, SweepState, Kind
  <2>2. CASE JudgeStale(r)
    <3>1. sweep'[r] = [sweep[r] EXCEPT !.step = "persist", !.left = Task,
                         !.view = [u \in Task |-> Judged(u)], !.kind = "run_reaped"]
      BY <2>2, <1>1 DEF JudgeStale
    <3>2. [u \in Task |-> Judged(u)] \in [Task -> TaskStatus]
      BY <1>1 DEF SweepState, TaskStatus
    <3> QED  BY <2>2, <3>1, <3>2, <1>1 DEF JudgeStale, Stale, SweepState, Kind
  <2> QED  BY <2>1, <2>2
<1>3. /\ \A q \in Reaper : q # r => sweep'[q] = sweep[q]
      /\ sweep' \in [Reaper -> SweepState]
      /\ UNCHANGED <<vars, silent, logged, broken>>
  BY <1>1, <1>2 DEF JudgeTerminal, JudgeStale
<1>4. RecoveryTypeOK'
  BY <1>3 DEF RecoveryTypeOK
<1> QED  BY <1>1, <1>2, <1>3, <1>4

\* A sweep that is through, or breaks off.
LEMMA IdleEffect ==
  ASSUME RecoveryTypeOK, NEW r \in Reaper,
         JudgeAlive(r) \/ AppendEvent(r) \/ SweepFails(r)
  PROVE  /\ sweep'[r] = Idle
         /\ \A q \in Reaper : q # r => sweep'[q] = sweep[q]
         /\ UNCHANGED vars
         /\ silent' => silent
         /\ logged' = logged \/ sweep[r].step = "append"
         /\ RecoveryTypeOK'
<1>1. sweep'[r] = Idle /\ \A q \in Reaper : q # r => sweep'[q] = sweep[q]
  BY DEF RecoveryTypeOK, JudgeAlive, AppendEvent, SweepFails
<1>2. /\ UNCHANGED vars
      /\ silent' => silent
      /\ logged' = logged \/ sweep[r].step = "append"
  BY DEF JudgeAlive, AppendEvent, SweepFails, Log
<1>3. sweep[r].kind \in Kind \cup {"none"}
  BY DEF RecoveryTypeOK, SweepState
<1>4. sweep' \in [Reaper -> SweepState]
  BY IdleIsTyped DEF RecoveryTypeOK, JudgeAlive, AppendEvent, SweepFails
<1>5. broken' \in 0..MaxBroken
  BY ReaperAssumption DEF RecoveryTypeOK, JudgeAlive, AppendEvent, SweepFails
<1>6. logged' \subseteq Kind \cup {"none"}
  BY <1>3 DEF RecoveryTypeOK, JudgeAlive, AppendEvent, SweepFails, Log
<1>7. silent' \in BOOLEAN
  BY DEF RecoveryTypeOK, JudgeAlive, AppendEvent, SweepFails, Log
<1>8. RecoveryTypeOK'
  BY <1>4, <1>5, <1>6, <1>7 DEF RecoveryTypeOK
<1> QED  BY <1>1, <1>2, <1>8

LEMMA ReadEventsEffect ==
  ASSUME RecoveryTypeOK, NEW r \in Reaper, ReadEvents(r)
  PROVE  /\ sweep[r].step = "events" /\ sweep[r] \in SweepState
         /\ sweep'[r] \in {Idle, [sweep[r] EXCEPT !.step = "append"]}
         /\ \A q \in Reaper : q # r => sweep'[q] = sweep[q]
         /\ UNCHANGED <<vars, silent, logged>>
         /\ RecoveryTypeOK'
<1>1. /\ sweep[r].step = "events"
      /\ sweep[r] \in SweepState
      /\ sweep'[r] \in {Idle, [sweep[r] EXCEPT !.step = "append"]}
      /\ \A q \in Reaper : q # r => sweep'[q] = sweep[q]
      /\ UNCHANGED <<vars, silent, logged, broken>>
  BY DEF ReadEvents, RecoveryTypeOK
<1>2. sweep'[r] \in SweepState
  BY <1>1, IdleIsTyped DEF SweepState
<1>3. RecoveryTypeOK'
  BY <1>1, <1>2 DEF ReadEvents, RecoveryTypeOK
<1> QED  BY <1>1, <1>3

LEMMA PersistTaskEffect ==
  ASSUME TypeOK, RecoveryTypeOK, NEW r \in Reaper, NEW t \in Task, PersistTask(r, t)
  PROVE  /\ sweep[r].step = "persist" /\ sweep[r] \in SweepState
         /\ sweep'[r] = [sweep[r] EXCEPT !.left = @ \ {t}]
         /\ \A q \in Reaper : q # r => sweep'[q] = sweep[q]
         /\ file' = [file EXCEPT ![t] = sweep[r].view[t]]
         /\ blockedBy' = [blockedBy EXCEPT ![t] = sweep[r].blocked[t]]
         /\ UNCHANGED <<hostVars, runFile, silent, logged>>
         /\ RecoveryTypeOK' /\ TypeOK'
<1>1. /\ sweep[r].step = "persist"
      /\ sweep[r] \in SweepState
      /\ sweep'[r] = [sweep[r] EXCEPT !.left = @ \ {t}]
      /\ \A q \in Reaper : q # r => sweep'[q] = sweep[q]
      /\ file' = [file EXCEPT ![t] = sweep[r].view[t]]
      /\ blockedBy' = [blockedBy EXCEPT ![t] = sweep[r].blocked[t]]
      /\ UNCHANGED <<hostVars, runFile, silent, logged, broken>>
  BY DEF PersistTask, SaveTaskFile, RecoveryTypeOK
<1>2. RecoveryTypeOK'
  BY <1>1 DEF RecoveryTypeOK, SweepState, PersistTask
<1>3. sweep[r].view[t] \in TaskStatus /\ sweep[r].blocked[t] \in SUBSET Task
  BY <1>1 DEF SweepState
<1>4. TypeOK'
  BY <1>1, <1>3 DEF TypeOK, hostVars, memVars, poolVars, cancelVars, runFile
<1> QED  BY <1>1, <1>2, <1>4

LEMMA PersistRunEffect ==
  ASSUME TypeOK, RecoveryTypeOK, NEW r \in Reaper, PersistRun(r)
  PROVE  /\ sweep[r].step = "persist" /\ sweep[r].left = {} /\ sweep[r] \in SweepState
         /\ sweep'[r] = [sweep[r] EXCEPT !.step = "events"]
         /\ \A q \in Reaper : q # r => sweep'[q] = sweep[q]
         /\ runStatus' = DerivedStatus(sweep[r].view)
         /\ runTasks' = sweep[r].view
         /\ UNCHANGED <<hostVars, taskFiles, silent, logged>>
         /\ RecoveryTypeOK' /\ TypeOK'
<1>1. /\ sweep[r].step = "persist" /\ sweep[r].left = {}
      /\ sweep[r] \in SweepState
      /\ sweep'[r] = [sweep[r] EXCEPT !.step = "events"]
      /\ \A q \in Reaper : q # r => sweep'[q] = sweep[q]
      /\ runStatus' = DerivedStatus(sweep[r].view)
      /\ runTasks' = sweep[r].view
      /\ UNCHANGED <<hostVars, taskFiles, silent, logged, broken>>
  BY DEF PersistRun, UpdateRun, RecoveryTypeOK
<1>2. RecoveryTypeOK'
  <2>1. [sweep[r] EXCEPT !.step = "events"] \in SweepState
    BY <1>1 DEF SweepState
  <2>2. sweep' \in [Reaper -> SweepState]
    BY <2>1 DEF PersistRun, RecoveryTypeOK
  <2> QED  BY <1>1, <2>2 DEF RecoveryTypeOK
<1>3. TypeOK'
  <2>1. runStatus' \in RunStatus /\ runTasks' \in [Task -> TaskStatus]
    BY <1>1 DEF DerivedStatus, RunStatus, SweepState
  <2>2. runReport' \in SUBSET Task
    BY <1>1 DEF PersistRun, LastInRunFile, SweepState
  <2> QED
    BY <1>1, <2>1, <2>2 DEF TypeOK, hostVars, memVars, poolVars, taskFiles, cancelVars
<1> QED  BY <1>1, <1>2, <1>3

\* The host does not read run.json.
LEMMA RunFileIsApart ==
  ASSUME CoordinatorInv, TypeOK', UNCHANGED <<hostVars, taskFiles>>
  PROVE  CoordinatorInv'
BY DEF CoordinatorInv, hostVars, memVars, poolVars, taskFiles, CompletedHasSummary,
   WorkersHaveTheirInputs, NothingDoneYet, LoopsStayInLayer, SuccessSoFar,
   VerdictIsEarned, ReportIsFromLastLayer

(* The verdict "completed", whatever file operations of the host fail *)

\* Results are those of the layer at work, also when file operations fail.
LEMMA ResultsStayInLayer ==
  ASSUME CoordinatorInv, ResultsOfLayer, [Next]_vars
  PROVE  ResultsOfLayer'
<1> USE DEF CoordinatorInv, ResultsOfLayer, LoopsStayInLayer, TypeOK
<1>1. CASE \/ CreateRun \/ Register \/ MarkRunning \/ CancelAtBoundary
           \/ EndCancelling \/ EndOfLayers \/ EndSettling \/ SyncSnapshot \/ Decide
           \/ LoadFinal
           \/ WriteFinal \/ Close \/ Environment
  BY <1>1 DEF CreateRun, Register, MarkRunning, CancelAtBoundary, EndCancelling,
     EndOfLayers, EndSettling, SyncSnapshot, Decide, LoadFinal, WriteFinal, Close,
     Environment, CancelRun, RunError, ThreadDies, Crash
<1>2. CASE BeginLayer \/ AllCollected
  BY <1>2 DEF BeginLayer, AllCollected, StartSettling
<1>3. CASE LayerDeadline
  BY <1>3 DEF LayerDeadline, StartSettling, Awaited, Futures
<1>4. ASSUME NEW t \in Task, SaveTask(t) \/ CancelTask(t)
      PROVE  ResultsOfLayer'
  BY <1>4 DEF SaveTask, CancelTask
<1>5. ASSUME NEW t \in Task,
             LaunchBlocked(t) \/ LaunchWithoutAgent(t) \/ LaunchWorker(t)
      PROVE  ResultsOfLayer'
  BY <1>5 DEF LaunchBlocked, LaunchWithoutAgent, LaunchWorker, AfterLaunch
<1>6. ASSUME NEW t \in Task, CollectResult(t) PROVE ResultsOfLayer'
  BY <1>6 DEF CollectResult, Awaited, Futures
<1>7. ASSUME NEW t \in Task,
             SettleCompleted(t) \/ ResolveDependencies(t) \/ SettleFailed(t)
      PROVE  ResultsOfLayer'
  BY <1>7 DEF SettleCompleted, ResolveDependencies, SettleFailed
<1>8. ASSUME NEW t \in Task, Worker(t) PROVE ResultsOfLayer'
  BY <1>8 DEF Worker, StartWorker, RetryWorker, WorkerReturns
<1>9. CASE UNCHANGED vars
  BY <1>9 DEF vars
<1> QED  BY <1>1, <1>2, <1>3, <1>4, <1>5, <1>6, <1>7, <1>8, <1>9
         DEF Next, Coordinator, Finished

\* The host does not come back to a task.
LEMMA PassedForGood ==
  ASSUME CoordinatorInv, [Next]_vars, NEW u \in Task, PassedByHost(u)
  PROVE  PassedByHost(u)'
<1> USE DEF CoordinatorInv, TypeOK, PassedByHost, IsBehind, InLayers
<1>1. CASE \/ CreateRun \/ Register \/ MarkRunning \/ CancelAtBoundary
           \/ EndCancelling \/ EndOfLayers \/ EndSettling \/ Decide \/ LoadFinal
           \/ WriteFinal \/ Close \/ Environment
  BY <1>1 DEF CreateRun, Register, MarkRunning, CancelAtBoundary, EndCancelling,
     EndOfLayers, EndSettling, Decide, LoadFinal, WriteFinal, Close,
     Environment, CancelRun, RunError, ThreadDies, Crash
<1>2. CASE BeginLayer \/ AllCollected \/ LayerDeadline
  BY <1>2 DEF BeginLayer, AllCollected, LayerDeadline, StartSettling
<1>3. CASE SyncSnapshot
  <2>1. LayerOf[u] \in Nat /\ layer \in Nat
    BY LayersAssumption
  <2> QED  BY <1>3, <2>1 DEF SyncSnapshot
<1>4. ASSUME NEW t \in Task, SaveTask(t) \/ CancelTask(t)
      PROVE  PassedByHost(u)'
  BY <1>4 DEF SaveTask, CancelTask
<1>5. ASSUME NEW t \in Task,
             LaunchBlocked(t) \/ LaunchWithoutAgent(t) \/ LaunchWorker(t)
      PROVE  PassedByHost(u)'
  BY <1>5 DEF LaunchBlocked, LaunchWithoutAgent, LaunchWorker, AfterLaunch
<1>6. ASSUME NEW t \in Task,
             \/ CollectResult(t) \/ SettleCompleted(t) \/ ResolveDependencies(t)
             \/ SettleFailed(t)
      PROVE  PassedByHost(u)'
  BY <1>6 DEF CollectResult, SettleCompleted, ResolveDependencies, SettleFailed
<1>7. ASSUME NEW t \in Task, Worker(t) PROVE PassedByHost(u)'
  BY <1>7 DEF Worker, StartWorker, RetryWorker, WorkerReturns
<1>8. CASE UNCHANGED vars
  BY <1>8 DEF vars
<1> QED  BY <1>1, <1>2, <1>3, <1>4, <1>5, <1>6, <1>7, <1>8
         DEF Next, Coordinator, Finished

\* What a step of the host writes to the file of a task: nothing, another
\* status that is no ending, the ending of a task it settles, or "cancelled".
Settles(u) ==
  /\ ~PassedByHost(u) /\ PassedByHost(u)'
  /\ \/ file'[u] = "completed" /\ u \in summaries'
     \/ file'[u] = "failed" /\ ~allOk'

LEMMA HostWritesFile ==
  ASSUME CoordinatorInv, ResultsOfLayer, EndingsComeLast, [Next]_vars, NEW u \in Task
  PROVE  \/ file'[u] = file[u]
         \/ file[u] \notin TerminalTask /\ file'[u] \notin TerminalTask
         \/ Settles(u)
         \/ pc = "cancelling" /\ file'[u] = "cancelled" /\ ~allOk'
<1> USE DEF CoordinatorInv, TypeOK
<1>1. CASE \/ CreateRun \/ Register \/ MarkRunning \/ BeginLayer \/ CancelAtBoundary
           \/ EndCancelling \/ EndOfLayers \/ AllCollected \/ EndSettling
           \/ SyncSnapshot \/ Decide \/ LoadFinal \/ WriteFinal \/ Close
           \/ LayerDeadline
  BY <1>1 DEF CreateRun, Register, MarkRunning, BeginLayer, CancelAtBoundary,
     EndCancelling, EndOfLayers, AllCollected, EndSettling, SyncSnapshot, Decide,
     LoadFinal, WriteFinal, Close, LayerDeadline, StartSettling, taskFiles
<1>2. ASSUME NEW t \in Task, NEW done \in SUBSET Task, Unblock(t, done)
      PROVE  file'[u] = file[u] \/ (file[u] = "blocked" /\ file'[u] = "pending")
  BY <1>2 DEF Unblock
<1>3. CASE Environment
  BY <1>2, <1>3 DEF Environment, CancelRun, RunError, HalfDone, ThreadDies, Crash,
     taskFiles, TerminalTask
<1>4. ASSUME NEW t \in Task, SaveTask(t) PROVE file[u] # file'[u] =>
        file[u] \notin TerminalTask /\ file'[u] \notin TerminalTask
  <2>1. Copies(t) \cap TerminalTask = {}
    BY <1>4 DEF SaveTask, EndingsComeLast, PassedByHost, InLayers
  <2> QED  BY <1>4, <2>1 DEF SaveTask, SaveTaskFile, Copies
<1>5. ASSUME NEW t \in Task,
             LaunchBlocked(t) \/ LaunchWithoutAgent(t) \/ LaunchWorker(t)
      PROVE  file[u] # file'[u] =>
               file[u] \notin TerminalTask /\ file'[u] \notin TerminalTask
  <2>1. Copies(t) \cap TerminalTask = {}
    BY <1>5, LayersAssumption DEF LaunchBlocked, LaunchWithoutAgent, LaunchWorker,
       LoopsStayInLayer, EndingsComeLast, PassedByHost, IsBehind
  <2> QED  BY <1>5, <2>1 DEF LaunchBlocked, LaunchWithoutAgent, LaunchWorker,
              SaveTaskFile, UpdateStatus, Copies, TerminalTask, taskFiles
<1>6. ASSUME NEW t \in Task, CancelTask(t)
      PROVE  file[u] # file'[u] =>
               pc = "cancelling" /\ file'[u] = "cancelled" /\ ~allOk'
  BY <1>6 DEF CancelTask, UpdateStatus, SuccessSoFar, memVars
<1>7. ASSUME NEW t \in Task, SettleCompleted(t) \/ SettleFailed(t)
      PROVE  file[u] # file'[u] => Settles(u)
  <2>1. /\ pc = "settle" /\ pc' = "settle" /\ t \in todo /\ t \notin todo'
        /\ layer' = layer /\ LayerOf[t] = layer
    BY <1>7 DEF SettleCompleted, SettleFailed, ResultsOfLayer
  <2>2. ~PassedByHost(t) /\ PassedByHost(t)'
    BY <2>1, LayersAssumption DEF PassedByHost, IsBehind
  <2>3. file'[u] # file[u] => u = t
    BY <1>7 DEF SettleCompleted, SettleFailed, UpdateStatus
  <2>4. \/ file'[t] = "completed" /\ t \in summaries'
        \/ file'[t] = "failed" /\ ~allOk'
    BY <1>7 DEF SettleCompleted, SettleFailed, UpdateStatus
  <2> QED  BY <2>2, <2>3, <2>4 DEF Settles
<1>8. ASSUME NEW t \in Task, ResolveDependencies(t)
      PROVE  file'[u] = file[u] \/ (file[u] = "blocked" /\ file'[u] = "pending")
  BY <1>2, <1>8 DEF ResolveDependencies
<1>9. ASSUME NEW t \in Task, CollectResult(t) \/ Worker(t)
      PROVE  file'[u] = file[u]
  BY <1>9 DEF CollectResult, Worker, StartWorker, RetryWorker, WorkerReturns,
     taskFiles
<1>10. CASE UNCHANGED vars
  BY <1>10 DEF vars, taskFiles
<1> QED  BY <1>1, <1>3, <1>4, <1>5, <1>6, <1>7, <1>8, <1>9, <1>10
         DEF Next, Coordinator, Finished, TerminalTask

\* Memory and run.json say nothing of their own.
LEMMA HostCopies ==
  ASSUME TypeOK, [Next]_vars, NEW u \in Task
  PROVE  /\ mem'[u] \in {mem[u], file[u]}
         /\ runTasks'[u] \in {runTasks[u], mem[u], file[u]}
         /\ summaries \subseteq summaries'
         /\ allOk' => allOk
         /\ status' = "completed" => status = "completed" \/ allOk'
         /\ pc \in {"lost", "dead"} => pc' \in {"lost", "dead"} /\ UNCHANGED file
<1>1. CASE \/ CreateRun \/ Register \/ MarkRunning \/ BeginLayer \/ CancelAtBoundary
           \/ EndCancelling \/ EndOfLayers \/ AllCollected \/ EndSettling
           \/ SyncSnapshot \/ Decide \/ LoadFinal \/ WriteFinal \/ Close
           \/ LayerDeadline
  BY <1>1 DEF CreateRun, Register, MarkRunning, BeginLayer, CancelAtBoundary,
     EndCancelling, EndOfLayers, AllCollected, EndSettling, SyncSnapshot, Decide,
     LoadFinal, WriteFinal, Close, LayerDeadline, StartSettling, UpdateRun, memVars,
     runFile, TypeOK
<1>2. CASE Environment
  BY <1>2 DEF Environment, CancelRun, RunError, HalfDone, ThreadDies, Crash, memVars,
     runFile, taskFiles
<1>3. CASE \E t \in Task :
             \/ SaveTask(t) \/ CancelTask(t) \/ LaunchBlocked(t)
             \/ LaunchWithoutAgent(t) \/ LaunchWorker(t) \/ CollectResult(t)
             \/ SettleCompleted(t) \/ ResolveDependencies(t) \/ SettleFailed(t)
             \/ Worker(t)
  BY <1>3 DEF SaveTask, CancelTask, LaunchBlocked, LaunchWithoutAgent, LaunchWorker,
     CollectResult, SettleCompleted, ResolveDependencies, SettleFailed, Worker,
     StartWorker, RetryWorker, WorkerReturns, memVars, runFile, taskFiles
<1>4. CASE UNCHANGED vars
  BY <1>4 DEF vars, memVars, runFile, taskFiles
<1> QED  BY <1>1, <1>2, <1>3, <1>4 DEF Next, Coordinator, Finished

LEMMA OnlyBoundaryCancels ==
  ASSUME [Next]_vars, pc' = "cancelling", pc # "cancelling"
  PROVE  CancelAtBoundary
BY DEF Next, Coordinator, Finished, CreateRun, Register, MarkRunning, BeginLayer,
   EndCancelling, EndOfLayers, AllCollected, EndSettling, SyncSnapshot, Decide,
   LoadFinal, WriteFinal, Close, LayerDeadline, StartSettling, Environment, CancelRun,
   RunError, ThreadDies, Crash, SaveTask, CancelTask, LaunchBlocked, AfterLaunch,
   LaunchWithoutAgent, LaunchWorker, CollectResult, SettleCompleted,
   ResolveDependencies, SettleFailed, Worker, StartWorker, RetryWorker, WorkerReturns,
   vars

\* After the verdict, all_succeeded stays as it was.
LEMMA SuccessIsKept ==
  ASSUME CoordinatorInv, [Next]_vars, status = "completed", allOk
  PROVE  allOk'
<1>1. pc \in {"load", "write", "close", "done", "lost", "dead"}
  BY DEF CoordinatorInv, VerdictIsEarned
<1> QED
  BY <1>1 DEF Next, Coordinator, Finished, CreateRun, Register, MarkRunning, BeginLayer,
     CancelAtBoundary, EndCancelling, EndOfLayers, AllCollected, EndSettling,
     SyncSnapshot, Decide, LoadFinal, WriteFinal, Close, LayerDeadline, StartSettling,
     Environment, CancelRun, RunError, ThreadDies, Crash, SaveTask, CancelTask,
     LaunchBlocked, LaunchWithoutAgent, LaunchWorker, CollectResult, SettleCompleted,
     ResolveDependencies, SettleFailed, Worker, StartWorker, RetryWorker, WorkerReturns,
     vars, memVars

LEMMA HostKeepsVerdict ==
  ASSUME VerdictInv, HostStep
  PROVE  VerdictInv'
<1> USE DEF VerdictInv
<1>1. [Next]_vars /\ UNCHANGED <<sweep, logged, broken>> /\ silent' = FALSE
  BY DEF HostStep, Next
<1>2. CoordinatorInv' /\ ResultsOfLayer'
  BY <1>1, CoordinatorPreserves, ResultsStayInLayer
<1>3. RecoveryTypeOK'
  BY <1>1 DEF RecoveryTypeOK
<1>4. \A u \in Task : PassedByHost(u) => PassedByHost(u)'
  BY <1>1, PassedForGood
<1>5. \A u \in Task :
         \/ file'[u] = file[u]
         \/ file[u] \notin TerminalTask /\ file'[u] \notin TerminalTask
         \/ Settles(u)
         \/ pc = "cancelling" /\ file'[u] = "cancelled" /\ ~allOk'
  BY <1>1, HostWritesFile
<1>6. /\ \A u \in Task : Copies(u)' \subseteq Copies(u) \cup {file'[u]}
      /\ summaries \subseteq summaries'
      /\ allOk' => allOk
      /\ status' = "completed" => status = "completed" \/ allOk'
      /\ pc \in {"lost", "dead"} => pc' \in {"lost", "dead"} /\ UNCHANGED file
  <2>1. \A u \in Task : mem'[u] \in {mem[u], file[u]}
                        /\ runTasks'[u] \in {runTasks[u], mem[u], file[u]}
    BY <1>1, HostCopies DEF CoordinatorInv
  <2>2. \A u \in Task : Copies(u)' \subseteq Copies(u) \cup {file'[u]}
    BY <1>1, <2>1 DEF Copies
  <2> QED  BY <1>1, <2>2, HostCopies, TaskAssumption DEF CoordinatorInv
<1>7. \A u \in Task : Settles(u) => Copies(u) \cap TerminalTask = {}
  BY DEF Settles, EndingsComeLast
<1>8. \A u \in Task : file[u] \in TerminalTask => file'[u] \in TerminalTask
  BY <1>5, <1>7 DEF Copies, TerminalTask
<1>9. \A u \in Task : "completed" \in Copies(u)' =>
        "completed" \in Copies(u) \/ (Settles(u) /\ file'[u] = "completed")
  BY <1>5, <1>6 DEF Copies, TerminalTask
<1>10. \A u \in Task : Hopeless(u) => Hopeless(u)'
  BY <1>4, <1>9 DEF Hopeless, Settles
<1>11. SilentIsGone'
  BY <1>1, <1>6 DEF SilentIsGone
<1>12. EndingsComeLast'
  <2> SUFFICES ASSUME NEW u \in Task, ~PassedByHost(u)'
               PROVE  Copies(u)' \cap TerminalTask = {}
    BY DEF EndingsComeLast
  <2>1. ~PassedByHost(u) /\ Copies(u) \cap TerminalTask = {}
    BY <1>4 DEF EndingsComeLast
  <2>2. file'[u] \notin TerminalTask
    BY <1>5, <2>1 DEF Copies, Settles, PassedByHost
  <2> QED  BY <1>6, <2>1, <2>2
<1>13. CompletionsAreKept'
  <2> SUFFICES ASSUME NEW u \in Task, "completed" \in Copies(u)'
               PROVE  u \in summaries' /\ file'[u] \in TerminalTask
    BY DEF CompletionsAreKept
  <2>1. CASE "completed" \in Copies(u)
    BY <2>1, <1>6, <1>8 DEF CompletionsAreKept
  <2>2. CASE Settles(u) /\ file'[u] = "completed"
    BY <2>2 DEF Settles, TerminalTask
  <2> QED  BY <1>9, <2>1, <2>2
<1>14. FailureIsForGood'
  <2>1. CASE pc' = "cancelling" /\ pc # "cancelling"
    <3>1. PICK u \in Task : LayerOf[u] = LastLayer
      BY LayersAssumption
    <3>2. CASE CancelAtBoundary
      <4>1. ~PassedByHost(u)
        BY <3>1, <3>2, LayersAssumption
           DEF CancelAtBoundary, PassedByHost, IsBehind, CoordinatorInv, TypeOK
      <4>2. "completed" \notin Copies(u) /\ Copies(u)' = Copies(u)
        BY <1>1, <3>2, <4>1
           DEF EndingsComeLast, TerminalTask, CancelAtBoundary, Copies, taskFiles,
               runFile
      <4> QED  BY <2>1, <4>2 DEF FailureIsForGood, Hopeless, PassedByHost
    <3>3. CancelAtBoundary
      BY <1>1, <2>1, OnlyBoundaryCancels
    <3> QED  BY <3>2, <3>3
  <2>2. CASE \E u \in Task : Settles(u) /\ file'[u] = "failed"
    BY <1>9, <2>2 DEF FailureIsForGood, Hopeless, Settles, EndingsComeLast,
       TerminalTask
  <2>3. CASE pc = "cancelling"
    BY <1>10, <2>3 DEF FailureIsForGood
  <2>4. ASSUME NEW u \in Task, Copies(u)' \cap Unsuccessful # {}, pc # "cancelling",
               ~(Settles(u) /\ file'[u] = "failed")
        PROVE  \E t \in Task : Hopeless(t)'
    <3>1. file'[u] \in Unsuccessful => file[u] = file'[u]
      BY <1>5, <2>4 DEF Settles, Unsuccessful, TerminalTask
    <3>2. Copies(u) \cap Unsuccessful # {}
      BY <1>6, <2>4, <3>1 DEF Copies
    <3> QED  BY <1>10, <3>2 DEF FailureIsForGood
  <2> QED  BY <2>1, <2>2, <2>3, <2>4 DEF FailureIsForGood
<1>15. SuccessIsUndisputed'
  <2>1. ASSUME allOk', NEW u \in Task, "completed" \in Copies(u)'
        PROVE  Copies(u)' \cap Unsuccessful = {}
    <3>1. file'[u] \in Unsuccessful => file'[u] = file[u]
      BY <1>5, <2>1 DEF Settles, Unsuccessful, TerminalTask
    <3>2. Copies(u)' \cap Unsuccessful \subseteq Copies(u) \cap Unsuccessful
      BY <1>6, <3>1 DEF Copies
    <3>3. CASE "completed" \in Copies(u)
      BY <1>6, <2>1, <3>2, <3>3 DEF SuccessIsUndisputed
    <3>4. CASE Settles(u)
      BY <1>7, <3>2, <3>4 DEF Unsuccessful, TerminalTask
    <3> QED  BY <1>9, <2>1, <3>3, <3>4
  <2>2. status' = "completed" => allOk'
    BY <1>1, <1>6, SuccessIsKept DEF SuccessIsUndisputed
  <2> QED  BY <2>1, <2>2 DEF SuccessIsUndisputed
<1>16. OpenIsOpen'
  <2> SUFFICES ASSUME NEW r \in Reaper, NEW u \in Task,
                      sweep[r].step = "hydrate" /\ sweep[r].quiet,
                      u \notin sweep[r].left /\ sweep[r].view[u] \notin TerminalTask
               PROVE  "completed" \notin Copies(u)'
    BY <1>1 DEF OpenIsOpen
  <2>1. "completed" \notin Copies(u) /\ file' = file
    BY <1>6 DEF OpenIsOpen, SilentIsGone
  <2> QED  BY <1>6, <2>1 DEF Copies
<1>17. SweepsWriteEndings'
  BY <1>1 DEF SweepsWriteEndings
<1>18. CompletedIsOnDisk'
  <2>1. CASE WriteFinal
    BY <2>1 DEF WriteFinal, UpdateRun, CoordinatorInv, VerdictIsEarned,
                CompletedIsOnDisk, taskFiles
  <2>2. CASE runStatus' # "completed"
    BY <2>2 DEF CompletedIsOnDisk
  <2>3. CASE UNCHANGED runFile
    <3> SUFFICES ASSUME runStatus = "completed", NEW u \in Task
                 PROVE  file'[u] = "completed" /\ runTasks'[u] = "completed"
      BY <2>3 DEF CompletedIsOnDisk, runFile
    <3>1. \A t \in Task : file[t] = "completed" /\ runTasks[t] = "completed"
      BY DEF CompletedIsOnDisk
    <3>2. pc # "cancelling"
      BY <3>1 DEF FailureIsForGood, Hopeless, Copies
    <3>3. file'[u] = file[u]
      BY <1>5, <1>7, <3>1, <3>2 DEF Copies, TerminalTask
    <3> QED  BY <2>3, <3>1, <3>3 DEF runFile
  <2> QED  BY <1>1, <2>1, <2>2, <2>3, RunFileWriters
<1> QED  BY <1>2, <1>3, <1>11, <1>12, <1>13, <1>14, <1>15, <1>16, <1>17, <1>18

\* What a sweep does to the copies of a status: none is new, but for a failure
\* where nobody knows of a completion and the host has passed.
LEMMA SweepKeepsCopies ==
  ASSUME VerdictInv, UNCHANGED hostVars,
         \A u \in Task : file[u] \in TerminalTask => file'[u] \in TerminalTask,
         \A u \in Task : \/ Copies(u)' \subseteq Copies(u) \cup {"absent"}
                         \/ /\ Copies(u)' \subseteq Copies(u) \cup {"absent", "failed"}
                            /\ Hopeless(u)
  PROVE  /\ EndingsComeLast' /\ CompletionsAreKept' /\ FailureIsForGood'
         /\ SuccessIsUndisputed'
<1> USE DEF VerdictInv
<1>1. \A u \in Task : PassedByHost(u)' <=> PassedByHost(u)
  BY DEF hostVars, PassedByHost, IsBehind
<1>2. UNCHANGED <<pc, summaries, allOk, status>>
  BY DEF hostVars, memVars
<1>3. \A u \in Task : "completed" \in Copies(u)' => "completed" \in Copies(u)
  OBVIOUS
<1>4. \A u \in Task : Hopeless(u) => Hopeless(u)'
  BY <1>1, <1>3 DEF Hopeless
<1>5. EndingsComeLast'
  BY <1>1 DEF EndingsComeLast, Hopeless, TerminalTask
<1>6. CompletionsAreKept'
  BY <1>2, <1>3 DEF CompletionsAreKept
<1>7. FailureIsForGood'
  <2>1. ASSUME NEW u \in Task, Copies(u)' \cap Unsuccessful # {}
        PROVE  Copies(u) \cap Unsuccessful # {} \/ Hopeless(u)
    BY <2>1 DEF Unsuccessful
  <2> QED  BY <2>1, <1>2, <1>4 DEF FailureIsForGood
<1>8. SuccessIsUndisputed'
  <2>1. ASSUME allOk, NEW u \in Task, "completed" \in Copies(u)'
        PROVE  Copies(u)' \cap Unsuccessful = {}
    <3>1. "completed" \in Copies(u) /\ ~Hopeless(u)
      BY <2>1, <1>3 DEF Hopeless
    <3> QED  BY <2>1, <3>1 DEF SuccessIsUndisputed, Unsuccessful
  <2> QED  BY <2>1, <1>2 DEF SuccessIsUndisputed
<1> QED  BY <1>5, <1>6, <1>7, <1>8

\* The steps of a sweep that leave the files alone.
LEMMA OwnStepKeepsVerdict ==
  ASSUME VerdictInv, UNCHANGED vars, RecoveryTypeOK', silent' => silent,
         NEW r \in Reaper,
         \A q \in Reaper : q # r => sweep'[q] = sweep[q],
         sweep'[r].quiet => sweep[r].quiet \/ silent,
         \A u \in Task :
           /\ \/ sweep'[r].view[u] \in Copies(u) \cup {"absent"}
              \/ sweep'[r].view[u] = "failed" /\ Hopeless(u)
           /\ sweep'[r].step = "persist" => sweep'[r].view[u] \in TerminalTask
           /\ /\ sweep'[r].step = "hydrate" /\ sweep'[r].quiet
              /\ u \notin sweep'[r].left /\ sweep'[r].view[u] \notin TerminalTask
              => "completed" \notin Copies(u)
  PROVE  VerdictInv'
<1>1. UNCHANGED hostVars /\ UNCHANGED <<pc, file, mem, runTasks, runStatus>>
  BY DEF vars, hostVars, memVars, taskFiles, runFile
<1>2. \A u \in Task : Copies(u)' \subseteq Copies(u) \cup {sweep'[r].view[u]}
  BY <1>1 DEF Copies
<1>3. /\ EndingsComeLast' /\ CompletionsAreKept' /\ FailureIsForGood'
      /\ SuccessIsUndisputed'
  BY <1>1, <1>2, SweepKeepsCopies
<1>4. CoordinatorInv' /\ ResultsOfLayer'
  BY CoordinatorPreserves, ResultsStayInLayer DEF VerdictInv
<1>5. CompletedIsOnDisk'
  BY <1>1 DEF VerdictInv, CompletedIsOnDisk
<1>6. SilentIsGone'
  <2>1. \A q \in Reaper :
          sweep'[q].quiet => silent \/ \E o \in Reaper : sweep[o].quiet
    OBVIOUS
  <2> QED  BY <2>1, <1>1 DEF VerdictInv, SilentIsGone
<1>7. OpenIsOpen'
  <2>1. \A u \in Task : "completed" \in Copies(u)' => "completed" \in Copies(u)
    BY <1>2
  <2> SUFFICES ASSUME NEW q \in Reaper, NEW u \in Task,
                      sweep'[q].step = "hydrate" /\ sweep'[q].quiet,
                      u \notin sweep'[q].left /\ sweep'[q].view[u] \notin TerminalTask
               PROVE  "completed" \notin Copies(u)
    BY <2>1 DEF OpenIsOpen
  <2>2. CASE q = r
    BY <2>2
  <2>3. CASE q # r
    BY <2>3 DEF VerdictInv, OpenIsOpen
  <2> QED  BY <2>2, <2>3
<1>8. SweepsWriteEndings'
  BY DEF VerdictInv, SweepsWriteEndings
<1> QED  BY <1>3, <1>4, <1>5, <1>6, <1>7, <1>8 DEF VerdictInv

LEMMA LoadKeepsVerdict ==
  ASSUME VerdictInv, NEW r \in Reaper, Load(r)
  PROVE  VerdictInv'
<1>1. /\ sweep'[r] = [step |-> "hydrate", left |-> Task, view |-> runTasks,
                      blocked |-> DependsOn, report |-> runReport, quiet |-> silent,
                      kind |-> "none"]
      /\ \A q \in Reaper : q # r => sweep'[q] = sweep[q]
      /\ UNCHANGED <<vars, silent, logged>>
      /\ RecoveryTypeOK'
  BY LoadEffect DEF VerdictInv, CoordinatorInv
<1>2. \A u \in Task : sweep'[r].view[u] \in Copies(u)
  BY <1>1 DEF Copies
<1> QED  BY <1>1, <1>2, OwnStepKeepsVerdict

LEMMA ReadTaskKeepsVerdict ==
  ASSUME VerdictInv, NEW r \in Reaper, NEW t \in Task, ReadTask(r, t)
  PROVE  VerdictInv'
<1>1. /\ sweep'[r].step = "hydrate" /\ sweep[r].step = "hydrate"
      /\ sweep'[r].left = sweep[r].left \ {t}
      /\ sweep'[r].quiet = sweep[r].quiet
      /\ \A u \in Task : u # t => sweep'[r].view[u] = sweep[r].view[u]
      /\ sweep'[r].view[t] = IF file[t] = "absent" THEN sweep[r].view[t] ELSE file[t]
      /\ \A q \in Reaper : q # r => sweep'[q] = sweep[q]
      /\ UNCHANGED <<vars, silent, logged>>
      /\ RecoveryTypeOK'
  BY ReadTaskEffect DEF VerdictInv, CoordinatorInv
<1>2. \A u \in Task : sweep'[r].view[u] \in Copies(u)
  BY <1>1 DEF Copies
<1>3. ASSUME NEW u \in Task, sweep'[r].quiet, u \notin sweep'[r].left,
             sweep'[r].view[u] \notin TerminalTask
      PROVE  "completed" \notin Copies(u)
  <2>1. CASE u # t
    BY <2>1, <1>1, <1>3 DEF VerdictInv, OpenIsOpen
  <2>2. CASE u = t
    <3>1. file[t] \notin TerminalTask
      BY <2>2, <1>1, <1>3 DEF TerminalTask
    <3> QED  BY <2>2, <3>1 DEF VerdictInv, CompletionsAreKept
  <2> QED  BY <2>1, <2>2
<1> QED  BY <1>1, <1>2, <1>3, OwnStepKeepsVerdict

\* A task is judged failed only where the host has gone and nobody knows better.
LEMMA JudgeKeepsVerdict ==
  ASSUME VerdictInv, NEW r \in Reaper, JudgeTerminal(r) \/ JudgeStale(r)
  PROVE  VerdictInv'
<1>1. /\ sweep[r].step = "hydrate" /\ sweep[r].left = {}
      /\ sweep'[r].step = "persist"
      /\ sweep'[r].quiet = sweep[r].quiet
      /\ \A u \in Task : sweep'[r].view[u] =
           IF sweep[r].view[u] \in TerminalTask THEN sweep[r].view[u] ELSE "failed"
      /\ (\A u \in Task : sweep[r].view[u] \in TerminalTask) \/ sweep[r].quiet
      /\ \A q \in Reaper : q # r => sweep'[q] = sweep[q]
      /\ UNCHANGED <<vars, silent, logged>>
      /\ RecoveryTypeOK'
  BY JudgeEffect DEF VerdictInv
<1>2. ASSUME NEW u \in Task, sweep[r].view[u] \notin TerminalTask
      PROVE  Hopeless(u)
  BY <1>1, <1>2 DEF VerdictInv, SilentIsGone, OpenIsOpen, Hopeless, PassedByHost
<1>3. \A u \in Task : sweep[r].view[u] \in Copies(u)
  BY DEF Copies
<1>4. \A u \in Task : sweep'[r].view[u] \in TerminalTask
  BY <1>1 DEF TerminalTask
<1> QED  BY <1>1, <1>2, <1>3, <1>4, OwnStepKeepsVerdict

LEMMA LastStepsKeepVerdict ==
  ASSUME VerdictInv, NEW r \in Reaper,
         ReadEvents(r) \/ JudgeAlive(r) \/ AppendEvent(r) \/ SweepFails(r)
  PROVE  VerdictInv'
<1>1. CASE ReadEvents(r)
  <2>1. /\ sweep[r] \in SweepState
        /\ sweep'[r] \in {Idle, [sweep[r] EXCEPT !.step = "append"]}
        /\ \A q \in Reaper : q # r => sweep'[q] = sweep[q]
        /\ UNCHANGED <<vars, silent, logged>>
        /\ RecoveryTypeOK'
    BY <1>1, ReadEventsEffect DEF VerdictInv
  <2>2. /\ sweep'[r].step \in {"idle", "append"}
        /\ sweep'[r].quiet => sweep[r].quiet
        /\ \A u \in Task : sweep'[r].view[u] \in {sweep[r].view[u], "absent"}
    BY <2>1 DEF SweepState, Idle
  <2>3. \A u \in Task : sweep[r].view[u] \in Copies(u)
    BY DEF Copies
  <2> QED  BY <2>1, <2>2, <2>3, OwnStepKeepsVerdict
<1>2. CASE JudgeAlive(r) \/ AppendEvent(r) \/ SweepFails(r)
  <2>1. /\ sweep'[r] = Idle
        /\ \A q \in Reaper : q # r => sweep'[q] = sweep[q]
        /\ UNCHANGED vars
        /\ silent' => silent
        /\ RecoveryTypeOK'
    BY <1>2, IdleEffect DEF VerdictInv
  <2>2. /\ sweep'[r].step = "idle" /\ ~sweep'[r].quiet
        /\ \A u \in Task : sweep'[r].view[u] = "absent"
    BY <2>1 DEF Idle
  <2> QED  BY <2>1, <2>2, OwnStepKeepsVerdict
<1> QED  BY <1>1, <1>2

LEMMA PersistTaskKeepsVerdict ==
  ASSUME VerdictInv, NEW r \in Reaper, NEW t \in Task, PersistTask(r, t)
  PROVE  VerdictInv'
<1> USE DEF VerdictInv
<1>1. /\ sweep[r].step = "persist" /\ sweep[r] \in SweepState
      /\ sweep'[r] = [sweep[r] EXCEPT !.left = @ \ {t}]
      /\ \A q \in Reaper : q # r => sweep'[q] = sweep[q]
      /\ file' = [file EXCEPT ![t] = sweep[r].view[t]]
      /\ UNCHANGED <<hostVars, runFile, silent, logged>>
      /\ RecoveryTypeOK' /\ TypeOK'
  BY PersistTaskEffect DEF CoordinatorInv
<1>2. /\ file \in [Task -> TaskStatus]
      /\ UNCHANGED <<pc, mem, runTasks, runStatus, layer, todo, results, status>>
      /\ UNCHANGED <<allOk, summaries, report, worker>>
  BY <1>1 DEF CoordinatorInv, TypeOK, hostVars, memVars, poolVars, runFile
<1>3. sweep[r].view[t] \in TerminalTask /\ sweep[r].view[t] \in Copies(t)
  BY <1>1 DEF SweepsWriteEndings, Copies
<1>4. \A q \in Reaper : /\ sweep'[q].view = sweep[q].view
                        /\ sweep'[q].step = sweep[q].step
                        /\ sweep'[q].quiet = sweep[q].quiet
                        /\ sweep[q].step # "persist" => sweep'[q].left = sweep[q].left
  BY <1>1 DEF SweepState
<1>5. \A u \in Task : /\ Copies(u)' \subseteq Copies(u)
                      /\ file'[u] \in {file[u], sweep[r].view[u]}
  BY <1>1, <1>2, <1>4 DEF Copies
<1>6. \A u \in Task : file[u] \in TerminalTask => file'[u] \in TerminalTask
  BY <1>1, <1>2, <1>3
<1>7. /\ EndingsComeLast' /\ CompletionsAreKept' /\ FailureIsForGood'
      /\ SuccessIsUndisputed'
  BY <1>1, <1>5, <1>6, SweepKeepsCopies
<1>8. allOk => \A u \in Task : file[u] = "completed" => file'[u] = "completed"
  BY <1>1, <1>2, <1>3 DEF SuccessIsUndisputed, Copies, Unsuccessful, TerminalTask
<1>9. CoordinatorInv'
  <2>1. CompletedHasSummary'
    BY <1>7 DEF CompletionsAreKept, Copies, CompletedHasSummary
  <2>2. SuccessSoFar'
    BY <1>2, <1>8 DEF CoordinatorInv, SuccessSoFar
  <2>3. VerdictIsEarned'
    BY <1>2, <1>8 DEF CoordinatorInv, VerdictIsEarned, SuccessIsUndisputed
  <2>4. /\ WorkersHaveTheirInputs' /\ NothingDoneYet' /\ LoopsStayInLayer'
        /\ ReportIsFromLastLayer'
    BY <1>2 DEF CoordinatorInv, WorkersHaveTheirInputs, NothingDoneYet,
                LoopsStayInLayer, ReportIsFromLastLayer
  <2> QED  BY <1>1, <2>1, <2>2, <2>3, <2>4 DEF CoordinatorInv
<1>10. ResultsOfLayer'
  BY <1>2 DEF ResultsOfLayer
<1>11. SilentIsGone' /\ OpenIsOpen' /\ SweepsWriteEndings'
  <2>1. SilentIsGone'
    BY <1>1, <1>2, <1>4 DEF SilentIsGone
  <2>2. OpenIsOpen' /\ SweepsWriteEndings'
    BY <1>4, <1>5 DEF OpenIsOpen, SweepsWriteEndings
  <2> QED  BY <2>1, <2>2
<1>12. CompletedIsOnDisk'
  <2> SUFFICES ASSUME runStatus = "completed",
                      \A u \in Task : file[u] = "completed" /\ runTasks[u] = "completed"
               PROVE  \A u \in Task : file'[u] = "completed"
    BY <1>2 DEF CompletedIsOnDisk
  <2>1. \A u \in Task : ~Hopeless(u)
    BY DEF Hopeless, Copies
  <2>2. \A u \in Task : Copies(u) \cap Unsuccessful = {}
    BY <2>1 DEF FailureIsForGood
  <2> QED  BY <1>1, <1>3, <2>2 DEF Unsuccessful, TerminalTask
<1> QED  BY <1>1, <1>7, <1>9, <1>10, <1>11, <1>12

\* Where every task was read or judged completed, no failure is known anywhere.
LEMMA PersistRunKeepsVerdict ==
  ASSUME VerdictInv, NEW r \in Reaper, PersistRun(r)
  PROVE  VerdictInv'
<1> USE DEF VerdictInv
<1>1. /\ sweep[r].step = "persist" /\ sweep[r].left = {} /\ sweep[r] \in SweepState
      /\ sweep'[r] = [sweep[r] EXCEPT !.step = "events"]
      /\ \A q \in Reaper : q # r => sweep'[q] = sweep[q]
      /\ runStatus' = DerivedStatus(sweep[r].view)
      /\ runTasks' = sweep[r].view
      /\ UNCHANGED <<hostVars, taskFiles, silent, logged>>
      /\ RecoveryTypeOK' /\ TypeOK'
  BY PersistRunEffect DEF CoordinatorInv
<1>2. UNCHANGED <<pc, file, mem, layer, todo, results>>
  BY <1>1 DEF hostVars, memVars, taskFiles
<1>3. /\ sweep'[r].view = sweep[r].view /\ sweep'[r].step = "events"
      /\ sweep'[r].quiet = sweep[r].quiet
  BY <1>1 DEF SweepState
<1>4. \A u \in Task : Copies(u)' \subseteq Copies(u)
  <2>1. \A q \in Reaper : sweep'[q].view = sweep[q].view
    BY <1>1, <1>3
  <2> QED  BY <1>1, <1>2, <2>1 DEF Copies
<1>5. /\ EndingsComeLast' /\ CompletionsAreKept' /\ FailureIsForGood'
      /\ SuccessIsUndisputed'
  BY <1>1, <1>2, <1>4, SweepKeepsCopies
<1>6. CoordinatorInv' /\ ResultsOfLayer'
  BY <1>1, <1>2, RunFileIsApart DEF ResultsOfLayer
<1>7. SilentIsGone' /\ OpenIsOpen' /\ SweepsWriteEndings'
  <2>1. \A q \in Reaper : (q = r) \/ sweep'[q] = sweep[q]
    BY <1>1
  <2>2. SilentIsGone'
    BY <2>1, <1>1, <1>2, <1>3 DEF SilentIsGone
  <2>3. OpenIsOpen' /\ SweepsWriteEndings'
    BY <2>1, <1>3, <1>4 DEF OpenIsOpen, SweepsWriteEndings
  <2> QED  BY <2>2, <2>3
<1>8. CompletedIsOnDisk'
  <2> SUFFICES ASSUME \A u \in Task : sweep[r].view[u] = "completed"
               PROVE  \A u \in Task : file[u] = "completed"
    BY <1>1, <1>2 DEF CompletedIsOnDisk, DerivedStatus
  <2>1. \A u \in Task : "completed" \in Copies(u)
    BY DEF Copies
  <2>2. \A u \in Task : Copies(u) \cap Unsuccessful = {} /\ file[u] \in TerminalTask
    BY <2>1 DEF FailureIsForGood, Hopeless, CompletionsAreKept
  <2> QED  BY <2>2 DEF Copies, Unsuccessful, TerminalTask
<1> QED  BY <1>1, <1>5, <1>6, <1>7, <1>8

LEMMA VerdictStep ==
  ASSUME VerdictInv, [NextRecovery]_allVars
  PROVE  VerdictInv'
<1>1. CASE HostStep
  BY <1>1, HostKeepsVerdict
<1>2. ASSUME NEW r \in Reaper, Sweep(r) \/ SweepFails(r)
      PROVE  VerdictInv'
  BY <1>2, LoadKeepsVerdict, ReadTaskKeepsVerdict, JudgeKeepsVerdict,
     LastStepsKeepVerdict, PersistTaskKeepsVerdict, PersistRunKeepsVerdict DEF Sweep
<1>3. CASE FallSilent \/ UNCHANGED allVars
  <2>1. /\ UNCHANGED <<vars, sweep, logged, broken>>
        /\ silent' \in BOOLEAN
        /\ silent' => silent \/ pc \in {"lost", "dead"}
    <3>1. CASE FallSilent
      BY <3>1 DEF FallSilent, HostGone
    <3>2. CASE UNCHANGED allVars
      BY <3>2 DEF allVars, VerdictInv, RecoveryTypeOK
    <3> QED  BY <1>3, <3>1, <3>2
  <2>2. CoordinatorInv' /\ ResultsOfLayer'
    BY <2>1, CoordinatorPreserves, ResultsStayInLayer DEF VerdictInv
  <2>3. UNCHANGED <<pc, layer, todo, file, mem, runTasks, runStatus, summaries>>
        /\ UNCHANGED <<allOk, status>>
    BY <2>1 DEF vars, memVars, taskFiles, runFile
  <2>4. \A u \in Task : /\ Copies(u)' = Copies(u)
                        /\ PassedByHost(u)' <=> PassedByHost(u)
                        /\ Hopeless(u)' <=> Hopeless(u)
    BY <2>1, <2>3 DEF Copies, PassedByHost, IsBehind, Hopeless
  <2>5. RecoveryTypeOK' /\ SilentIsGone'
    BY <2>1, <2>3 DEF VerdictInv, RecoveryTypeOK, SilentIsGone
  <2>6. EndingsComeLast' /\ CompletionsAreKept' /\ FailureIsForGood'
    BY <2>3, <2>4 DEF VerdictInv, EndingsComeLast, CompletionsAreKept,
       FailureIsForGood
  <2>7. /\ SuccessIsUndisputed' /\ OpenIsOpen' /\ SweepsWriteEndings'
        /\ CompletedIsOnDisk'
    BY <2>1, <2>3, <2>4 DEF VerdictInv, SuccessIsUndisputed, OpenIsOpen,
       SweepsWriteEndings, CompletedIsOnDisk
  <2> QED  BY <2>2, <2>5, <2>6, <2>7 DEF VerdictInv
<1> QED  BY <1>1, <1>2, <1>3 DEF NextRecovery

LEMMA SweepsBeginTyped ==
  ASSUME InitRecovery
  PROVE  RecoveryTypeOK
<1>1. sweep \in [Reaper -> SweepState]
  BY IdleIsTyped DEF InitRecovery
<1>2. silent \in BOOLEAN /\ logged \subseteq Kind \cup {"none"}
  BY DEF InitRecovery
<1>3. broken \in 0..MaxBroken
  BY ReaperAssumption DEF InitRecovery
<1> QED  BY <1>1, <1>2, <1>3 DEF RecoveryTypeOK

LEMMA VerdictBegins ==
  ASSUME InitRecovery
  PROVE  VerdictInv
<1>1. CoordinatorInv /\ RecoveryTypeOK
  BY InitEstablishes, SweepsBeginTyped DEF InitRecovery, IInv
<1>2. \A u \in Task : Copies(u) \subseteq {"absent", "pending", "blocked"}
  BY DEF InitRecovery, Init, Copies, Idle, InitialStatus
<1>3. /\ EndingsComeLast /\ CompletionsAreKept /\ FailureIsForGood
      /\ SuccessIsUndisputed
  BY <1>2 DEF InitRecovery, Init, EndingsComeLast, CompletionsAreKept, FailureIsForGood,
     SuccessIsUndisputed, TerminalTask, Unsuccessful
<1>4. SilentIsGone /\ OpenIsOpen /\ SweepsWriteEndings
  BY DEF InitRecovery, Idle, SilentIsGone, OpenIsOpen, SweepsWriteEndings
<1>5. ResultsOfLayer /\ CompletedIsOnDisk
  BY DEF InitRecovery, Init, ResultsOfLayer, CompletedIsOnDisk
<1> QED  BY <1>1, <1>3, <1>4, <1>5 DEF VerdictInv

(* A step of the host *)

LEMMA HostStepKeeps ==
  ASSUME RecoveryInv, HostStep, TypeOK', faults' = 0
  PROVE  RecoveryInv'
<1> USE DEF RecoveryInv
<1>1. [Next]_vars /\ UNCHANGED <<sweep, logged, broken>> /\ silent' = FALSE
  BY DEF HostStep, Next
<1>2. CoordinatorInv' /\ FaultFree'
  BY <1>1, CoordinatorPreserves, FaultFreePreserves
<1>3. \A t \in Task : file[t] \in TerminalTask => file'[t] = file[t]
  BY <1>1, EndedTasksStay
<1>4. pc = "dead" => pc' = "dead" /\ UNCHANGED <<taskFiles, runFile>>
  BY <1>1, DeadHostIsStill DEF CoordinatorInv
<1>5. RecoveryTypeOK'
  BY <1>1 DEF SweepInv, RecoveryTypeOK
<1>6. SilentIsDead' /\ BlockedIsDependency'
  BY <1>1, <1>4 DEF SweepInv, SilentIsDead, BlockedIsDependency
<1>7. RunFileIsBehind'
  BY <1>1, <1>3, RunTasksWriters
     DEF SweepInv, RunFileIsBehind, TerminalTask, Waiting
<1>8. ReadsStand'
  BY <1>1, <1>3, <1>4 DEF SweepInv, ReadsStand, SilentIsDead, taskFiles
<1>9. WritesStand'
  BY <1>1, <1>3, <1>4 DEF SweepInv, WritesStand, taskFiles
<1>10. SettledOnce'
  <2>1. Settled => Settled'
    <3> SUFFICES ASSUME Settled PROVE Settled'
      OBVIOUS
    <3>1. file' = file
      BY <1>3, TypeOK' DEF Settled, CoordinatorInv, TypeOK
    <3>2. \E t \in Task : file[t] # "absent"
      BY TaskAssumption DEF Settled, TerminalTask
    <3> QED  BY <1>1, <3>1, <3>2, RunTasksWriters DEF Settled
  <2> QED  BY <1>1, <2>1 DEF SweepInv, SettledOnce
<1> QED  BY <1>2, <1>5, <1>6, <1>7, <1>8, <1>9, <1>10 DEF SweepInv

(* The steps of a sweep that change nothing but its own state *)

\* Reading and judging change neither the run's files nor the host.
LEMMA OwnStepKeeps ==
  ASSUME RecoveryInv, UNCHANGED vars, RecoveryTypeOK', SilentIsDead',
         BlockedIsDependency', ReadsStand', WritesStand', SettledOnce'
  PROVE  RecoveryInv'
<1>1. CoordinatorInv'
  BY CoordinatorPreserves DEF RecoveryInv
<1>2. FaultFree'
  BY DEF RecoveryInv, vars, memVars, poolVars, taskFiles, runFile, cancelVars,
     FaultFree, StartsFresh, MemoryIsFresh, LayersAhead, LayersBehind, ResultsOfLayer,
     LayerLaunched, LayerSettling, ResolvingIsSettled, BlockedByDependencies,
     EndIsQuiet, FailureHasCause, Unstaffed, NotCompleted, IsAhead, IsBehind, IsBlocked
<1>3. RunFileIsBehind'
  BY DEF RecoveryInv, SweepInv, RunFileIsBehind, vars, taskFiles, runFile
<1> QED  BY <1>1, <1>2, <1>3 DEF RecoveryInv, SweepInv

LEMMA LoadKeeps ==
  ASSUME RecoveryInv, NEW r \in Reaper, Load(r)
  PROVE  RecoveryInv'
<1> USE DEF RecoveryInv, SweepInv
<1>1. /\ sweep'[r] = [step |-> "hydrate", left |-> Task, view |-> runTasks,
                      blocked |-> DependsOn, report |-> runReport, quiet |-> silent,
                      kind |-> "none"]
      /\ \A q \in Reaper : q # r => sweep'[q] = sweep[q]
      /\ UNCHANGED <<vars, silent, logged>>
      /\ RecoveryTypeOK'
  BY LoadEffect DEF CoordinatorInv
<1>2. UNCHANGED <<pc, file, blockedBy, runTasks>>
  BY <1>1 DEF vars, taskFiles, runFile
<1>3. /\ SilentIsDead' /\ BlockedIsDependency' /\ ReadsStand' /\ WritesStand'
      /\ SettledOnce'
  BY <1>1, <1>2 DEF SilentIsDead, BlockedIsDependency, ReadsStand, WritesStand,
     SettledOnce, Settled, RunFileIsBehind
<1> QED  BY <1>1, <1>3, OwnStepKeeps

LEMMA ReadTaskKeeps ==
  ASSUME RecoveryInv, NEW r \in Reaper, NEW t \in Task, ReadTask(r, t)
  PROVE  RecoveryInv'
<1> USE DEF RecoveryInv, SweepInv
<1>1. /\ sweep'[r].step = "hydrate" /\ sweep[r].step = "hydrate"
      /\ sweep'[r].left = sweep[r].left \ {t}
      /\ sweep'[r].quiet = sweep[r].quiet
      /\ \A u \in Task : u # t => /\ sweep'[r].view[u] = sweep[r].view[u]
                                  /\ sweep'[r].blocked[u] = sweep[r].blocked[u]
      /\ sweep'[r].view[t] = IF file[t] = "absent" THEN sweep[r].view[t] ELSE file[t]
      /\ sweep'[r].blocked[t] \in {sweep[r].blocked[t], blockedBy[t]}
      /\ \A q \in Reaper : q # r => sweep'[q] = sweep[q]
      /\ UNCHANGED <<vars, silent, logged>>
      /\ RecoveryTypeOK'
  BY ReadTaskEffect DEF CoordinatorInv
<1>2. UNCHANGED <<pc, file, blockedBy, runTasks>>
  BY <1>1 DEF vars, taskFiles, runFile
<1>3. SilentIsDead'
  <2>1. \A q \in Reaper : sweep'[q].quiet = sweep[q].quiet
    BY <1>1
  <2> QED  BY <2>1, <1>1, <1>2 DEF SilentIsDead
<1>4. WritesStand' /\ SettledOnce'
  <2>1. \A q \in Reaper : q = r \/ sweep'[q] = sweep[q]
    BY <1>1
  <2> QED  BY <2>1, <1>1, <1>2 DEF WritesStand, SettledOnce, Settled
<1>5. BlockedIsDependency'
  BY <1>1 DEF BlockedIsDependency, FaultFree, BlockedByDependencies
<1>6. ReadsStand'
  <2> SUFFICES ASSUME NEW q \in Reaper, NEW u \in Task, sweep'[q].step = "hydrate"
               PROVE  /\ sweep'[q].view[u] \in TerminalTask
                         => file[u] = sweep'[q].view[u]
                      /\ /\ sweep'[q].quiet /\ u \notin sweep'[q].left
                         /\ sweep'[q].view[u] \notin TerminalTask
                         => file[u] \notin TerminalTask \/ file[u] = "failed"
    BY <1>2 DEF ReadsStand
  <2>1. CASE q # r
    BY <2>1, <1>1 DEF ReadsStand
  <2>2. CASE q = r /\ u # t
    BY <2>2, <1>1 DEF ReadsStand
  <2>3. CASE q = r /\ u = t /\ file[t] # "absent"
    BY <2>3, <1>1
  <2>4. CASE q = r /\ u = t /\ file[t] = "absent"
    BY <2>4, <1>1 DEF ReadsStand, TerminalTask
  <2> QED  BY <2>1, <2>2, <2>3, <2>4
<1> QED  BY <1>1, <1>3, <1>4, <1>5, <1>6, OwnStepKeeps

\* What a sweep knows when it starts to write.
LEMMA JudgeKeeps ==
  ASSUME RecoveryInv, NEW r \in Reaper, JudgeTerminal(r) \/ JudgeStale(r)
  PROVE  RecoveryInv'
<1> USE DEF RecoveryInv, SweepInv
<1>1. /\ sweep[r].step = "hydrate" /\ sweep[r].left = {}
      /\ sweep'[r].step = "persist"
      /\ sweep'[r].left = Task
      /\ sweep'[r].quiet = sweep[r].quiet
      /\ sweep'[r].blocked = sweep[r].blocked
      /\ \A u \in Task : sweep'[r].view[u] =
           IF sweep[r].view[u] \in TerminalTask THEN sweep[r].view[u] ELSE "failed"
      /\ (\A u \in Task : sweep[r].view[u] \in TerminalTask) \/ sweep[r].quiet
      /\ \A q \in Reaper : q # r => sweep'[q] = sweep[q]
      /\ UNCHANGED <<vars, silent, logged>>
      /\ RecoveryTypeOK'
  BY JudgeEffect
<1>2. UNCHANGED <<pc, file, blockedBy, runTasks>>
  BY <1>1 DEF vars, taskFiles, runFile
<1>3. SilentIsDead' /\ BlockedIsDependency'
  <2>1. \A q \in Reaper : /\ sweep'[q].quiet = sweep[q].quiet
                          /\ sweep'[q].blocked = sweep[q].blocked
    BY <1>1
  <2> QED  BY <2>1, <1>1, <1>2 DEF SilentIsDead, BlockedIsDependency
<1>4. ReadsStand' /\ SettledOnce'
  <2>1. \A q \in Reaper : q = r \/ sweep'[q] = sweep[q]
    BY <1>1
  <2> QED  BY <2>1, <1>1, <1>2 DEF ReadsStand, SettledOnce, Settled
<1>5. WritesStand'
  <2> SUFFICES ASSUME NEW u \in Task
               PROVE  /\ sweep'[r].view[u] \in TerminalTask
                      /\ \/ file[u] = sweep'[r].view[u]
                         \/ /\ file[u] \notin TerminalTask
                            /\ sweep'[r].view[u] = "failed" /\ pc = "dead"
    BY <1>1, <1>2 DEF WritesStand
  <2>1. CASE sweep[r].view[u] \in TerminalTask
    BY <2>1, <1>1 DEF ReadsStand
  <2>2. CASE sweep[r].view[u] \notin TerminalTask
    BY <2>2, <1>1 DEF ReadsStand, SilentIsDead, TerminalTask
  <2> QED  BY <2>1, <2>2
<1> QED  BY <1>1, <1>3, <1>4, <1>5, OwnStepKeeps

LEMMA BackToIdleKeeps ==
  ASSUME RecoveryInv, NEW r \in Reaper,
         JudgeAlive(r) \/ AppendEvent(r) \/ SweepFails(r)
  PROVE  RecoveryInv'
<1> USE DEF RecoveryInv, SweepInv
<1>1. /\ sweep'[r] = Idle
      /\ \A q \in Reaper : q # r => sweep'[q] = sweep[q]
      /\ UNCHANGED vars
      /\ silent' => silent
      /\ logged' = logged \/ sweep[r].step = "append"
      /\ RecoveryTypeOK'
  BY IdleEffect
<1>2. UNCHANGED <<pc, file, blockedBy, runTasks>>
  BY <1>1 DEF vars, taskFiles, runFile
<1>3. SilentIsDead' /\ BlockedIsDependency'
  <2>1. \A q \in Reaper : (q = r /\ sweep'[q] = Idle) \/ sweep'[q] = sweep[q]
    BY <1>1
  <2>2. SilentIsDead'
    BY <2>1, <1>1, <1>2 DEF Idle, SilentIsDead
  <2> QED  BY <2>1, <2>2 DEF Idle, BlockedIsDependency
<1>4. ReadsStand' /\ WritesStand'
  BY <1>1, <1>2 DEF Idle, ReadsStand, WritesStand
<1>5. SettledOnce'
  <2>1. SettledOnce => logged' = logged \/ Settled
    BY <1>1 DEF SettledOnce
  <2> QED  BY <2>1, <1>1, <1>2 DEF Idle, SettledOnce, Settled
<1> QED  BY <1>1, <1>3, <1>4, <1>5, OwnStepKeeps

LEMMA ReadEventsKeeps ==
  ASSUME RecoveryInv, NEW r \in Reaper, ReadEvents(r)
  PROVE  RecoveryInv'
<1> USE DEF RecoveryInv, SweepInv
<1>1. /\ sweep[r].step = "events" /\ sweep[r] \in SweepState
      /\ sweep'[r] \in {Idle, [sweep[r] EXCEPT !.step = "append"]}
      /\ \A q \in Reaper : q # r => sweep'[q] = sweep[q]
      /\ UNCHANGED <<vars, silent, logged>>
      /\ RecoveryTypeOK'
  BY ReadEventsEffect
<1>2. UNCHANGED <<pc, file, blockedBy, runTasks>>
  BY <1>1 DEF vars, taskFiles, runFile
<1>3. /\ SilentIsDead' /\ BlockedIsDependency' /\ ReadsStand' /\ WritesStand'
      /\ SettledOnce'
  BY <1>1, <1>2 DEF Idle, SweepState, SilentIsDead, BlockedIsDependency, ReadsStand,
     WritesStand, SettledOnce, Settled
<1> QED  BY <1>1, <1>3, OwnStepKeeps

(* The steps of a sweep that write *)

\* What a sweep writes to a task file is there already, or ends a task that
\* stood open when the host died.
LEMMA PersistTaskWrites ==
  ASSUME RecoveryInv, NEW r \in Reaper, NEW t \in Task, PersistTask(r, t)
  PROVE  /\ file' = [file EXCEPT ![t] = sweep[r].view[t]]
         /\ blockedBy' = [blockedBy EXCEPT ![t] = sweep[r].blocked[t]]
         /\ sweep[r].view[t] \in TerminalTask
         /\ sweep[r].blocked[t] \subseteq DependsOn[t]
         /\ \/ file' = file
            \/ file[t] \notin TerminalTask /\ sweep[r].view[t] = "failed" /\ pc = "dead"
<1> USE DEF RecoveryInv, SweepInv
<1>1. file \in [Task -> TaskStatus]
  BY DEF CoordinatorInv, TypeOK
<1>2. sweep[r].step = "persist" /\ sweep[r].blocked[t] \subseteq DependsOn[t]
  BY DEF PersistTask, BlockedIsDependency
<1> QED  BY <1>1, <1>2 DEF PersistTask, SaveTaskFile, WritesStand

LEMMA PersistTaskKeepsHost ==
  ASSUME RecoveryInv, NEW r \in Reaper, NEW t \in Task, PersistTask(r, t)
  PROVE  CoordinatorInv' /\ FaultFree'
<1> USE DEF RecoveryInv
<1>1. /\ file' = [file EXCEPT ![t] = sweep[r].view[t]]
      /\ blockedBy' = [blockedBy EXCEPT ![t] = sweep[r].blocked[t]]
      /\ sweep[r].view[t] \in TerminalTask
      /\ sweep[r].blocked[t] \subseteq DependsOn[t]
      /\ \/ file' = file
         \/ file[t] \notin TerminalTask /\ sweep[r].view[t] = "failed" /\ pc = "dead"
      /\ UNCHANGED hostVars /\ UNCHANGED runFile
  BY PersistTaskWrites DEF PersistTask
<1>2. TypeOK'
  BY PersistTaskEffect DEF CoordinatorInv, SweepInv
<1>3. \A u \in Task : file'[u] = "completed" <=> file[u] = "completed"
  BY <1>1 DEF CoordinatorInv, TypeOK, TerminalTask
<1>4. CoordinatorInv'
  BY <1>1, <1>2, <1>3 DEF CoordinatorInv, hostVars, memVars, poolVars, cancelVars,
     CompletedHasSummary, WorkersHaveTheirInputs, NothingDoneYet, LoopsStayInLayer,
     SuccessSoFar, VerdictIsEarned, ReportIsFromLastLayer
<1>5. BlockedByDependencies'
  BY <1>1 DEF FaultFree, BlockedByDependencies, CoordinatorInv, TypeOK
<1>6. CASE file' = file
  <2>1. file[t] \in TerminalTask
    BY <1>1, <1>6 DEF CoordinatorInv, TypeOK
  <2>2. \A u \in Task : u # t => blockedBy'[u] = blockedBy[u]
    BY <1>1 DEF CoordinatorInv, TypeOK
  <2>3. \A u \in Task : IsBlocked(u) <=> IsBlocked(u)'
    BY <1>6, <2>1, <2>2 DEF IsBlocked, TerminalTask
  <2>4. /\ UNCHANGED <<pc, layer, todo, resolving, status, mem, staffed, allOk>>
        /\ UNCHANGED <<summaries, report, results, worker, attempts, outcome>>
        /\ UNCHANGED <<runTasks, cancel, registered, faults>>
    BY <1>1 DEF hostVars, memVars, poolVars, cancelVars, runFile
  <2>5. StartsFresh' /\ MemoryIsFresh'
    BY <1>6, <2>4 DEF FaultFree, StartsFresh, MemoryIsFresh
  <2>6. LayersAhead' /\ LayersBehind'
    BY <1>6, <2>3, <2>4 DEF FaultFree, LayersAhead, LayersBehind, IsAhead, IsBehind
  <2>7. ResultsOfLayer' /\ ResolvingIsSettled'
    BY <1>6, <2>4 DEF FaultFree, ResultsOfLayer, ResolvingIsSettled
  <2>8. \A u \in Task : Unstaffed(u) <=> Unstaffed(u)'
    BY <1>6, <2>4 DEF Unstaffed, NotCompleted
  <2>9. LayerLaunched' /\ LayerSettling'
    BY <1>6, <2>3, <2>4, <2>8 DEF FaultFree, LayerLaunched, LayerSettling
  <2>10. EndIsQuiet' /\ FailureHasCause'
    BY <1>6, <2>4 DEF FaultFree, EndIsQuiet, FailureHasCause, IsBehind
  <2> QED  BY <1>4, <1>5, <2>5, <2>6, <2>7, <2>9, <2>10 DEF FaultFree
<1>7. CASE pc = "dead"
  <2>1. pc' = "dead"
    BY <1>1, <1>7 DEF hostVars
  <2>2. StartsFresh' /\ MemoryIsFresh' /\ LayersAhead' /\ LayersBehind'
    BY <2>1 DEF StartsFresh, MemoryIsFresh, LayersAhead, LayersBehind, InLayers, InRun
  <2>3. ResultsOfLayer' /\ ResolvingIsSettled' /\ LayerLaunched' /\ LayerSettling'
    BY <2>1 DEF ResultsOfLayer, ResolvingIsSettled, LayerLaunched, LayerSettling
  <2>4. EndIsQuiet' /\ FailureHasCause'
    BY <2>1 DEF EndIsQuiet, FailureHasCause, InLayers
  <2> QED  BY <1>4, <1>5, <2>2, <2>3, <2>4 DEF FaultFree
<1> QED  BY <1>1, <1>4, <1>6, <1>7

LEMMA PersistTaskKeeps ==
  ASSUME RecoveryInv, NEW r \in Reaper, NEW t \in Task, PersistTask(r, t)
  PROVE  RecoveryInv'
<1> USE DEF RecoveryInv, SweepInv
<1>1. file \in [Task -> TaskStatus]
  BY DEF CoordinatorInv, TypeOK
<1>2. /\ sweep[r].step = "persist" /\ sweep[r] \in SweepState
      /\ sweep'[r] = [sweep[r] EXCEPT !.left = @ \ {t}]
      /\ \A q \in Reaper : q # r => sweep'[q] = sweep[q]
      /\ UNCHANGED <<hostVars, runFile, silent, logged>>
      /\ RecoveryTypeOK'
  BY PersistTaskEffect DEF CoordinatorInv
<1>3. /\ file' = [file EXCEPT ![t] = sweep[r].view[t]]
      /\ sweep[r].view[t] \in TerminalTask
      /\ \/ file' = file
         \/ file[t] \notin TerminalTask /\ sweep[r].view[t] = "failed" /\ pc = "dead"
      /\ UNCHANGED <<pc, runTasks>>
  BY <1>2, PersistTaskWrites DEF hostVars, runFile
<1>4. SilentIsDead' /\ BlockedIsDependency'
  BY <1>2, <1>3 DEF SilentIsDead, BlockedIsDependency, SweepState
<1>5. RunFileIsBehind'
  BY <1>1, <1>3 DEF RunFileIsBehind
<1>6. ReadsStand'
  BY <1>1, <1>2, <1>3 DEF ReadsStand, SweepState
<1>7. WritesStand'
  BY <1>1, <1>2, <1>3 DEF WritesStand, SweepState
<1>8. SettledOnce'
  BY <1>1, <1>2, <1>3 DEF SettledOnce, Settled, SweepState
<1> QED  BY <1>2, <1>4, <1>5, <1>6, <1>7, <1>8, PersistTaskKeepsHost

\* run.json is written when all the task files are.
LEMMA PersistRunKeeps ==
  ASSUME RecoveryInv, NEW r \in Reaper, PersistRun(r)
  PROVE  RecoveryInv'
<1> USE DEF RecoveryInv, SweepInv
<1>1. file \in [Task -> TaskStatus]
  BY DEF CoordinatorInv, TypeOK
<1>2. /\ sweep[r].step = "persist" /\ sweep[r].left = {} /\ sweep[r] \in SweepState
      /\ sweep'[r] = [sweep[r] EXCEPT !.step = "events"]
      /\ \A q \in Reaper : q # r => sweep'[q] = sweep[q]
      /\ runTasks' = sweep[r].view
      /\ UNCHANGED <<hostVars, taskFiles, silent, logged>>
      /\ RecoveryTypeOK' /\ TypeOK'
  BY PersistRunEffect DEF CoordinatorInv
<1>3. UNCHANGED <<pc, file, blockedBy>>
  BY <1>2 DEF hostVars, taskFiles
<1>4. runTasks' = file /\ \A t \in Task : file[t] \in TerminalTask
  <2>1. \A t \in Task : file[t] = sweep[r].view[t] /\ file[t] \in TerminalTask
    BY <1>2 DEF WritesStand
  <2> QED  BY <1>1, <1>2, <2>1 DEF SweepState
<1>5. SilentIsDead' /\ BlockedIsDependency' /\ ReadsStand' /\ WritesStand'
  BY <1>2, <1>3 DEF SilentIsDead, BlockedIsDependency, ReadsStand, WritesStand,
                    SweepState
<1>6. RunFileIsBehind' /\ SettledOnce'
  BY <1>3, <1>4 DEF RunFileIsBehind, SettledOnce, Settled
<1>7. CoordinatorInv'
  BY <1>2, RunFileIsApart
<1>8. FaultFree'
  BY <1>2, <1>3, <1>4 DEF hostVars, memVars, poolVars, cancelVars,
     FaultFree, StartsFresh, MemoryIsFresh, LayersAhead, LayersBehind, ResultsOfLayer,
     LayerLaunched, LayerSettling, ResolvingIsSettled, BlockedByDependencies,
     EndIsQuiet, FailureHasCause, Unstaffed, NotCompleted, IsAhead, IsBehind, IsBlocked
<1> QED  BY <1>2, <1>5, <1>6, <1>7, <1>8

LEMMA FallSilentKeeps ==
  ASSUME RecoveryInv, FallSilent
  PROVE  RecoveryInv'
<1> USE DEF RecoveryInv, SweepInv, FallSilent
<1>1. pc = "dead" /\ UNCHANGED <<pc, file, runTasks>>
  BY DEF HostGone, FaultFree, EndIsQuiet, vars, taskFiles, runFile
<1>2. RecoveryTypeOK' /\ SilentIsDead' /\ BlockedIsDependency' /\ ReadsStand'
      /\ WritesStand' /\ SettledOnce'
  BY <1>1 DEF RecoveryTypeOK, SilentIsDead, BlockedIsDependency, ReadsStand,
     WritesStand, SettledOnce, Settled
<1> QED  BY <1>2, OwnStepKeeps
-----------------------------------------------------------------------------
LEMMA SweepKeeps ==
  ASSUME RecoveryInv, NEW r \in Reaper, Sweep(r) \/ SweepFails(r)
  PROVE  RecoveryInv'
<1>1. CASE Load(r)
  BY <1>1, LoadKeeps
<1>2. CASE JudgeTerminal(r) \/ JudgeStale(r)
  BY <1>2, JudgeKeeps
<1>3. CASE JudgeAlive(r) \/ AppendEvent(r) \/ SweepFails(r)
  BY <1>3, BackToIdleKeeps
<1>4. CASE PersistRun(r)
  BY <1>4, PersistRunKeeps
<1>5. CASE ReadEvents(r)
  BY <1>5, ReadEventsKeeps
<1>6. CASE \E t \in Task : ReadTask(r, t) \/ PersistTask(r, t)
  BY <1>6, ReadTaskKeeps, PersistTaskKeeps
<1> QED  BY <1>1, <1>2, <1>3, <1>4, <1>5, <1>6 DEF Sweep

LEMMA RecoveryStep ==
  ASSUME RecoveryInv, [NextRecovery]_allVars, faults' = 0
  PROVE  RecoveryInv'
<1>1. CASE HostStep
  <2>1. [Next]_vars
    BY <1>1 DEF HostStep, Next
  <2>2. TypeOK'
    BY <2>1, CoordinatorPreserves DEF RecoveryInv, CoordinatorInv
  <2> QED  BY <1>1, <2>2, HostStepKeeps
<1>2. CASE \E r \in Reaper : Sweep(r) \/ SweepFails(r)
  BY <1>2, SweepKeeps
<1>3. CASE FallSilent
  BY <1>3, FallSilentKeeps
<1>4. CASE UNCHANGED allVars
  <2>1. UNCHANGED <<vars, sweep, silent, logged, broken, pc, file, runTasks>>
    BY <1>4 DEF allVars, vars, taskFiles, runFile
  <2>2. /\ RecoveryTypeOK' /\ SilentIsDead' /\ BlockedIsDependency' /\ ReadsStand'
        /\ WritesStand' /\ SettledOnce'
    BY <2>1 DEF RecoveryInv, SweepInv, RecoveryTypeOK, SilentIsDead, ReadsStand,
       BlockedIsDependency, WritesStand, SettledOnce, Settled
  <2> QED  BY <2>1, <2>2, OwnStepKeeps
<1> QED  BY <1>1, <1>2, <1>3, <1>4 DEF NextRecovery

LEMMA RecoveryBegins ==
  ASSUME InitRecovery
  PROVE  RecoveryInv
<1>1. CoordinatorInv /\ FaultFree
  BY InitEstablishes DEF InitRecovery, IInv, Init
<1>2. RecoveryTypeOK
  BY SweepsBeginTyped
<1>3. SilentIsDead /\ BlockedIsDependency /\ ReadsStand /\ WritesStand /\ SettledOnce
  BY DEF InitRecovery, Idle, SilentIsDead, BlockedIsDependency, ReadsStand, WritesStand,
         SettledOnce
<1>4. RunFileIsBehind
  BY <1>1 DEF InitRecovery, Init, RunFileIsBehind, TerminalTask
<1> QED  BY <1>1, <1>2, <1>3, <1>4 DEF RecoveryInv, SweepInv

\* In every behaviour of the run and its sweeps in which no file operation of the
\* host fails.
LEMMA RecoveryIsInvariant == SpecRecovery /\ [](faults = 0) => []RecoveryInv
<1>1. InitRecovery => RecoveryInv
  BY RecoveryBegins
<1>2. RecoveryInv /\ [NextRecovery]_allVars /\ (faults = 0)' => RecoveryInv'
  BY RecoveryStep
<1> QED  BY <1>1, <1>2, PTL DEF SpecRecovery

(* The theorems *)

\* Whoever wrote the verdict "completed" into run.json, the host or a sweep that
\* derived it from the task files (store.py:389-416), every task is completed in
\* run.json and in its own file, at every moment after; also when file operations
\* of the host or of a sweep fail, however many.
THEOREM CompletedStaysTrue == SpecRecovery => []CompletedIsOnDisk
<1>1. InitRecovery => VerdictInv
  BY VerdictBegins
<1>2. VerdictInv /\ [NextRecovery]_allVars => VerdictInv'
  BY VerdictStep
<1>3. VerdictInv => CompletedIsOnDisk
  BY DEF VerdictInv
<1> QED  BY <1>1, <1>2, <1>3, PTL DEF SpecRecovery

\* Sweeps that read and write the same run at once, some of them breaking off,
\* leave one story behind: once the host is gone, a sweep has logged its recovery
\* and none is at work, run.json and the task files agree and every task has
\* ended ("duplicate readers converge", store.py:461-463), unless a file operation
\* of the host itself has failed.
THEOREM SweepsLeaveOneStory == SpecRecovery /\ [](faults = 0) => []SweepsConverge
<1>1. RecoveryInv => SweepsConverge
  BY DEF RecoveryInv, SweepInv, SettledOnce, Settled, SweepsConverge
<1> QED  BY <1>1, RecoveryIsInvariant, PTL

\* An ending in a task file is final: neither the host, as long as its file
\* operations succeed, nor a sweep that read the file at some earlier moment
\* (store.py:374-386) writes another over it.
THEOREM NoEndingIsRewritten == SpecRecovery /\ [](faults = 0) => TaskEndingsStand
<1>1. ASSUME RecoveryInv, [NextRecovery]_allVars, faults' = 0, NEW t \in Task,
             file[t] \in TerminalTask
      PROVE  file'[t] = file[t]
  <2>1. CASE HostStep
    <3>1. [Next]_vars
      BY <2>1 DEF HostStep, Next
    <3> QED  BY <1>1, <3>1, EndedTasksStay DEF RecoveryInv
  <2>2. CASE \E r \in Reaper, u \in Task : PersistTask(r, u)
    BY <1>1, <2>2, PersistTaskWrites DEF RecoveryInv, CoordinatorInv, TypeOK
  <2>3. CASE file' = file
    BY <2>3
  <2> QED
    BY <1>1, <2>1, <2>2, <2>3 DEF NextRecovery, Sweep, SweepFails, FallSilent, allVars,
       vars, taskFiles, Load, ReadTask, JudgeTerminal, JudgeStale, JudgeAlive,
       PersistRun, ReadEvents, AppendEvent
<1>2. RecoveryInv /\ [NextRecovery]_allVars /\ (faults = 0)'
        => [\A t \in Task : file[t] \in TerminalTask => file'[t] = file[t]]_allVars
  BY <1>1
<1> QED  BY <1>2, RecoveryIsInvariant, PTL DEF SpecRecovery, TaskEndingsStand
=============================================================================
