----------------------------- MODULE AgentLoop -----------------------------
(***************************************************************************)
(* AgentLoop.run (agent/loop.py:562-1276): the turns of a run, from the     *)
(* request that is sent to the model to what the loop makes of the answer,  *)
(* and how the run ends, in the caller's dict, in state.json and in the     *)
(* trace.  A loop may be run again, in the same run directory.              *)
(*                                                                         *)
(* The request is ProviderStream, the session's goal is GoalLedger.  The    *)
(* tool calls of a response are ToolBatch's; here they are one step, which  *)
(* may change what the loop knows of the identities it must lock and may    *)
(* leave artifacts.  What the messages say of the research pipeline is data *)
(* and chosen anew whenever the loop looks (the history, the tools and the  *)
(* compaction all change it).                                               *)
(***************************************************************************)
EXTENDS ProviderStream, GoalLedger, FiniteSets

CONSTANTS
  MaxIterations,     \* max_iterations
  MaxSkips,          \* MAX_CONSECUTIVE_CONTENT_FILTER_SKIPS, 3
  MaxNudges,         \* nudges towards the next tool, 3
  MaxValidations,    \* validations after which a draft is given up, 3
  MaxContinuations,  \* kairos_goal_max_continuations
  MaxUnconfirmed,    \* bound on the turns charged without the loop knowing
  MaxRuns            \* bound on the runs of one loop

ASSUME LoopBounds ==
  /\ MaxIterations \in Nat \ {0} /\ MaxSkips \in Nat \ {0}
  /\ MaxNudges \in Nat /\ MaxValidations \in Nat \ {0}
  /\ MaxContinuations \in Nat /\ MaxUnconfirmed \in Nat /\ MaxRuns \in Nat

VARIABLES
  pc,           \* where run() is; "idle" before, between and after runs
  runs,         \* runs begun; _has_run is runs > 0
  cancel,       \* _cancel_event
  iteration,
  retried,      \* the request is the second one of this turn
  final,        \* final_content: "none" for the empty string, "raw" as the
                \*   model sent it, "checked" by validate_final_answer
  skips,        \* consecutive_content_filter_count
  breaker,      \* content_filter_circuit_breaker
  nudges,       \* preamble_nudge_count
  validations,  \* validation_count of this run's ledger
  continuations,\* goal_continuations
  tracked,      \* active_goal_id is set
  counted,      \* goal_turn_accounted
  snapshot,     \* continuation_snapshot
  spent,        \* runs that noted that their turn is in the goal's turns_used
  unconfirmed,  \* turns that are in it without their run having noted it
  required,     \* the ledger's _identity_required
  blocking,     \* its identity_status is one that rejects a final answer
  hidden,       \* buffer_text_output of this turn
  metrics,      \* artifacts/metrics.csv exists in the run directory
  stateFile,    \* status that this run wrote to state.json, "none" before
  traceEnd,     \* status in the "end" event that this run traced, likewise
  result        \* status that run() returns; "raised" if it raises

countVars  == <<skips, breaker, nudges, validations>>
goalRun    == <<continuations, tracked, counted, snapshot>>
ledgerRun  == <<required, blocking>>
endVars    == <<stateFile, traceEnd, result>>
\* What only a few actions change.
slowVars   == <<runs, spent, unconfirmed, metrics>>
vars == <<pc, runs, cancel, iteration, retried, final, countVars, goalRun,
          spent, unconfirmed, ledgerRun, hidden, metrics, endVars, streamVars,
          goalVars>>

Init ==
  /\ InitStream
  /\ InitGoal
  /\ pc = "idle"
  /\ runs = 0
  /\ cancel = FALSE
  /\ iteration = 0
  /\ retried = FALSE
  /\ final = "none"
  /\ skips = 0 /\ breaker = FALSE
  /\ nudges = 0 /\ validations = 0
  /\ continuations = 0
  /\ tracked = FALSE /\ counted = FALSE /\ snapshot = NoSnapshot
  /\ spent = {} /\ unconfirmed = 0
  /\ required = FALSE /\ blocking = FALSE /\ hidden = FALSE
  /\ metrics = FALSE
  /\ stateFile = "none" /\ traceEnd = "none" /\ result = "none"

\* What the request of a turn has left is dropped.
TurnIsOver ==
  /\ stream' = "idle" /\ lan' = 0 /\ text' = FALSE
  /\ shown' = FALSE /\ reply' = NoReply
-----------------------------------------------------------------------------
(***************************************************************************)
(* The beginning of a run                                                  *)
(***************************************************************************)
\* Mutant of ImplementsContract: every run starts uncancelled.
NothingKept == FALSE

\* Cancellation accepted before the first run is kept; a loop that is used again
\* starts uncancelled.
KeptCancel == runs = 0 /\ cancel

\* A new ledger is required to lock an identity if the question is one that
\* is acted upon or names a code; a code that it names is locked at once.
NewLedger ==
  /\ required' \in BOOLEAN
  /\ blocking' \in {FALSE, required'}

StartRun ==
  /\ pc = "idle"
  /\ runs < MaxRuns
  /\ runs' = runs + 1
  /\ cancel' = KeptCancel
  /\ pc' = "head"
  /\ iteration' = 0
  /\ retried' = FALSE
  /\ final' = "none"
  /\ skips' = 0 /\ breaker' = FALSE
  /\ nudges' = 0 /\ validations' = 0
  /\ continuations' = 0 /\ counted' = FALSE /\ snapshot' = NoSnapshot
  /\ tracked' = HasCurrentGoal
  /\ NewLedger
  /\ hidden' = FALSE
  /\ stateFile' = "none" /\ traceEnd' = "none" /\ result' = "none"
  /\ TurnIsOver
  /\ UNCHANGED <<spent, unconfirmed, metrics, goalVars>>

\* The directory, the request file, the goal's database or the first events of
\* the trace fail: all this is outside the try, and run() raises.
RaiseAtStart ==
  /\ pc = "head"
  /\ iteration = 0
  /\ pc' = "idle"
  /\ result' = "raised"
  /\ UNCHANGED <<slowVars, cancel, iteration, retried, final, countVars,
                 goalRun, ledgerRun, hidden, stateFile, traceEnd, streamVars,
                 goalVars>>
-----------------------------------------------------------------------------
(***************************************************************************)
(* A turn: the request                                                     *)
(***************************************************************************)
Goto(label) ==
  /\ pc' = label
  /\ UNCHANGED <<slowVars, cancel, iteration, retried, hidden, endVars>>

StopAtHead ==
  /\ pc = "head"
  /\ cancel \/ iteration = MaxIterations
  /\ Goto("status")
  /\ UNCHANGED <<final, countVars, goalRun, ledgerRun, streamVars, goalVars>>

\* Mutant of RejectedIsNotShown: decided in the first turn.
BufferedAtFirst(h) == IF iteration = 0 THEN required => h ELSE h = hidden

\* should_buffer_output: a ledger that has to lock an identity hides drafts, and
\* so does one that holds numbers from the tools.
BufferOutput(h) == required => h

\* The next turn: compact the messages as far as they are long, decide whether
\* drafts are shown, and send the request.  The last turn offers no tools.
BeginTurn ==
  /\ pc = "head"
  /\ ~cancel
  /\ iteration < MaxIterations
  /\ pc' = "stream"
  /\ iteration' = iteration + 1
  /\ retried' = FALSE
  /\ \E h \in BOOLEAN : BufferOutput(h) /\ hidden' = h
  /\ Open
  /\ shown' = FALSE
  /\ UNCHANGED <<slowVars, cancel, final, countVars, goalRun, ledgerRun,
                 endVars, goalVars>>

Streaming ==
  /\ pc = "stream"
  /\ StreamStep(cancel, hidden)
  /\ Goto("stream")
  /\ UNCHANGED <<final, countVars, goalRun, ledgerRun, goalVars>>

\* A retryable error gets one more request, and what had been collected from
\* the failed one is dropped.  Cancellation is not asked for in between.
RetryOnce ==
  /\ pc = "stream"
  /\ stream = "raised"
  /\ reply.retryable
  /\ ~retried
  /\ retried' = TRUE
  /\ Open
  /\ UNCHANGED <<pc, shown, slowVars, cancel, iteration, final, countVars,
                 goalRun, ledgerRun, hidden, endVars, goalVars>>

\* Mutant of RunReturns: an error that could be retried waits for a retry.
StreamRaisesUnlessRetryable ==
  /\ pc = "stream"
  /\ stream = "raised"
  /\ ~reply.retryable
  /\ Goto("error")
  /\ UNCHANGED <<final, countVars, goalRun, ledgerRun, streamVars, goalVars>>

StreamRaises ==
  /\ pc = "stream"
  /\ stream = "raised"
  /\ ~reply.retryable \/ retried
  /\ Goto("error")
  /\ TurnIsOver
  /\ UNCHANGED <<final, countVars, goalRun, ledgerRun, goalVars>>

\* A run that was cancelled in the meantime drops the response.
Receive ==
  /\ pc = "stream"
  /\ stream = "answered"
  /\ IF cancel THEN Goto("status") /\ TurnIsOver
     ELSE /\ Goto(IF tracked THEN "account" ELSE "reply")
          /\ UNCHANGED streamVars
  /\ UNCHANGED <<final, countVars, goalRun, ledgerRun, goalVars>>
-----------------------------------------------------------------------------
(***************************************************************************)
(* A turn: what the response costs the goal                                *)
(***************************************************************************)
TurnDelta == IF counted THEN 0 ELSE 1

\* Mutant of AccountFor: the turn counts as accounted for only once the
\* snapshot has been read as well, which may fail.
AccountForAndForget ==
  /\ pc = "account"
  /\ Mutable
  /\ \E tokens \in Charges : Account(tokens, TurnDelta)
  /\ spent' = spent \cup {runs}
  /\ counted' \in BOOLEAN
  /\ pc' = "reply"
  /\ UNCHANGED <<runs, unconfirmed, metrics, cancel, iteration, retried, final,
                 countVars, continuations, tracked, snapshot, ledgerRun, hidden,
                 endVars, streamVars, others>>

\* The tokens of this response, and the turn if the run has not noted yet that
\* an earlier one accounted for it.  Failed attempts of the request cost
\* nothing here.
AccountFor ==
  /\ pc = "account"
  /\ Mutable
  /\ \E tokens \in Charges : Account(tokens, TurnDelta)
  /\ spent' = spent \cup {runs}
  /\ counted' = TRUE
  /\ pc' = "reply"
  /\ UNCHANGED <<runs, unconfirmed, metrics, cancel, iteration, retried, final,
                 countVars, continuations, tracked, snapshot, ledgerRun, hidden,
                 endVars, streamVars, others>>

\* The charge is committed, but the goal cannot be read back: account_usage
\* raises, the exception is dropped, and the run does not know of its turn.
AccountUnconfirmed ==
  /\ pc = "account"
  /\ Mutable
  /\ unconfirmed + TurnDelta <= MaxUnconfirmed
  /\ \E tokens \in Charges : Account(tokens, TurnDelta)
  /\ unconfirmed' = unconfirmed + TurnDelta
  /\ pc' = "reply"
  /\ UNCHANGED <<runs, spent, metrics, cancel, iteration, retried, final,
                 countVars, goalRun, ledgerRun, hidden, endVars, streamVars,
                 others>>

\* Nothing to account for, a goal that is no longer current, a locked
\* database: the exception is dropped and the response is used all the same.
AccountNothing ==
  /\ pc = "account"
  /\ Goto("reply")
  /\ UNCHANGED <<final, countVars, goalRun, ledgerRun, streamVars, goalVars>>
-----------------------------------------------------------------------------
(***************************************************************************)
(* A turn: what the loop makes of the response                             *)
(***************************************************************************)
Aside == <<goalRun, ledgerRun, goalVars>>

\* Moderation blocked the response: tell the model and go on, at most MaxSkips
\* times in a row.  final_content stays as earlier turns left it.
SkipFiltered ==
  /\ pc = "reply"
  /\ reply.kind = "filtered"
  /\ skips' = skips + 1
  /\ breaker' = (skips + 1 >= MaxSkips)
  /\ Goto(IF breaker' THEN "status" ELSE "head")
  /\ TurnIsOver
  /\ UNCHANGED <<final, nudges, validations, Aside>>

MayNudge == iteration < MaxIterations /\ nudges < MaxNudges

\* An answer without tool calls becomes final_content.  If the messages show a
\* pipeline that has scanned and not yet synthesized, the model is pushed on.
Nudge ==
  /\ pc = "reply"
  /\ reply.kind \in {"text", "empty"}
  /\ MayNudge
  /\ skips' = 0
  /\ nudges' = nudges + 1
  /\ final' = IF reply.kind = "text" THEN "raw" ELSE "none"
  /\ Goto("head")
  /\ TurnIsOver
  /\ UNCHANGED <<breaker, validations, Aside>>

NothingSaid ==
  /\ pc = "reply"
  /\ reply.kind = "empty"
  /\ skips' = 0
  /\ final' = "none"
  /\ Goto("status")
  /\ TurnIsOver
  /\ UNCHANGED <<breaker, nudges, validations, Aside>>

Draft ==
  /\ pc = "reply"
  /\ reply.kind = "text"
  /\ skips' = 0
  /\ final' = "raw"
  /\ Goto("validate")
  /\ UNCHANGED <<breaker, nudges, validations, Aside, streamVars>>

\* The tool calls of the response: what they may leave is known to no other
\* part of this module.  A requirement to lock an identity is never lifted.
CallTools ==
  /\ pc = "reply"
  /\ reply.kind = "tools"
  /\ skips' = 0
  /\ required' \in {required, TRUE}
  /\ blocking' \in {FALSE, required'}
  /\ metrics' \in {metrics, TRUE}
  /\ pc' = "head"
  /\ TurnIsOver
  /\ UNCHANGED <<runs, spent, unconfirmed, cancel, iteration, retried, final,
                 breaker, nudges, validations, goalRun, hidden,
                 endVars, goalVars>>

\* validate_final_answer records the attempt; a draft is valid unless an
\* identity that has to be locked is not.
Validate(valid) ==
  /\ pc = "validate"
  /\ valid = ~blocking
  /\ validations' = validations + 1

\* The model is told why its draft was rejected.
Reject ==
  /\ Validate(FALSE)
  /\ iteration < MaxIterations /\ validations' < MaxValidations
  /\ final' = "none"
  /\ Goto("head")
  /\ TurnIsOver
  /\ UNCHANGED <<skips, breaker, nudges, goalRun, ledgerRun,
                 goalVars>>

\* It was the last turn, or one draft too many: safe_fallback reads
\* _evidence_cells, which nothing assigns, and raises.
SafeFallback ==
  /\ Validate(FALSE)
  /\ iteration = MaxIterations \/ validations' >= MaxValidations
  /\ final' = "none"
  /\ Goto("error")
  /\ TurnIsOver
  /\ UNCHANGED <<skips, breaker, nudges, goalRun, ledgerRun,
                 goalVars>>

\* A draft that was held back is shown now, all of it.
Accept ==
  /\ Validate(TRUE)
  /\ final' = "checked"
  /\ Goto("goal")
  /\ TurnIsOver
  /\ UNCHANGED <<skips, breaker, nudges, goalRun, ledgerRun,
                 goalVars>>

\* The goal as it stands after the charge; nothing, if it cannot be read.
ReadGoal ==
  /\ pc = "goal"
  /\ \/ snapshot' = NoSnapshot
     \/ tracked /\ MaxContinuations > 0 /\ snapshot' = goal
  /\ Goto("decide")
  /\ UNCHANGED <<final, countVars, continuations, tracked, counted, ledgerRun,
                 streamVars, goalVars>>

\* A second continuation would need new evidence since the first, and nothing
\* in this version of the code appends evidence.
Suppressed == continuations >= MaxContinuations \/ continuations > 0

\* The goal was open when it was read: the answer is an intermediate one, and
\* the run goes on with a prompt of its own.
ContinueGoal ==
  /\ pc = "decide"
  /\ GoalNeedsContinuation(snapshot)
  /\ ~Suppressed
  /\ continuations' = continuations + 1
  /\ snapshot' = NoSnapshot
  /\ Goto("head")
  /\ UNCHANGED <<final, countVars, tracked, counted, ledgerRun, streamVars,
                 goalVars>>

\* The answer ends the run: no goal, or one that is not to be continued.
AnswerEnds ==
  /\ pc = "decide"
  /\ ~GoalNeedsContinuation(snapshot) \/ Suppressed
  /\ snapshot' = NoSnapshot
  /\ Goto("status")
  /\ UNCHANGED <<final, countVars, continuations, tracked, counted, ledgerRun,
                 streamVars, goalVars>>

\* A trace that cannot be written, a tool batch or a compaction that raises.
TurnRaises ==
  /\ pc \in {"head", "stream", "reply", "validate", "goal", "decide"}
  /\ pc = "stream" => stream = "connecting"
  /\ Goto("error")
  /\ TurnIsOver
  /\ UNCHANGED <<final, countVars, goalRun, ledgerRun, goalVars>>
-----------------------------------------------------------------------------
(***************************************************************************)
(* The end of a run                                                        *)
(***************************************************************************)
Verdict ==
  IF cancel THEN "cancelled"
  ELSE IF ~breaker /\ (metrics \/ final # "none") THEN "success"
  ELSE "failed"

\* mark_success, mark_failure and mark_cancelled write state.json and sync it.
Mark(status) == stateFile' = status

DecideStatus ==
  /\ pc = "status"
  /\ result' = Verdict
  /\ Mark(Verdict)
  /\ pc' = "end"
  /\ UNCHANGED <<slowVars, cancel, iteration, retried, final, countVars,
                 goalRun, ledgerRun, hidden, traceEnd, streamVars, goalVars>>

\* Mutant of ReportsAgree: the trace looks at the event again.
WriteEndAnew ==
  /\ pc = "end"
  /\ traceEnd' = Verdict
  /\ pc' = "idle"
  /\ UNCHANGED <<slowVars, cancel, iteration, retried, final, countVars,
                 goalRun, ledgerRun, hidden, stateFile, result, streamVars,
                 goalVars>>

WriteEnd ==
  /\ pc = "end"
  /\ traceEnd' = result
  /\ pc' = "idle"
  /\ UNCHANGED <<slowVars, cancel, iteration, retried, final, countVars,
                 goalRun, ledgerRun, hidden, stateFile, result, streamVars,
                 goalVars>>

\* An exception in a turn: the trace ends before state.json is written.
TraceError ==
  /\ pc = "error"
  /\ traceEnd' = "error"
  /\ pc' = "failed"
  /\ UNCHANGED <<slowVars, cancel, iteration, retried, final, countVars,
                 goalRun, ledgerRun, hidden, stateFile, result, streamVars,
                 goalVars>>

MarkFailed ==
  /\ pc = "failed"
  /\ Mark("failed")
  /\ result' = "failed"
  /\ pc' = "idle"
  /\ UNCHANGED <<slowVars, cancel, iteration, retried, final, countVars,
                 goalRun, ledgerRun, hidden, traceEnd, streamVars, goalVars>>

\* Writing state.json or the end of the trace fails, and so does run().  A
\* state.json that was opened is empty.
RaiseAtEnd ==
  /\ pc \in {"status", "end", "error", "failed"}
  /\ pc' = "idle"
  /\ result' = "raised"
  /\ UNCHANGED stateFile \/ (pc \in {"status", "failed"} /\ stateFile' = "none")
  /\ UNCHANGED <<slowVars, cancel, iteration, retried, final, countVars,
                 goalRun, ledgerRun, hidden, traceEnd, streamVars, goalVars>>
-----------------------------------------------------------------------------
\* cancel(), from any thread, before, during and after a run.
Cancel ==
  /\ ~cancel
  /\ cancel' = TRUE
  /\ UNCHANGED <<slowVars, pc, iteration, retried, final, countVars, goalRun,
                 ledgerRun, hidden, endVars, streamVars, goalVars>>

\* What other processes do to the goal.
Others ==
  /\ OtherLoopAccounts \/ SessionIsDeleted
  /\ UNCHANGED <<slowVars, pc, cancel, iteration, retried, final, countVars,
                 goalRun, ledgerRun, hidden, endVars, streamVars>>

\* The steps of run(); it has to be called, and nobody has to cancel it.
Running ==
  \/ RaiseAtStart \/ StopAtHead \/ BeginTurn
  \/ Streaming \/ RetryOnce \/ StreamRaises \/ Receive
  \/ AccountFor \/ AccountUnconfirmed \/ AccountNothing
  \/ SkipFiltered \/ Nudge \/ NothingSaid \/ Draft \/ CallTools
  \/ Reject \/ SafeFallback \/ Accept
  \/ ReadGoal \/ ContinueGoal \/ AnswerEnds \/ TurnRaises
  \/ DecideStatus \/ WriteEnd \/ TraceError \/ MarkFailed \/ RaiseAtEnd

Next == StartRun \/ Running \/ Cancel \/ Others

\* The loop's thread is scheduled, every read of the connection has a time
\* limit and the tools of a response come to an end (TurnsEnd of ToolBatch).
Spec == Init /\ [][Next]_vars /\ WF_vars(Running)
-----------------------------------------------------------------------------
(***************************************************************************)
(* Properties                                                              *)
(***************************************************************************)
InATurn   == {"stream", "account", "reply", "validate", "goal", "decide"}
NotEnding == InATurn \cup {"head", "status", "error"}
Endings   == {"success", "failed", "cancelled"}

\* The values the variables may have: how far the run is and what it has
\* reported, what it has counted, what it has noted, and the goal.
StatusesOK ==
  /\ pc \in NotEnding \cup {"end", "failed", "idle"}
  /\ final \in {"none", "raw", "checked"}
  /\ stateFile \in Endings \cup {"none"}
  /\ traceEnd \in Endings \cup {"none", "error"}
  /\ result \in Endings \cup {"none", "raised"}

CountsOK ==
  /\ runs \in Nat /\ iteration \in 0..MaxIterations /\ lan \in Nat
  /\ skips \in Nat /\ nudges \in Nat /\ validations \in Nat
  /\ continuations \in Nat /\ spent \subseteq 1..runs /\ unconfirmed \in Nat

FlagsOK ==
  /\ cancel \in BOOLEAN /\ retried \in BOOLEAN /\ breaker \in BOOLEAN
  /\ tracked \in BOOLEAN /\ counted \in BOOLEAN
  /\ required \in BOOLEAN /\ blocking \in BOOLEAN /\ hidden \in BOOLEAN
  /\ metrics \in BOOLEAN /\ text \in BOOLEAN /\ shown \in BOOLEAN

GoalOK ==
  /\ goal \in [status : GoalStatuses, tokens : Nat, turns : Nat]
  /\ snapshot \in [status : GoalStatuses, tokens : Nat, turns : Nat]
  /\ others \in [tokens : Nat, turns : Nat]

TypeOK == StatusesOK /\ CountsOK /\ FlagsOK /\ GoalOK

\* What run() returns, state.json and the end of the trace agree whenever
\* run() has returned, and a trace that says a run has ended by itself is never
\* ahead of state.json: the process may die between any two steps.
ReportsAgree ==
  /\ traceEnd \notin {"none", "error"} => stateFile = traceEnd
  /\ (pc = "idle" /\ result \in {"success", "failed", "cancelled"}) =>
        /\ stateFile = result
        /\ \/ traceEnd = result
           \/ traceEnd = "error" /\ result = "failed"

\* A draft that the grounding rejects has not been on the display: whether the
\* text of a turn is shown is settled before it arrives, whether it is
\* accepted afterwards.
RejectedIsNotShown == (pc = "validate" /\ blocking) => ~shown

\* The goal is charged one turn for each run that noted its charge, the turns
\* of other loops, and nothing else but the charges that were committed and
\* reported to the run as failed: a run charges its turn again after each of
\* those (loop.py:900, 921; store.py:814-819).
TurnsAreCountedOnce ==
  goal.turns = Cardinality(spent) + unconfirmed + others.turns

\* A run goes on for a goal only if the goal had tokens and turns left when it
\* was read, and what was read held all that the loop itself had charged, the
\* response just paid for included: only the charges of others may have come
\* in between the read (loop.py:1085) and its use (1143).
ContinuesWithinBudget ==
  [][continuations' > continuations =>
       /\ TokenBudget > 0 => snapshot.tokens < TokenBudget
       /\ TurnBudget > 0 => snapshot.turns < TurnBudget
       /\ Cardinality(spent) + unconfirmed <= snapshot.turns]_vars

\* The loop keeps its promises to the session: no turn begins once cancellation
\* was asked for, also while the first run was queued, and the verdict tells.
Contract == INSTANCE AgentContract WITH
  MaxTurns <- MaxIterations,
  running <- pc \notin {"idle", "end"},
  served <- runs,
  turns <- iteration,
  verdict <- result
ImplementsContract == Contract!Spec

\* Every run comes to an end.
RunReturns == (pc = "head") ~> (pc = "idle")
=============================================================================
