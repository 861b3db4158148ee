---------------------------- MODULE SwarmWorker ----------------------------
(***************************************************************************)
(* One task in a pool thread: the attempts of _run_worker_with_retries     *)
(* (swarm/runtime.py:557-643) and, in each, the ReAct loop of run_worker   *)
(* (swarm/worker.py:282-729).  The model and the tools are the             *)
(* environment: a stream may fail, be blocked by content moderation,       *)
(* answer or ask for tools; a deadline may be found passed at the head of  *)
(* any iteration.  report.md lives in a directory of the agent that every  *)
(* attempt shares.                                                         *)
(*                                                                         *)
(* Texts are abstracted to what _classify_deliverable tells apart: nothing *)
(* ("none"), white space ("blank"), a text one of its markers gives away   *)
(* ("stub"), any other text ("text"), and the sentences run_worker itself  *)
(* puts where the model said nothing ("placeholder").                      *)
(***************************************************************************)
EXTENDS Integers

CONSTANTS
  MaxRetries,     \* max_retries of the agent
  MaxIterations,  \* max_iterations
  MaxSkips,       \* MAX_CONSECUTIVE_CONTENT_FILTER_SKIPS
  MaxCalls,       \* bound on the tool calls of one response
  IsDataAgent     \* _is_data_agent

ASSUME WorkerAssumption ==
  /\ MaxRetries \in Nat
  /\ MaxIterations \in Nat \ {0}
  /\ MaxSkips \in Nat \ {0}
  /\ MaxCalls \in Nat \ {0}
  /\ IsDataAgent \in BOOLEAN

VARIABLES
  pc,         \* where the thread is
  attempt,    \* the attempt it is in, from 1
  iteration,  \* iteration
  lastText,   \* last_assistant_content
  said,       \* contents of the assistant messages in messages
  calls,      \* tool calls of the response not yet executed
  worked,     \* data_tool_calls > 0
  skips,      \* consecutive_content_filter_count
  report,     \* report.md: what it says, and which attempt wrote it
  tokens,     \* tokens counted in this attempt; a response costs one
  total,      \* cumulative tokens, those of the attempts that returned
  result,     \* the WorkerResult of the last attempt
  billed,     \* what the provider charged, over all attempts
  blocked     \* how many of the last responses of the attempt were moderated

attemptVars == <<iteration, lastText, said, calls, worked, skips, tokens>>
vars == <<pc, attempt, attemptVars, report, total, result, billed, blocked>>

Text   == {"none", "blank", "stub", "text", "placeholder"}
Status == {"completed", "failed", "timeout", "token_limit", "incomplete"}

NoReport == [says |-> "none", by |-> 0]
NoResult == [status |-> "none", says |-> "none", by |-> 0]

Init ==
  /\ pc = "start"
  /\ attempt = 1
  /\ iteration = 0
  /\ lastText = "none"
  /\ said = {}
  /\ calls = 0
  /\ worked = FALSE
  /\ skips = 0
  /\ report = NoReport
  /\ tokens = 0
  /\ total = 0
  /\ result = NoResult
  /\ billed = 0
  /\ blocked = 0
-----------------------------------------------------------------------------
(***************************************************************************)
(* What an attempt delivers                                                *)
(***************************************************************************)
\* _resolve_summary: report.md, if there is one, goes before any other text.
Resolved(text) ==
  IF report.says # "none" THEN report ELSE [says |-> text, by |-> attempt]

Or(text, other) == IF text = "none" THEN other ELSE text

\* _classify_deliverable finds nothing wrong with a summary.
Deliverable(summary) ==
  /\ summary.says \notin {"none", "blank", "stub"}
  /\ IsDataAgent => report.says # "none" \/ worked

\* run_worker returns, and _run_worker_with_retries adds its tokens up.
Return(status, summary, counted) ==
  /\ pc' = "returned"
  /\ result' = [status |-> status, says |-> summary.says, by |-> summary.by]
  /\ total' = total + counted

Deliver(summary, counted) ==
  Return(IF Deliverable(summary) THEN "completed" ELSE "incomplete", summary, counted)
-----------------------------------------------------------------------------
(***************************************************************************)
(* The head of an attempt and of an iteration                              *)
(***************************************************************************)
\* The prompt template does not render.
PromptFails ==
  /\ pc = "start"
  /\ Return("failed", [says |-> "none", by |-> attempt], 0)
  /\ UNCHANGED <<attempt, attemptVars, report, billed, blocked>>

BeginLoop ==
  /\ pc = "start"
  /\ pc' = "loop"
  /\ UNCHANGED <<attempt, attemptVars, report, total, result, billed, blocked>>

\* Building the registry, the model or the directory raises, or a tool's result,
\* an event or a file of the agent does further on: run_worker catches neither.
Raises ==
  /\ pc \in {"start", "loop", "stream", "stream again", "tools"}
  /\ pc' = "raised"
  /\ UNCHANGED <<attempt, attemptVars, report, total, result, billed, blocked>>

InLoop == pc = "loop" /\ iteration < MaxIterations

\* _best_summary: the longest assistant message, or the last text that counted.
BestSummaries == said \cup {Or(lastText, "placeholder")}

TimeOut ==
  /\ InLoop
  /\ \E text \in BestSummaries : Return("timeout", Resolved(text), tokens)
  /\ UNCHANGED <<attempt, attemptVars, report, billed, blocked>>

ContextTooLarge ==
  /\ InLoop
  /\ Return("token_limit", Resolved(Or(lastText, "placeholder")), tokens)
  /\ UNCHANGED <<attempt, attemptVars, report, billed, blocked>>

Call ==
  /\ InLoop
  /\ pc' = "stream"
  /\ UNCHANGED <<attempt, attemptVars, report, total, result, billed, blocked>>

\* Mutant of StreamAgain: retried for as long as it fails.
StreamAgainAndAgain ==
  /\ pc \in {"stream", "stream again"}
  /\ pc' = IF pc = "stream" THEN "stream again" ELSE "stream"
  /\ UNCHANGED <<attempt, attemptVars, report, total, result, billed, blocked>>

\* A retryable ProviderStreamError, once per iteration.
StreamAgain ==
  /\ pc = "stream"
  /\ pc' = "stream again"
  /\ UNCHANGED <<attempt, attemptVars, report, total, result, billed, blocked>>

StreamFails ==
  /\ pc \in {"stream", "stream again"}
  /\ Return("failed", Resolved(lastText), tokens)
  /\ UNCHANGED <<attempt, attemptVars, report, billed, blocked>>
-----------------------------------------------------------------------------
(***************************************************************************)
(* A response.  Its text replaces last_assistant_content if it is longer   *)
(* than 20 characters, which white space is not.                           *)
(***************************************************************************)
Receive(text) ==
  /\ pc \in {"stream", "stream again"}
  /\ billed' = billed + 1
  /\ tokens' = tokens + 1
  /\ lastText' \in IF text \in {"stub", "text"} THEN {lastText, text} ELSE {lastText}

\* Moderated, and not for the last time in a row: the loop goes on.
SkipModerated(text) ==
  /\ Receive(text)
  /\ skips + 1 < MaxSkips
  /\ skips' = skips + 1
  /\ blocked' = blocked + 1
  /\ iteration' = iteration + 1
  /\ pc' = "loop"
  /\ UNCHANGED <<attempt, said, calls, worked, report, total, result>>

\* Mutant of BreakCircuit: the tokens are added up only after it.
BreakCircuitUncounted(text) ==
  /\ Receive(text)
  /\ skips + 1 >= MaxSkips
  /\ skips' = skips + 1
  /\ blocked' = blocked + 1
  /\ Return("failed", Resolved(lastText'), tokens)
  /\ UNCHANGED <<attempt, iteration, said, calls, worked, report>>

\* The circuit breaker.
BreakCircuit(text) ==
  /\ Receive(text)
  /\ skips + 1 >= MaxSkips
  /\ skips' = skips + 1
  /\ blocked' = blocked + 1
  /\ Return("failed", Resolved(lastText'), tokens + 1)
  /\ UNCHANGED <<attempt, iteration, said, calls, worked, report>>

\* No tool calls: the answer.
Answer(text) ==
  /\ Receive(text)
  /\ skips' = 0
  /\ blocked' = 0
  /\ Deliver(Resolved(Or(text, Or(lastText', "placeholder"))), tokens + 1)
  /\ UNCHANGED <<attempt, iteration, said, calls, worked, report>>

\* Mutant of AskForTools: the count of moderated responses goes on.
AskForToolsStillCounting(text, n) ==
  /\ Receive(text)
  /\ blocked' = 0
  /\ said' = IF text \in {"stub", "text"} THEN said \cup {text} ELSE said
  /\ calls' = n
  /\ pc' = "tools"
  /\ UNCHANGED <<attempt, iteration, worked, skips, report, total, result>>

AskForTools(text, n) ==
  /\ Receive(text)
  /\ skips' = 0
  /\ blocked' = 0
  /\ said' = IF text \in {"stub", "text"} THEN said \cup {text} ELSE said
  /\ calls' = n
  /\ pc' = "tools"
  /\ UNCHANGED <<attempt, iteration, worked, report, total, result>>

\* One tool call.  Any that is not load_skill and gives no error counts as
\* data work; write_file may leave a report.md, or a blank one, which is none.
RunTool ==
  /\ pc = "tools"
  /\ calls > 0
  /\ calls' = calls - 1
  /\ \/ UNCHANGED <<worked, report>>
     \/ worked' = TRUE /\ UNCHANGED report
     \/ /\ worked' = TRUE
        /\ \/ \E text \in {"stub", "text"} : report' = [says |-> text, by |-> attempt]
           \/ report' = NoReport
  /\ UNCHANGED <<pc, attempt, iteration, lastText, said, skips, tokens, total,
                 result, billed, blocked>>

EndIteration ==
  /\ pc = "tools"
  /\ calls = 0
  /\ pc' = "loop"
  /\ iteration' = iteration + 1
  /\ UNCHANGED <<attempt, lastText, said, calls, worked, skips, tokens, report,
                 total, result, billed, blocked>>

IterationLimit ==
  /\ pc = "loop"
  /\ iteration = MaxIterations
  /\ \E text \in BestSummaries : Deliver(Resolved(text), tokens)
  /\ UNCHANGED <<attempt, attemptVars, report, billed, blocked>>
-----------------------------------------------------------------------------
(***************************************************************************)
(* The loop over the attempts                                              *)
(***************************************************************************)
\* Mutant of Retry: whatever is not a delivery is tried again.
RetryUnlessCompleted ==
  /\ pc = "returned"
  /\ result.status # "completed"
  /\ attempt <= MaxRetries
  /\ attempt' = attempt + 1
  /\ pc' = "start"
  /\ iteration' = 0
  /\ lastText' = "none"
  /\ said' = {}
  /\ calls' = 0
  /\ worked' = FALSE
  /\ skips' = 0
  /\ tokens' = 0
  /\ blocked' = 0
  /\ UNCHANGED <<report, total, result, billed>>

\* Only "failed" is tried again; everything but report.md starts over.
Retry ==
  /\ pc = "returned"
  /\ result.status = "failed"
  /\ attempt <= MaxRetries
  /\ attempt' = attempt + 1
  /\ pc' = "start"
  /\ iteration' = 0
  /\ lastText' = "none"
  /\ said' = {}
  /\ calls' = 0
  /\ worked' = FALSE
  /\ skips' = 0
  /\ tokens' = 0
  /\ blocked' = 0
  /\ UNCHANGED <<report, total, result, billed>>

\* The future is done, with the tokens of all attempts.
Done ==
  /\ pc = "returned"
  /\ result.status # "failed" \/ attempt > MaxRetries
  /\ pc' = "done"
  /\ UNCHANGED <<attempt, attemptVars, report, total, result, billed, blocked>>

Finished == pc \in {"done", "raised"} /\ UNCHANGED vars

Content == {"none", "blank", "stub", "text"}

Next ==
  \/ PromptFails \/ BeginLoop \/ Raises
  \/ TimeOut \/ ContextTooLarge \/ Call
  \/ StreamAgain \/ StreamFails
  \/ \E text \in Content :
       \/ SkipModerated(text) \/ BreakCircuit(text) \/ Answer(text)
       \/ \E n \in 1..MaxCalls : AskForTools(text, n)
  \/ RunTool \/ EndIteration \/ IterationLimit
  \/ Retry \/ Done
  \/ Finished

\* The pool thread is scheduled, and streams and tools come back in the end.
Spec == Init /\ [][Next]_vars /\ WF_vars(Next)
-----------------------------------------------------------------------------
CountsOK ==
  /\ attempt \in 1..(MaxRetries + 1)
  /\ iteration \in 0..MaxIterations
  /\ calls \in 0..MaxCalls
  /\ skips \in 0..MaxSkips
  /\ tokens \in 0..MaxIterations
  /\ total \in Nat
  /\ billed \in Nat
  /\ blocked \in Nat

TextsOK ==
  /\ pc \in {"start", "loop", "stream", "stream again", "tools", "returned",
             "done", "raised"}
  /\ lastText \in {"none", "stub", "text"}
  /\ said \in SUBSET {"stub", "text"}
  /\ worked \in BOOLEAN
  /\ report \in [says : {"none", "stub", "text"}, by : 0..(MaxRetries + 1)]
  /\ result \in [status : Status \cup {"none"}, says : Text,
                 by : 0..(MaxRetries + 1)]

\* The values the variables may have: what is counted and what is said.
TypeOK == CountsOK /\ TextsOK

\* A WorkerResult accounts for every response the provider charged for,
\* whichever attempt it came in and however that attempt ended
\* (runtime.py:624-642).
TokensAreCounted == pc = "done" => total = billed

\* The circuit breaker counts responses moderated in a row, and stops an
\* attempt at the MaxSkips-th: no further call is made after it
\* (worker.py:538-580).
BreakerIsExact ==
  /\ skips = blocked
  /\ pc \in {"loop", "stream", "stream again", "tools"} => blocked < MaxSkips

Contract == INSTANCE WorkerContract WITH
  attempts <- attempt,
  outcome  <- IF pc \in {"returned", "done"} THEN result.status ELSE "running",
  answer   <- IF pc = "done" THEN result.status
              ELSE IF pc = "raised" THEN "raised" ELSE "none"

\* The pool thread keeps the contract the coordinator counts on: an attempt is
\* begun anew only when the last one returned "failed", and the answer is what
\* the last attempt returned (runtime.py:590-643).
ImplementsContract == Contract!Spec

\* With a model and tools that come back, the thread comes back.
WorkerAnswers == <>(pc \in {"done", "raised"})
=============================================================================
