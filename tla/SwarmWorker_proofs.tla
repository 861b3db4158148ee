------------------------- MODULE SwarmWorker_proofs -------------------------
(***************************************************************************)
(* What a pool thread gives back, for every number of attempts, iterations, *)
(* moderated responses and tool calls: every token it was billed for, and   *)
(* an answer that keeps the contract the coordinator counts on.             *)
(***************************************************************************)
EXTENDS SwarmWorker, TLAPS

(***************************************************************************)
(* The inductive invariant                                                 *)
(***************************************************************************)
Asking == {"stream", "stream again"}

\* An attempt has counted one response for each iteration behind it, and in the
\* middle of one the response whose tools are running.
TokensFit ==
  /\ pc = "start" => tokens = 0 /\ iteration = 0 /\ skips = 0
  /\ pc \in Asking \cup {"tools"} => iteration < MaxIterations
  /\ pc \in Asking \cup {"loop"} => tokens = iteration
  /\ pc = "tools" => tokens = iteration + 1

\* What was billed is in the total of the attempts that returned, or counted in
\* the one that is under way.
AllIsCounted ==
  IF pc \in {"returned", "done"} THEN total = billed ELSE total + tokens = billed

\* A thread that has returned has a result; it is done with a failure only when
\* no attempt is left.
ResultsFit ==
  /\ pc \in {"returned", "done"} => result.status \in Status
  /\ pc = "done" => result.status # "failed" \/ attempt > MaxRetries

IInv == TypeOK /\ TokensFit /\ AllIsCounted /\ ResultsFit /\ BreakerIsExact
-----------------------------------------------------------------------------
LEMMA InitIInv == Init => IInv
<1> SUFFICES ASSUME Init PROVE IInv
  OBVIOUS
<1> USE WorkerAssumption DEF Init
<1>1. CountsOK
  BY DEF CountsOK
<1>2. TextsOK
  <2>1. 0 \in 0..(MaxRetries + 1)
    OBVIOUS
  <2> QED
    BY <2>1 DEF TextsOK, NoReport, NoResult, Text
<1>3. TokensFit /\ AllIsCounted /\ ResultsFit
  BY DEF TokensFit, AllIsCounted, ResultsFit, Asking
<1>4. BreakerIsExact
  BY DEF BreakerIsExact
<1> QED
  BY <1>1, <1>2, <1>3, <1>4 DEF IInv, TypeOK

\* The bounds are numbers, and so is what is counted.
LEMMA CountsAreNumbers ==
  ASSUME CountsOK
  PROVE  /\ attempt \in Nat \ {0} /\ iteration \in Nat /\ calls \in Nat
         /\ skips \in Nat /\ tokens \in Nat
         /\ attempt \in 0..(MaxRetries + 1)
         /\ MaxRetries \in Nat /\ MaxIterations \in Nat \ {0}
         /\ MaxSkips \in Nat \ {0} /\ MaxCalls \in Nat \ {0}
<1>1. /\ MaxRetries \in Nat /\ MaxIterations \in Nat \ {0}
      /\ MaxSkips \in Nat \ {0} /\ MaxCalls \in Nat \ {0}
  BY WorkerAssumption
<1> QED
  BY <1>1 DEF CountsOK

\* What the output contract makes of a summary is one of the statuses, and
\* what _resolve_summary returns is a summary of this task.
LEMMA ResolvedIsASummary ==
  ASSUME TypeOK, NEW text \in Text
  PROVE  Resolved(text) \in [says : Text, by : 0..(MaxRetries + 1)]
<1>1. [says |-> text, by |-> attempt] \in [says : Text, by : 0..(MaxRetries + 1)]
  BY CountsAreNumbers DEF TypeOK
<1>2. report \in [says : Text, by : 0..(MaxRetries + 1)]
  BY DEF TypeOK, CountsOK, TextsOK, Text
<1> QED
  BY <1>1, <1>2 DEF Resolved

LEMMA ReturnsAResult ==
  ASSUME TypeOK, NEW status \in Status, NEW counted \in Nat,
         NEW summary \in [says : Text, by : 0..(MaxRetries + 1)],
         Return(status, summary, counted)
  PROVE  /\ pc' = "returned" /\ total' \in Nat /\ total' = total + counted
         /\ result' \in [status : Status \cup {"none"}, says : Text,
                         by : 0..(MaxRetries + 1)]
         /\ result'.status = status
<1>1. summary.says \in Text /\ summary.by \in 0..(MaxRetries + 1)
  OBVIOUS
<1>2. result' = [status |-> status, says |-> summary.says, by |-> summary.by]
  BY DEF Return
<1>3. pc' = "returned" /\ total' = total + counted /\ total \in Nat
  BY DEF Return, TypeOK, CountsOK
<1> QED
  BY <1>1, <1>2, <1>3

LEMMA DeliversAResult ==
  ASSUME TypeOK, NEW counted \in Nat,
         NEW summary \in [says : Text, by : 0..(MaxRetries + 1)],
         Deliver(summary, counted)
  PROVE  /\ pc' = "returned" /\ total' \in Nat /\ total' = total + counted
         /\ result' \in [status : Status \cup {"none"}, says : Text,
                         by : 0..(MaxRetries + 1)]
         /\ result'.status \in Status
<1>1. PICK status \in {"completed", "incomplete"} :
        Return(status, summary, counted)
  BY DEF Deliver
<1>2. status \in Status
  BY DEF Status
<1> QED
  BY <1>1, <1>2, ReturnsAResult

\* An attempt that returns at the head of an iteration, or without a response, has
\* no more to count than it has counted.
LEMMA ReturnKeepsIInv ==
  ASSUME IInv, total' = total + tokens, total' \in Nat, pc' = "returned",
         pc # "returned", pc # "done",
         result' \in [status : Status \cup {"none"}, says : Text,
                      by : 0..(MaxRetries + 1)],
         result'.status \in Status,
         UNCHANGED <<attempt, attemptVars, report, billed, blocked>>
  PROVE  IInv'
<1> USE DEF IInv, attemptVars
<1>1. TypeOK'
  BY DEF TypeOK, CountsOK, TextsOK
<1>2. TokensFit' /\ ResultsFit'
  BY DEF TokensFit, ResultsFit, Asking
<1>3. AllIsCounted'
  BY DEF AllIsCounted
<1>4. BreakerIsExact'
  BY DEF BreakerIsExact
<1> QED
  BY <1>1, <1>2, <1>3, <1>4

\* A response is billed and counted.
LEMMA ReceivedIsCounted ==
  ASSUME IInv, NEW text \in Content, Receive(text)
  PROVE  /\ pc \in Asking
         /\ billed' = billed + 1 /\ billed' \in Nat
         /\ tokens' = tokens + 1 /\ tokens' \in 0..MaxIterations
         /\ lastText' \in {"none", "stub", "text"}
<1>1. pc \in Asking /\ billed' = billed + 1 /\ tokens' = tokens + 1
  BY DEF Receive, Asking
<1>2. lastText' \in {"none", "stub", "text"}
  BY DEF Receive, IInv, TypeOK, CountsOK, TextsOK, Content
<1>3. tokens = iteration /\ iteration < MaxIterations
  BY <1>1 DEF IInv, TokensFit
<1> QED
  BY <1>1, <1>2, <1>3, CountsAreNumbers DEF IInv, TypeOK, CountsOK
-----------------------------------------------------------------------------
LEMMA StepsBefore ==
  IInv /\ (PromptFails \/ BeginLoop \/ Raises) => IInv'
<1> SUFFICES ASSUME IInv, PromptFails \/ BeginLoop \/ Raises PROVE IInv'
  OBVIOUS
<1>1. CASE PromptFails
  <2>1. tokens = 0
    BY <1>1 DEF PromptFails, IInv, TokensFit
  <2>2. [says |-> "none", by |-> attempt] \in [says : Text, by : 0..(MaxRetries + 1)]
    BY CountsAreNumbers DEF IInv, TypeOK, Text
  <2>3. /\ pc' = "returned" /\ total' \in Nat /\ total' = total + 0
        /\ result' \in [status : Status \cup {"none"}, says : Text,
                        by : 0..(MaxRetries + 1)]
        /\ result'.status = "failed"
    BY <1>1, <2>2, ReturnsAResult DEF PromptFails, IInv, Status
  <2> QED
    BY <1>1, <2>1, <2>3, ReturnKeepsIInv DEF PromptFails, Status
<1>2. CASE BeginLoop
  <2> USE <1>2 DEF BeginLoop, IInv, attemptVars
  <2>1. TypeOK'
    BY DEF TypeOK, CountsOK, TextsOK
  <2>2. TokensFit' /\ AllIsCounted' /\ ResultsFit'
    BY DEF TokensFit, AllIsCounted, ResultsFit, Asking
  <2>3. BreakerIsExact'
    BY WorkerAssumption DEF BreakerIsExact, TokensFit
  <2> QED
    BY <2>1, <2>2, <2>3
<1>3. CASE Raises
  <2> USE <1>3 DEF Raises, IInv, attemptVars
  <2>1. TypeOK' /\ BreakerIsExact'
    BY DEF TypeOK, CountsOK, TextsOK, BreakerIsExact
  <2>2. TokensFit' /\ AllIsCounted' /\ ResultsFit'
    BY DEF TokensFit, AllIsCounted, ResultsFit, Asking
  <2> QED
    BY <2>1, <2>2
<1> QED
  BY <1>1, <1>2, <1>3

\* The head of an iteration, and a request that comes back without a response.
LEMMA StepsWithoutResponse ==
  IInv /\ (TimeOut \/ ContextTooLarge \/ Call \/ StreamAgain \/ StreamFails
             \/ IterationLimit) => IInv'
<1> SUFFICES ASSUME IInv,
                    TimeOut \/ ContextTooLarge \/ Call \/ StreamAgain
                      \/ StreamFails \/ IterationLimit
             PROVE  IInv'
  OBVIOUS
<1>1. TypeOK /\ tokens \in Nat
  BY CountsAreNumbers DEF IInv, TypeOK
<1>2. /\ lastText \in Text /\ Or(lastText, "placeholder") \in Text
      /\ BestSummaries \subseteq Text
  BY <1>1 DEF TypeOK, CountsOK, TextsOK, Text, Or, BestSummaries
<1>3. CASE TimeOut
  <2>1. PICK text \in BestSummaries : Return("timeout", Resolved(text), tokens)
    BY <1>3 DEF TimeOut
  <2>2. Resolved(text) \in [says : Text, by : 0..(MaxRetries + 1)]
    BY <1>1, <1>2, ResolvedIsASummary
  <2> QED
    BY <1>1, <1>3, <2>1, <2>2, ReturnsAResult, ReturnKeepsIInv
       DEF TimeOut, InLoop, Status
<1>4. CASE ContextTooLarge
  <2>1. Resolved(Or(lastText, "placeholder"))
          \in [says : Text, by : 0..(MaxRetries + 1)]
    BY <1>1, <1>2, ResolvedIsASummary
  <2> QED
    BY <1>1, <1>4, <2>1, ReturnsAResult, ReturnKeepsIInv
       DEF ContextTooLarge, InLoop, Status
<1>5. CASE StreamFails
  <2>1. Resolved(lastText) \in [says : Text, by : 0..(MaxRetries + 1)]
    BY <1>1, <1>2, ResolvedIsASummary
  <2> QED
    BY <1>1, <1>5, <2>1, ReturnsAResult, ReturnKeepsIInv
       DEF StreamFails, Status
<1>6. CASE IterationLimit
  <2>1. PICK text \in BestSummaries : Deliver(Resolved(text), tokens)
    BY <1>6 DEF IterationLimit
  <2>2. Resolved(text) \in [says : Text, by : 0..(MaxRetries + 1)]
    BY <1>1, <1>2, ResolvedIsASummary
  <2> QED
    BY <1>1, <1>6, <2>1, <2>2, DeliversAResult, ReturnKeepsIInv
       DEF IterationLimit
<1>7. CASE Call \/ StreamAgain
  <2> USE <1>7 DEF Call, InLoop, StreamAgain, IInv, attemptVars
  <2>1. TypeOK' /\ BreakerIsExact'
    BY DEF TypeOK, CountsOK, TextsOK, BreakerIsExact
  <2>2. TokensFit' /\ AllIsCounted' /\ ResultsFit'
    BY DEF TokensFit, AllIsCounted, ResultsFit, Asking
  <2> QED
    BY <2>1, <2>2
<1> QED
  BY <1>3, <1>4, <1>5, <1>6, <1>7

LEMMA StepsOnResponse ==
  ASSUME IInv, NEW text \in Content,
         \/ SkipModerated(text) \/ BreakCircuit(text) \/ Answer(text)
         \/ \E n \in 1..MaxCalls : AskForTools(text, n)
  PROVE  IInv'
<1>1. /\ Receive(text)
      /\ pc \in Asking /\ billed' = billed + 1 /\ billed' \in Nat
      /\ tokens' = tokens + 1 /\ tokens' \in 0..MaxIterations
      /\ lastText' \in {"none", "stub", "text"}
  <2>1. Receive(text)
    BY DEF SkipModerated, BreakCircuit, Answer, AskForTools
  <2> QED
    BY <2>1, ReceivedIsCounted
<1>2. /\ TypeOK /\ iteration \in Nat /\ skips \in Nat /\ tokens \in Nat
      /\ MaxIterations \in Nat \ {0} /\ MaxSkips \in Nat \ {0}
      /\ attempt \in 0..(MaxRetries + 1)
      /\ total \in Nat /\ blocked \in Nat
  BY CountsAreNumbers DEF IInv, TypeOK, CountsOK
<1>n. /\ total + tokens = billed
      /\ tokens = iteration /\ iteration < MaxIterations
      /\ skips = blocked /\ skips < MaxSkips
  BY <1>1 DEF IInv, AllIsCounted, TokensFit, BreakerIsExact, Asking
<1>3. ASSUME pc' = "returned", total' = total + (tokens + 1), total' \in Nat,
             result' \in [status : Status \cup {"none"}, says : Text,
                          by : 0..(MaxRetries + 1)],
             result'.status \in Status,
             skips' \in 0..MaxSkips, blocked' \in Nat, skips' = blocked',
             UNCHANGED <<attempt, iteration, said, calls, worked, report>>
      PROVE  IInv'
  <2>1. TypeOK'
    BY <1>1, <1>2, <1>3 DEF TypeOK, CountsOK, TextsOK
  <2>2. TokensFit' /\ ResultsFit' /\ BreakerIsExact'
    BY <1>3 DEF TokensFit, ResultsFit, BreakerIsExact, Asking
  <2>3. AllIsCounted'
    BY <1>1, <1>2, <1>n, <1>3 DEF AllIsCounted
  <2> QED
    BY <2>1, <2>2, <2>3 DEF IInv
<1>4. CASE SkipModerated(text)
  <2> USE <1>1, <1>2, <1>n, <1>4 DEF SkipModerated
  <2>1. CountsOK'
    BY DEF TypeOK, CountsOK
  <2>2. TextsOK'
    BY DEF TypeOK, TextsOK
  <2>3. pc' = "loop" /\ total' = total /\ tokens' = iteration'
    OBVIOUS
  <2>4. TokensFit' /\ ResultsFit'
    BY <2>3 DEF TokensFit, ResultsFit, Asking
  <2>5. AllIsCounted'
    BY <2>3 DEF AllIsCounted
  <2>6. BreakerIsExact'
    BY <2>3 DEF BreakerIsExact
  <2> QED
    BY <2>1, <2>2, <2>4, <2>5, <2>6 DEF IInv, TypeOK
<1>5. CASE BreakCircuit(text)
  <2>1. Resolved(lastText') \in [says : Text, by : 0..(MaxRetries + 1)]
    BY <1>1, <1>2, ResolvedIsASummary DEF Text
  <2>2. Return("failed", Resolved(lastText'), tokens + 1)
    BY <1>5 DEF BreakCircuit
  <2>3. /\ pc' = "returned" /\ total' \in Nat /\ total' = total + (tokens + 1)
        /\ result' \in [status : Status \cup {"none"}, says : Text,
                        by : 0..(MaxRetries + 1)]
        /\ result'.status \in Status
    BY <1>2, <2>1, <2>2, ReturnsAResult DEF Status
  <2>4. /\ skips' \in 0..MaxSkips /\ blocked' \in Nat /\ skips' = blocked'
        /\ UNCHANGED <<attempt, iteration, said, calls, worked, report>>
    BY <1>2, <1>n, <1>5 DEF BreakCircuit
  <2> QED
    BY <1>3, <2>3, <2>4
<1>6. CASE Answer(text)
  <2>1. Or(text, Or(lastText', "placeholder")) \in Text
    BY <1>1 DEF Text, Or, Content
  <2>2. Resolved(Or(text, Or(lastText', "placeholder")))
          \in [says : Text, by : 0..(MaxRetries + 1)]
    BY <1>2, <2>1, ResolvedIsASummary
  <2>3. Deliver(Resolved(Or(text, Or(lastText', "placeholder"))), tokens + 1)
    BY <1>6 DEF Answer
  <2>4. /\ pc' = "returned" /\ total' \in Nat /\ total' = total + (tokens + 1)
        /\ result' \in [status : Status \cup {"none"}, says : Text,
                        by : 0..(MaxRetries + 1)]
        /\ result'.status \in Status
    BY <1>2, <2>2, <2>3, DeliversAResult
  <2>5. /\ skips' \in 0..MaxSkips /\ blocked' \in Nat /\ skips' = blocked'
        /\ UNCHANGED <<attempt, iteration, said, calls, worked, report>>
    BY <1>2, <1>6 DEF Answer
  <2> QED
    BY <1>3, <2>4, <2>5
<1>7. CASE \E n \in 1..MaxCalls : AskForTools(text, n)
  <2>1. PICK n \in 1..MaxCalls : AskForTools(text, n)
    BY <1>7
  <2> USE <1>1, <1>2, <1>n, <2>1 DEF AskForTools
  <2>2. n \in 0..MaxCalls
    OBVIOUS
  <2>3. CountsOK'
    BY <2>2 DEF TypeOK, CountsOK
  <2>4. said' \in SUBSET {"stub", "text"}
    BY DEF TypeOK, TextsOK
  <2>5. TextsOK'
    BY <2>4 DEF TypeOK, TextsOK
  <2>6. pc' = "tools" /\ total' = total /\ tokens' = iteration' + 1
    OBVIOUS
  <2>7. TokensFit' /\ ResultsFit'
    BY <2>6 DEF TokensFit, ResultsFit, Asking
  <2>8. AllIsCounted'
    BY <2>6 DEF AllIsCounted
  <2>9. BreakerIsExact'
    BY <2>6 DEF BreakerIsExact
  <2> QED
    BY <2>3, <2>5, <2>7, <2>8, <2>9 DEF IInv, TypeOK
<1> QED
  BY <1>4, <1>5, <1>6, <1>7

LEMMA StepsAfter ==
  IInv /\ (RunTool \/ EndIteration \/ Retry \/ Done) => IInv'
<1> SUFFICES ASSUME IInv, RunTool \/ EndIteration \/ Retry \/ Done PROVE IInv'
  OBVIOUS
<1> USE DEF IInv, attemptVars
<1>n. /\ attempt \in Nat \ {0} /\ iteration \in Nat /\ calls \in Nat
      /\ skips \in Nat /\ tokens \in Nat
      /\ attempt \in 0..(MaxRetries + 1)
      /\ MaxRetries \in Nat /\ MaxIterations \in Nat \ {0}
      /\ MaxSkips \in Nat \ {0} /\ MaxCalls \in Nat \ {0}
  BY CountsAreNumbers DEF TypeOK
<1>1. CASE RunTool
  <2> USE <1>1 DEF RunTool
  <2>1. report' \in [says : {"none", "stub", "text"}, by : 0..(MaxRetries + 1)]
    BY <1>n DEF TypeOK, TextsOK, NoReport
  <2>2. CountsOK'
    BY <1>n DEF TypeOK, CountsOK
  <2>3. worked' \in BOOLEAN
    BY DEF TypeOK, TextsOK
  <2>4. TextsOK'
    BY <2>1, <2>3 DEF TypeOK, TextsOK
  <2>5. TokensFit' /\ AllIsCounted' /\ ResultsFit' /\ BreakerIsExact'
    BY DEF TokensFit, AllIsCounted, ResultsFit, BreakerIsExact, Asking
  <2> QED
    BY <2>2, <2>4, <2>5 DEF TypeOK
<1>2. CASE EndIteration
  <2> USE <1>2, <1>n DEF EndIteration
  <2>1. TypeOK'
    BY DEF TypeOK, CountsOK, TextsOK, TokensFit
  <2>2. TokensFit' /\ AllIsCounted' /\ ResultsFit' /\ BreakerIsExact'
    BY DEF TokensFit, AllIsCounted, ResultsFit, BreakerIsExact, Asking, TypeOK,
           CountsOK, TextsOK
  <2> QED
    BY <2>1, <2>2
<1>3. CASE Retry
  <2> USE <1>3, <1>n DEF Retry
  <2>1. CountsOK'
    BY DEF TypeOK, CountsOK
  <2>t. TextsOK'
    BY DEF TypeOK, TextsOK
  <2>2. TokensFit' /\ AllIsCounted' /\ ResultsFit' /\ BreakerIsExact'
    BY DEF TokensFit, AllIsCounted, ResultsFit, BreakerIsExact, Asking, TypeOK,
           CountsOK, TextsOK
  <2> QED
    BY <2>1, <2>t, <2>2 DEF TypeOK
<1>4. CASE Done
  <2> USE <1>4 DEF Done
  <2>1. TypeOK' /\ BreakerIsExact'
    BY DEF TypeOK, CountsOK, TextsOK, BreakerIsExact
  <2>2. TokensFit' /\ AllIsCounted' /\ ResultsFit'
    BY DEF TokensFit, AllIsCounted, ResultsFit, Asking
  <2> QED
    BY <2>1, <2>2
<1> QED
  BY <1>1, <1>2, <1>3, <1>4

LEMMA NextKeepsIInv == IInv /\ [Next]_vars => IInv'
<1> SUFFICES ASSUME IInv, [Next]_vars PROVE IInv'
  OBVIOUS
<1>1. CASE UNCHANGED vars
  BY <1>1 DEF IInv, TypeOK, CountsOK, TextsOK, TokensFit, AllIsCounted, ResultsFit,
              BreakerIsExact, vars, attemptVars
<1>2. CASE Finished
  BY <1>1, <1>2 DEF Finished
<1> QED
  BY <1>1, <1>2, StepsBefore, StepsWithoutResponse, StepsOnResponse, StepsAfter
     DEF Next
-----------------------------------------------------------------------------
(***************************************************************************)
(* Theorems                                                                *)
(***************************************************************************)
\* The invariant of a pool thread holds in every state of every run.
THEOREM WorkerInvariant == Spec => []IInv
  BY InitIInv, NextKeepsIInv, PTL DEF Spec

\* The future of a task holds all tokens that were billed, whatever its attempts
\* came to (runtime.py:624-642).
THEOREM AllTokensAreCounted == Spec => []TokensAreCounted
<1>1. IInv => TokensAreCounted
  BY DEF IInv, AllIsCounted, TokensAreCounted
<1> QED
  BY WorkerInvariant, <1>1, PTL

\* The circuit breaker counts moderated responses in a row, and stops the attempt
\* at the last it allows (worker.py:538-580).
THEOREM BreakerCountsExactly == Spec => []BreakerIsExact
<1>1. IInv => BreakerIsExact
  BY DEF IInv
<1> QED
  BY WorkerInvariant, <1>1, PTL

\* An attempt that returns is the end of an attempt to the coordinator.
LEMMA ReturnEndsTheAttempt ==
  ASSUME pc \notin {"returned", "done", "raised"}, pc' = "returned",
         result'.status \in Status, attempt' = attempt
  PROVE  Contract!AttemptEnds
  BY DEF Contract!AttemptEnds, Contract!Status, Status

\* What the coordinator sees of a pool thread is what WorkerContract allows: an
\* attempt that ends, a new one only after a failure and while one is left, and one
\* answer, what the last attempt came to (runtime.py:590-643).
THEOREM WorkerKeepsItsContract == Spec => ImplementsContract
<1>1. Init => Contract!Init
  BY DEF Init, Contract!Init
<1>2. IInv /\ [Next]_vars => [Contract!Next]_(Contract!vars)
  <2> SUFFICES ASSUME IInv, [Next]_vars
               PROVE  Contract!Next \/ UNCHANGED Contract!vars
    OBVIOUS
  <2>i. IInv'
    BY NextKeepsIInv
  <2>r. pc' = "returned" => result'.status \in Status
    BY <2>i DEF IInv, ResultsFit
  <2>1. CASE PromptFails \/ TimeOut \/ ContextTooLarge \/ StreamFails
               \/ IterationLimit
    <3>1. pc \notin {"returned", "done", "raised"} /\ pc' = "returned"
      BY <2>1 DEF PromptFails, TimeOut, ContextTooLarge, StreamFails, InLoop,
                  IterationLimit, Deliver, Return
    <3>2. attempt' = attempt
      BY <2>1 DEF PromptFails, TimeOut, ContextTooLarge, StreamFails,
                  IterationLimit
    <3> QED
      BY <2>r, <3>1, <3>2, ReturnEndsTheAttempt DEF Contract!Next
  <2>2. CASE BeginLoop \/ Call \/ StreamAgain \/ RunTool \/ EndIteration
               \/ \E text \in Content :
                    \/ SkipModerated(text)
                    \/ \E n \in 1..MaxCalls : AskForTools(text, n)
    BY <2>2 DEF BeginLoop, Call, StreamAgain, RunTool, EndIteration, InLoop,
                SkipModerated, AskForTools, Receive, Contract!vars
  <2>3. CASE \E text \in Content : BreakCircuit(text) \/ Answer(text)
    <3>1. pc \notin {"returned", "done", "raised"} /\ pc' = "returned"
      BY <2>3 DEF BreakCircuit, Answer, Receive, Deliver, Return
    <3>2. attempt' = attempt
      BY <2>3 DEF BreakCircuit, Answer
    <3> QED
      BY <2>r, <3>1, <3>2, ReturnEndsTheAttempt DEF Contract!Next
  <2>4. CASE Raises
    BY <2>4 DEF Raises, Contract!Next, Contract!Raise
  <2>5. CASE Retry
    BY <2>5 DEF Retry, Contract!Next, Contract!Retry
  <2>6. CASE Done
    <3>1. /\ attempt' = attempt /\ result' = result
          /\ result.status \in Status
          /\ result.status # "failed" \/ attempt > MaxRetries
      BY <2>6 DEF Done, IInv, ResultsFit
    <3>2. Contract!Return
      BY <2>6, <3>1 DEF Done, Contract!Return, Contract!Status, Status
    <3> QED
      BY <3>2 DEF Contract!Next
  <2>7. CASE Finished \/ UNCHANGED vars
    BY <2>7 DEF Finished, vars, Contract!vars
  <2> QED
    BY <2>1, <2>2, <2>3, <2>4, <2>5, <2>6, <2>7 DEF Next
<1> QED
  BY WorkerInvariant, <1>1, <1>2, PTL DEF Spec, ImplementsContract, Contract!Spec
=============================================================================
