------------------------------ MODULE ToolBatch ------------------------------
(***************************************************************************)
(* What AgentLoop does with the tool calls of one model response, turn     *)
(* after turn (agent/loop.py:1280-1893): plan the calls, run neighbouring  *)
(* read-only ones in parallel and writes one by one, give up on a          *)
(* read-only tool that hangs, and append one result message per call.      *)
(*                                                                         *)
(* The processes are the loop's thread (pc), the threads the tools run in  *)
(* and whoever calls cancel().  The progress and heartbeat events of the    *)
(* calls reach only the display and are left out.                          *)
(***************************************************************************)
EXTENDS GroundingLedger, FiniteSets, SequencesExt

CONSTANTS
  Call,        \* the calls a response may contain, as records of
               \*   tool, symbols (it names) and query (of the resolver)
  ReadOnly,    \* tools with is_readonly
  Repeatable,  \* tools with repeatable
  PoolSize,    \* threads of _execute_parallel, 8 in the code
  MaxCalls,    \* bound on the calls of a response
  MaxTurns     \* bound on the turns

\* The tools the loop knows by name.
Resolver == "search"
SkillTool == "load_skill"
Compact == "compact"

ASSUME CallAssumption ==
  \A c \in Call : /\ c.symbols \subseteq Symbol
                  /\ c.tool = Resolver => c.query \in Query
ASSUME BatchBounds ==
  /\ PoolSize \in Nat \ {0} /\ MaxCalls \in Nat \ {0} /\ MaxTurns \in Nat

VARIABLES
  pc,        \* where the loop's thread is
  turn,      \* turns so far
  cancel,    \* _cancel_event
  calledOk,  \* _called_ok
  calls,     \* the calls of the response
  frozen,    \* batch_authorized_symbols and batch_identity_status
  plan,      \* execution_plan: the calls by index, blocked or not
  at,        \* the next call to plan, then the next entry of the plan
  batch,     \* the entries of the plan that are being executed
  run,       \* state of the thread that runs the tool of a call
  result,    \* what the caller of _invoke_tool gets
  answers    \* the result messages of this turn, as indices of calls

turnVars  == <<calls, frozen, plan, at>>
toolVars  == <<batch, run, result>>
vars == <<pc, turn, cancel, calledOk, turnVars, toolVars, answers, ledgerVars>>

InitBatch ==
  /\ InitLedger
  /\ pc = "idle"
  /\ turn = 0
  /\ cancel = FALSE
  /\ calledOk = {}
  /\ calls = <<>>
  /\ frozen = [symbols |-> {}, status |-> "not_required"]
  /\ plan = <<>>
  /\ at = 1
  /\ batch = {}
  /\ run = [i \in 1..MaxCalls |-> "none"]
  /\ result = [i \in 1..MaxCalls |-> "none"]
  /\ answers = <<>>
-----------------------------------------------------------------------------
(***************************************************************************)
(* _process_tool_calls: planning                                           *)
(***************************************************************************)
\* The model answers with tool calls; the ledger is frozen for all of them.
\* Threads of earlier turns that still hang are forgotten here: nothing they do
\* reaches the loop.
StartTurn ==
  /\ pc = "idle"
  /\ ~cancel
  /\ turn < MaxTurns
  /\ turn' = turn + 1
  /\ pc' = "called"
  /\ calls' \in BoundedSeq(Call, MaxCalls) \ {<<>>}
  /\ frozen' = [symbols |-> AuthorizedSymbols, status |-> IdentityStatus]
  /\ plan' = <<>>
  /\ at' = 1
  /\ batch' = {}
  /\ run' = [i \in 1..MaxCalls |-> "none"]
  /\ result' = [i \in 1..MaxCalls |-> "none"]
  /\ answers' = <<>>
  /\ UNCHANGED <<cancel, calledOk, ledgerVars>>

\* Cancelled before any tool ran: the calls stay without results, and so does
\* the run, which ends at the head of the loop.
SkipAll ==
  /\ pc = "called"
  /\ cancel
  /\ pc' = "idle"
  /\ UNCHANGED <<turn, cancel, calledOk, turnVars, toolVars, answers,
                 ledgerVars>>

StartPlanning ==
  /\ pc = "called"
  /\ ~cancel
  /\ pc' = "plan"
  /\ UNCHANGED <<turn, cancel, calledOk, turnVars, toolVars, answers,
                 ledgerVars>>

\* Planning goes on with the next call; after the last one the plan is run.
NextCall ==
  /\ IF at < Len(calls) THEN at' = at + 1 /\ UNCHANGED pc
     ELSE at' = 1 /\ pc' = "run"
  /\ UNCHANGED <<turn, cancel, calledOk, calls, frozen, toolVars>>

IsDuplicate(c) == c.tool \in calledOk \ Repeatable

\* Mutant of AnswerAtOnce: a skipped call is planned all the same.
AnswerAtOnceAndPlan ==
  /\ pc = "plan"
  /\ calls[at].tool = Compact \/ IsDuplicate(calls[at])
  /\ answers' = Append(answers, at)
  /\ plan' = Append(plan, [call |-> at, blocked |-> FALSE])
  /\ NextCall
  /\ UNCHANGED ledgerVars

\* compact, and a tool that succeeded in an earlier turn and is not repeatable,
\* are answered on the spot.
AnswerAtOnce ==
  /\ pc = "plan"
  /\ calls[at].tool = Compact \/ IsDuplicate(calls[at])
  /\ answers' = Append(answers, at)
  /\ NextCall
  /\ UNCHANGED <<plan, ledgerVars>>

FrozenLocked == frozen.status = "locked" /\ frozen.symbols # {}

\* Mutant of Allowed: any locked identity will do.
AllowedIfLocked(c) ==
  IF c.tool = SkillTool /\ required THEN FrozenLocked
  ELSE c.symbols # {} => FrozenLocked

\* authorize_tool_call: names must have been locked before this turn.
Allowed(c) ==
  IF c.tool = SkillTool /\ required THEN FrozenLocked
  ELSE c.symbols # {} => FrozenLocked /\ c.symbols \subseteq frozen.symbols

\* The ledger's side of authorize_tool_call.
Authorize(c) ==
  IF c.tool = Resolver THEN BeginResolution(c.query)
  ELSE /\ required' = (required \/ (c.tool # SkillTool /\ c.symbols # {}))
       /\ UNCHANGED <<named, identity>>

PlanCall ==
  /\ pc = "plan"
  /\ LET c == calls[at]
     IN /\ c.tool # Compact /\ ~IsDuplicate(c)
        /\ Authorize(c)
        /\ plan' = Append(plan, [call |-> at,
                                 blocked |-> c.tool # Resolver /\ ~Allowed(c)])
  /\ NextCall
  /\ UNCHANGED answers
-----------------------------------------------------------------------------
(***************************************************************************)
(* Running the plan: segments, batches                                     *)
(***************************************************************************)
CallAt(i) == calls[plan[i].call]
IsReadOnly(i) == CallAt(i).tool \in ReadOnly

\* The entries from i on up to the next blocked one (authorized_segment).
SegmentFrom(i) ==
  {j \in i..Len(plan) : \A k \in i..j : ~plan[k].blocked}

\* The whole segment i belongs to.
SegmentOf(i) ==
  {j \in DOMAIN plan : \A k \in (i..j) \cup (j..i) : ~plan[k].blocked}

\* Mutant of BatchFrom: a write ends a batch instead of having one to itself.
BatchFromThroughWrite(i) ==
  {j \in SegmentFrom(i) : \A k \in i..(j - 1) : IsReadOnly(k)}

\* Neighbouring read-only calls form a batch; a write is one by itself.
BatchFrom(i) ==
  IF IsReadOnly(i) THEN {j \in SegmentFrom(i) : \A k \in i..j : IsReadOnly(k)}
  ELSE {i}

\* Between batches of a segment the cancel event is looked at; a segment of one
\* call goes straight to _execute_single and is not held up.
CutShort == cancel /\ Cardinality(SegmentOf(at)) > 1

RecordBlocked ==
  /\ pc = "run"
  /\ at <= Len(plan)
  /\ batch = {}
  /\ plan[at].blocked
  /\ answers' = Append(answers, plan[at].call)
  /\ at' = at + 1
  /\ UNCHANGED <<pc, turn, cancel, calledOk, calls, frozen, plan, toolVars,
                 ledgerVars>>

\* The rest of the segment is not executed and not answered.
LeaveSegment ==
  /\ pc = "run"
  /\ at <= Len(plan)
  /\ batch = {}
  /\ ~plan[at].blocked
  /\ CutShort
  /\ at' = at + Cardinality(SegmentFrom(at))
  /\ UNCHANGED <<pc, turn, cancel, calledOk, calls, frozen, plan, toolVars,
                 answers, ledgerVars>>

\* _execute_single: a lone call needs no pool.
Alone(b, i) == b = {i}

\* All calls of the batch are submitted.
StartBatch ==
  /\ pc = "run"
  /\ at <= Len(plan)
  /\ batch = {}
  /\ ~plan[at].blocked
  /\ ~CutShort
  /\ batch' = BatchFrom(at)
  /\ run' = [i \in 1..MaxCalls |->
               IF i \notin batch' THEN run[i]
               ELSE IF Alone(batch', i) THEN "running" ELSE "queued"]
  /\ UNCHANGED <<pc, turn, cancel, calledOk, turnVars, result, answers,
                 ledgerVars>>

EndTurn ==
  /\ pc = "run"
  /\ at > Len(plan)
  /\ pc' = "idle"
  /\ UNCHANGED <<turn, cancel, calledOk, turnVars, toolVars, answers,
                 ledgerVars>>

\* The loop's head: cancelled, out of iterations, or the model answered in text.
StopLoop ==
  /\ pc = "idle"
  /\ pc' = "end"
  /\ UNCHANGED <<turn, cancel, calledOk, turnVars, toolVars, answers,
                 ledgerVars>>
-----------------------------------------------------------------------------
(***************************************************************************)
(* _invoke_tool: the threads of the calls                                  *)
(***************************************************************************)
Active(i) == run[i] \in {"queued", "running"}

StartInPool(i) ==
  /\ run[i] = "queued"
  /\ Cardinality({j \in batch : run[j] = "running"}) < PoolSize
  /\ run' = [run EXCEPT ![i] = "running"]
  /\ UNCHANGED <<pc, turn, cancel, calledOk, turnVars, batch, result, answers,
                 ledgerVars>>

\* The tool returns; registry.execute has made an error result of whatever it
\* raised.
ToolReturns(i, r) ==
  /\ run[i] = "running"
  /\ run' = [run EXCEPT ![i] = "done"]
  /\ result' = [result EXCEPT ![i] = r]
  /\ UNCHANGED <<pc, turn, cancel, calledOk, turnVars, batch, answers,
                 ledgerVars>>

\* Mutant of ToolHangs: the timeout is only armed when the call is alone.
ToolHangsAlone(i) ==
  /\ run[i] = "running"
  /\ IsReadOnly(i)
  /\ batch = {i}
  /\ run' = [run EXCEPT ![i] = "left"]
  /\ result' = [result EXCEPT ![i] = "error"]
  /\ UNCHANGED <<pc, turn, cancel, calledOk, turnVars, batch, answers,
                 ledgerVars>>

\* The timeout of a read-only tool expires before its result is in the queue:
\* the caller goes on with an error, the thread is left to itself.  A write is
\* waited for however long it takes.
ToolHangs(i) ==
  /\ run[i] = "running"
  /\ IsReadOnly(i)
  /\ run' = [run EXCEPT ![i] = "left"]
  /\ result' = [result EXCEPT ![i] = "error"]
  /\ UNCHANGED <<pc, turn, cancel, calledOk, turnVars, batch, answers,
                 ledgerVars>>

\* _execute_parallel has waited for all results.
AllThere == batch # {} /\ \A i \in batch : ~Active(i)

\* ingest_tool_result as far as the identity is concerned.
IngestResult(i) ==
  LET c == CallAt(i)
  IN IF c.tool # Resolver THEN UNCHANGED ledgerVars
     ELSE IF result[i] = "ok" THEN Ingest ELSE FailResolution(c.query)

\* _finalize_tool_result, in the order of the calls.
Finalize ==
  /\ pc = "run"
  /\ AllThere
  /\ at \in batch
  /\ calledOk' = IF result[at] = "ok" THEN calledOk \cup {CallAt(at).tool}
                 ELSE calledOk
  /\ IngestResult(at)
  /\ answers' = Append(answers, plan[at].call)
  /\ batch' = batch \ {at}
  /\ at' = at + 1
  /\ UNCHANGED <<pc, turn, cancel, calls, frozen, plan, run, result>>

Cancel ==
  /\ pc # "end"
  /\ ~cancel
  /\ cancel' = TRUE
  /\ UNCHANGED <<pc, turn, calledOk, turnVars, toolVars, answers, ledgerVars>>

Loop ==
  \/ StartTurn \/ SkipAll \/ StartPlanning \/ AnswerAtOnce \/ PlanCall
  \/ RecordBlocked \/ LeaveSegment \/ StartBatch \/ Finalize \/ EndTurn
  \/ StopLoop

Thread(i) ==
  \/ StartInPool(i)
  \/ \E r \in {"ok", "error"} : ToolReturns(i, r)

Finished == pc = "end" /\ UNCHANGED vars

NextBatch ==
  \/ Loop
  \/ \E i \in DOMAIN plan : Thread(i) \/ ToolHangs(i)
  \/ Cancel
  \/ Finished

\* The loop's thread runs, the pool starts what it holds, timeouts expire, a
\* write comes back in the end; nothing is assumed of a read-only tool.
FairBatch ==
  /\ WF_vars(Loop)
  /\ \A i \in 1..MaxCalls :
       /\ WF_vars(i \in DOMAIN plan /\ StartInPool(i))
       /\ WF_vars(i \in DOMAIN plan /\ ToolHangs(i))
       /\ WF_vars(i \in DOMAIN plan /\ ~IsReadOnly(i)
                    /\ \E r \in {"ok", "error"} : ToolReturns(i, r))

SpecBatch == InitBatch /\ [][NextBatch]_vars /\ FairBatch
-----------------------------------------------------------------------------
TypeOK ==
  /\ TypeOKLedger
  /\ pc \in {"idle", "called", "plan", "run", "end"}
  /\ turn \in 0..MaxTurns
  /\ cancel \in BOOLEAN
  /\ calledOk \subseteq {c.tool : c \in Call}
  /\ calls \in BoundedSeq(Call, MaxCalls)
  /\ frozen.symbols \subseteq Symbol
  /\ plan \in BoundedSeq([call : 1..MaxCalls, blocked : BOOLEAN], MaxCalls)
  /\ at \in 1..(MaxCalls + 1)
  /\ batch \subseteq DOMAIN plan
  /\ run \in [1..MaxCalls -> {"none", "queued", "running", "done", "left"}]
  /\ result \in [1..MaxCalls -> {"none", "ok", "error"}]
  /\ answers \in BoundedSeq(1..MaxCalls, MaxCalls)

\* Every call of a response is answered by exactly one message before the model
\* is asked again, whatever was skipped, blocked, timed out or failed; only a
\* cancelled run leaves calls open, and even it answers none twice
\* (loop.py:1320-1411, 1510-1525).
CallsAreAnswered ==
  /\ IsInjective(answers)
  /\ pc = "idle" /\ ~cancel => Len(answers) = Len(calls)

\* While a write runs, no other call of the turn is running or about to, except
\* read-only ones that were given up.
WritesRunAlone ==
  \A i \in DOMAIN plan :
    run[i] = "running" /\ ~IsReadOnly(i) =>
      \A j \in DOMAIN plan \ {i} : ~Active(j)

\* A tool is never started with a name that was not locked when the response
\* came in, and not as long as any identity was in doubt then
\* (grounding.py:6-7).
ConsumersUseLockedSymbols ==
  \A i \in DOMAIN plan :
    (/\ run[i] # "none"
     /\ CallAt(i).symbols # {}
     /\ CallAt(i).tool \notin {Resolver, SkillTool})
    => frozen.status = "locked" /\ CallAt(i).symbols \subseteq frozen.symbols

\* Every turn comes to an end, even if every read-only tool hangs for ever.
TurnsEnd == pc = "called" ~> pc \in {"idle", "end"}
=============================================================================
