-------------------------- MODULE ToolBatch_proofs --------------------------
(***************************************************************************)
(* What tool calls may do, for every set of calls, tools, codes and        *)
(* queries, every number of turns and pool threads, and however the        *)
(* threads, the timeouts and the cancellation interleave: the codes the    *)
(* resolver locked agree, no tool is started with another code, and a      *)
(* write has the turn to itself.                                           *)
(***************************************************************************)
EXTENDS ToolBatch, FiniteSetTheorems, SequenceTheorems, TLAPS

(***************************************************************************)
(* The ledger                                                              *)
(***************************************************************************)
LedgerInv == TypeOKLedger /\ LockedSymbolsAgree

LEMMA InitLedgerInv == InitBatch => LedgerInv
BY DEF InitBatch, InitLedger, SeedSymbols, LedgerInv, TypeOKLedger, LockedSymbolsAgree,
       Record, RecordStatus, Unlocked, Resolved, AuthorizedSymbols

\* Replacing the record of a query by one that is not locked forgets a code.
LEMMA UnlockingKeepsLedgerInv ==
  ASSUME LedgerInv, NEW q, NEW status \in RecordStatus \ {"locked"},
         identity' = [identity EXCEPT ![q] = Unlocked(status)],
         required' \in BOOLEAN, UNCHANGED named
  PROVE  LedgerInv'
<1>1. TypeOKLedger'
  BY DEF LedgerInv, TypeOKLedger, Record, Unlocked
<1>2. Resolved' \subseteq Resolved
  BY DEF Resolved, LedgerInv, TypeOKLedger, Record, Unlocked
<1>3. AuthorizedSymbols' \subseteq AuthorizedSymbols
  BY <1>2 DEF AuthorizedSymbols
<1> QED
  BY <1>1, <1>2, <1>3 DEF LedgerInv, LockedSymbolsAgree

\* Locking s adds s, and only when nothing locked is an alias of it.
LEMMA LockingKeepsLedgerInv ==
  ASSUME LedgerInv, NEW q \in Query, NEW s \in Symbol,
         identity' = [identity EXCEPT ![q] = Lock(q, s)],
         UNCHANGED <<named, required>>
  PROVE  LedgerInv'
<1>1. CASE Lock(q, s) = Unlocked("conflicting")
  BY <1>1, UnlockingKeepsLedgerInv DEF RecordStatus, LedgerInv, TypeOKLedger
<1>2. CASE Lock(q, s) = LockedTo(s) /\ ~IsAliasOfLocked(s)
  <2>1. TypeOKLedger'
    BY <1>2 DEF LedgerInv, TypeOKLedger, Record, RecordStatus, LockedTo
  <2>2. Resolved' \subseteq Resolved \cup {s}
    BY <1>2 DEF Resolved, LedgerInv, TypeOKLedger, Record, LockedTo
  <2>3. AuthorizedSymbols' \subseteq AuthorizedSymbols \cup {s}
    BY <2>2 DEF AuthorizedSymbols
  <2>4. Resolved \subseteq AuthorizedSymbols
    BY DEF AuthorizedSymbols
  <2>5. LockedSymbolsAgree'
    BY <1>2, <2>2, <2>3, <2>4 DEF LedgerInv, LockedSymbolsAgree, IsAliasOfLocked
  <2> QED
    BY <2>1, <2>5 DEF LedgerInv
<1> QED
  BY <1>1, <1>2 DEF Lock

LEMMA IngestKeepsLedgerInv == LedgerInv /\ Ingest => LedgerInv'
<1> SUFFICES ASSUME LedgerInv, Ingest PROVE LedgerInv'
  OBVIOUS
<1>1. CASE UNCHANGED ledgerVars
  BY <1>1 DEF ledgerVars, LedgerInv, TypeOKLedger, LockedSymbolsAgree, Resolved,
              AuthorizedSymbols
<1>2. ASSUME NEW q \in Query,
             NEW status \in {"not_found", "invalidated", "ambiguous"},
             identity' = [identity EXCEPT ![q] = Unlocked(status)],
             UNCHANGED <<named, required>>
      PROVE  LedgerInv'
  BY <1>2, UnlockingKeepsLedgerInv DEF RecordStatus, LedgerInv, TypeOKLedger
<1>3. ASSUME NEW q \in Query, NEW s \in Symbol,
             identity' = [identity EXCEPT ![q] = Lock(q, s)],
             UNCHANGED <<named, required>>
      PROVE  LedgerInv'
  BY <1>3, LockingKeepsLedgerInv
<1> QED
  BY <1>1, <1>2, <1>3 DEF Ingest

LEMMA AuthorizeKeepsLedgerInv ==
  ASSUME LedgerInv, NEW c, Authorize(c)
  PROVE  LedgerInv'
<1>1. CASE c.tool = Resolver
  <2>1. BeginResolution(c.query)
    BY <1>1 DEF Authorize
  <2> QED
    BY <2>1, UnlockingKeepsLedgerInv DEF BeginResolution, RecordStatus
<1>2. CASE c.tool # Resolver
  <2>1. UNCHANGED <<named, identity>> /\ required' \in BOOLEAN
    BY <1>2 DEF Authorize, LedgerInv, TypeOKLedger
  <2> QED
    BY <2>1 DEF LedgerInv, TypeOKLedger, LockedSymbolsAgree, Resolved,
                AuthorizedSymbols
<1> QED
  BY <1>1, <1>2

LEMMA IngestResultKeepsLedgerInv ==
  ASSUME LedgerInv, NEW i, IngestResult(i)
  PROVE  LedgerInv'
<1>1. CASE UNCHANGED ledgerVars
  BY <1>1, IngestKeepsLedgerInv DEF Ingest
<1>2. CASE Ingest
  BY <1>2, IngestKeepsLedgerInv
<1>3. CASE FailResolution(CallAt(i).query)
  BY <1>3, UnlockingKeepsLedgerInv
     DEF FailResolution, RecordStatus, LedgerInv, TypeOKLedger
<1> QED
  BY <1>1, <1>2, <1>3 DEF IngestResult

LEMMA NextKeepsLedgerInv == LedgerInv /\ [NextBatch]_vars => LedgerInv'
<1> SUFFICES ASSUME LedgerInv, [NextBatch]_vars PROVE LedgerInv'
  OBVIOUS
<1>1. CASE UNCHANGED ledgerVars
  BY <1>1, IngestKeepsLedgerInv DEF Ingest
<1>2. CASE PlanCall
  BY <1>2, AuthorizeKeepsLedgerInv DEF PlanCall
<1>3. CASE Finalize
  BY <1>3, IngestResultKeepsLedgerInv DEF Finalize
<1>4. \/ UNCHANGED ledgerVars \/ PlanCall \/ Finalize
  BY DEF NextBatch, Loop, Thread, vars, StartTurn, SkipAll, StartPlanning,
         AnswerAtOnce, RecordBlocked, LeaveSegment, StartBatch, EndTurn,
         StopLoop, StartInPool, ToolReturns, ToolHangs, Cancel, Finished
<1> QED
  BY <1>1, <1>2, <1>3, <1>4

\* The codes the resolver locks never contradict each other or the user's own
\* (GroundingLedger._ingest_resolution).
THEOREM LedgerAgrees == SpecBatch => []LockedSymbolsAgree
<1>1. LedgerInv => LockedSymbolsAgree
  BY DEF LedgerInv
<1> QED
  BY <1>1, InitLedgerInv, NextKeepsLedgerInv, PTL DEF SpecBatch
-----------------------------------------------------------------------------
(***************************************************************************)
(* The plan and its execution                                              *)
(***************************************************************************)
\* As much of the types as the proofs need; the plan is never longer than the
\* response and refers to its calls.
PlanTypes ==
  /\ calls \in Seq(Call) /\ Len(calls) <= MaxCalls
  /\ plan \in Seq([call : Nat, blocked : BOOLEAN])
  /\ \A i \in DOMAIN plan : plan[i].call \in DOMAIN calls
  /\ at \in Nat \ {0}
  /\ pc \in {"idle", "called", "plan", "run", "end"}
  /\ pc = "called" => plan = <<>> /\ at = 1 /\ calls # <<>>
  /\ pc = "plan" => at <= Len(calls) /\ Len(plan) < at
  /\ Len(plan) <= Len(calls)
  /\ run \in [1..MaxCalls -> {"none", "queued", "running", "done", "left"}]

\* No thread runs before the plan is carried out; then only entries that were
\* not blocked are in the batch or were, and only the batch has active threads.
ThreadsFollowPlan ==
  /\ batch \subseteq at..Len(plan)
  /\ pc # "run" => batch = {}
  /\ pc \in {"called", "plan"} => \A i \in 1..MaxCalls : run[i] = "none"
  /\ \A i \in DOMAIN plan : run[i] # "none" => ~plan[i].blocked
  /\ \A i \in DOMAIN plan : Active(i) => i \in batch

\* A write in the batch is all of it.
WriteHasBatch == \A i \in batch : ~IsReadOnly(i) => batch = {i}

\* What is planned and not blocked may use its codes.
PlannedAreAllowed ==
  \A i \in DOMAIN plan :
    (/\ ~plan[i].blocked
     /\ CallAt(i).symbols # {}
     /\ CallAt(i).tool \notin {Resolver, SkillTool})
    => frozen.status = "locked" /\ CallAt(i).symbols \subseteq frozen.symbols

BatchInv == PlanTypes /\ ThreadsFollowPlan /\ WriteHasBatch /\ PlannedAreAllowed

LEMMA InitBatchInv == InitBatch => BatchInv
BY BatchBounds DEF InitBatch, BatchInv, PlanTypes, ThreadsFollowPlan,
                   WriteHasBatch, PlannedAreAllowed

\* Steps that leave the plan and the threads alone.
LEMMA ElsewhereKeepsBatchInv ==
  ASSUME BatchInv, UNCHANGED <<turnVars, toolVars>>,
         \/ pc' = pc
         \/ pc = "called" /\ pc' \in {"idle", "plan"}
         \/ pc' \in {"idle", "end"} /\ batch = {}
  PROVE  BatchInv'
<1>1. PlanTypes'
  BY DEF BatchInv, PlanTypes, turnVars, toolVars
<1>2. ThreadsFollowPlan'
  BY DEF BatchInv, ThreadsFollowPlan, Active, turnVars, toolVars
<1>3. WriteHasBatch' /\ PlannedAreAllowed'
  BY DEF BatchInv, WriteHasBatch, PlannedAreAllowed, IsReadOnly, CallAt,
         turnVars, toolVars
<1> QED
  BY <1>1, <1>2, <1>3 DEF BatchInv

LEMMA StartTurnKeepsBatchInv == BatchInv /\ StartTurn => BatchInv'
<1> SUFFICES ASSUME BatchInv, StartTurn PROVE BatchInv'
  OBVIOUS
<1>1. calls' \in Seq(Call) /\ Len(calls') <= MaxCalls /\ calls' # <<>>
  <2>1. PICK n \in 0..MaxCalls : calls' \in [1..n -> Call]
    BY DEF StartTurn, BoundedSeq, SeqOf
  <2>2. calls' \in Seq(Call) /\ Len(calls') = n
    BY <2>1, BatchBounds
  <2> QED
    BY <2>1, <2>2, BatchBounds DEF StartTurn
<1>2. PlanTypes'
  BY <1>1, BatchBounds DEF StartTurn, PlanTypes
<1>3. ThreadsFollowPlan' /\ WriteHasBatch' /\ PlannedAreAllowed'
  BY DEF StartTurn, ThreadsFollowPlan, WriteHasBatch, PlannedAreAllowed
<1> QED
  BY <1>2, <1>3 DEF BatchInv

LEMMA AnswerAtOnceKeepsBatchInv == BatchInv /\ AnswerAtOnce => BatchInv'
<1> SUFFICES ASSUME BatchInv, AnswerAtOnce PROVE BatchInv'
  OBVIOUS
<1> USE DEF AnswerAtOnce, NextCall, BatchInv
<1>1. PlanTypes'
  BY DEF PlanTypes, toolVars
<1>2. ThreadsFollowPlan'
  BY DEF ThreadsFollowPlan, Active, toolVars
<1>3. WriteHasBatch' /\ PlannedAreAllowed'
  BY DEF WriteHasBatch, PlannedAreAllowed, IsReadOnly, CallAt, toolVars
<1> QED
  BY <1>1, <1>2, <1>3

\* The new entry is allowed; the earlier ones stay what they were.
LEMMA PlanCallKeepsBatchInv == BatchInv /\ PlanCall => BatchInv'
<1> SUFFICES ASSUME BatchInv, PlanCall PROVE BatchInv'
  OBVIOUS
<1> USE DEF PlanCall, BatchInv
<1> DEFINE c == calls[at]
           blocked == c.tool # Resolver /\ ~Allowed(c)
           entry == [call |-> at, blocked |-> blocked]
<1>1. /\ plan' = Append(plan, entry)
      /\ UNCHANGED <<calls, frozen, batch, run>>
      /\ pc = "plan"
      /\ \/ at < Len(calls) /\ at' = at + 1 /\ pc' = pc
         \/ at' = 1 /\ pc' = "run"
  BY DEF NextCall, toolVars
<1> HIDE DEF PlanCall
<1>2. /\ plan \in Seq([call : Nat, blocked : BOOLEAN])
      /\ at \in DOMAIN calls /\ at \in Nat /\ Len(plan) < at
      /\ Len(calls) \in Nat
  BY <1>1 DEF PlanTypes
<1>3. /\ plan' \in Seq([call : Nat, blocked : BOOLEAN])
      /\ Len(plan') = Len(plan) + 1
      /\ DOMAIN plan' = DOMAIN plan \cup {Len(plan) + 1}
      /\ \A i \in DOMAIN plan : plan'[i] = plan[i]
      /\ plan'[Len(plan) + 1] = entry
  BY <1>1, <1>2
<1>4. PlanTypes'
  BY <1>1, <1>2, <1>3 DEF PlanTypes
<1>5. ThreadsFollowPlan'
  <2>1. Len(plan) + 1 \in 1..MaxCalls
    BY <1>2, BatchBounds DEF PlanTypes
  <2> QED
    BY <1>1, <1>3, <2>1, BatchBounds DEF ThreadsFollowPlan, Active, PlanTypes
<1>6. WriteHasBatch'
  BY <1>1 DEF ThreadsFollowPlan, WriteHasBatch
<1>7. PlannedAreAllowed'
  <2> SUFFICES ASSUME NEW i \in DOMAIN plan', ~plan'[i].blocked,
                      CallAt(i)'.symbols # {},
                      CallAt(i)'.tool \notin {Resolver, SkillTool}
               PROVE  /\ frozen'.status = "locked"
                      /\ CallAt(i)'.symbols \subseteq frozen'.symbols
    BY DEF PlannedAreAllowed
  <2>1. CASE i \in DOMAIN plan
    BY <1>1, <1>3, <2>1 DEF PlannedAreAllowed, CallAt
  <2>2. CASE i = Len(plan) + 1
    <3>1. plan'[i] = entry
      BY <1>3, <2>2
    <3>2. CallAt(i)' = c
      BY <1>1, <3>1 DEF CallAt
    <3>3. plan'[i].blocked = blocked
      BY <3>1
    <3>4. ~blocked
      BY <3>3, Zenon
    <3> QED
      BY <3>2, <3>4, <1>1 DEF Allowed, FrozenLocked
  <2> QED
    BY <1>3, <2>1, <2>2
<1> QED
  BY <1>4, <1>5, <1>6, <1>7

\* Passing over entries that are not started.
LEMMA PassKeepsBatchInv ==
  ASSUME BatchInv, UNCHANGED <<pc, calls, frozen, plan, toolVars>>,
         at' \in Nat \ {0}, pc = "run", batch = {}
  PROVE  BatchInv'
<1>1. PlanTypes' /\ ThreadsFollowPlan'
  BY DEF BatchInv, PlanTypes, ThreadsFollowPlan, Active, toolVars
<1>2. WriteHasBatch' /\ PlannedAreAllowed'
  BY DEF BatchInv, WriteHasBatch, PlannedAreAllowed, IsReadOnly, CallAt,
         toolVars
<1> QED
  BY <1>1, <1>2 DEF BatchInv

LEMMA SegmentHasSize == BatchInv => Cardinality(SegmentFrom(at)) \in Nat
<1> SUFFICES ASSUME BatchInv PROVE Cardinality(SegmentFrom(at)) \in Nat
  OBVIOUS
<1>1. IsFiniteSet(at..Len(plan))
  BY FS_Interval DEF BatchInv, PlanTypes
<1> QED
  BY <1>1, FS_Subset, FS_CardinalityType DEF SegmentFrom

LEMMA LeaveSegmentKeepsBatchInv == BatchInv /\ LeaveSegment => BatchInv'
<1> SUFFICES ASSUME BatchInv, LeaveSegment PROVE BatchInv'
  OBVIOUS
<1>1. at' \in Nat \ {0}
  BY SegmentHasSize DEF LeaveSegment, BatchInv, PlanTypes
<1> QED
  BY <1>1, PassKeepsBatchInv DEF LeaveSegment

\* The batch is one write, or read-only calls only; none of it is blocked.
LEMMA StartBatchKeepsBatchInv == BatchInv /\ StartBatch => BatchInv'
<1> SUFFICES ASSUME BatchInv, StartBatch PROVE BatchInv'
  OBVIOUS
<1>1. /\ BatchFrom(at) \subseteq at..Len(plan)
      /\ \A i \in BatchFrom(at) : ~plan[i].blocked
      /\ \A i \in BatchFrom(at) : ~IsReadOnly(i) => BatchFrom(at) = {i}
  <2>1. at \in DOMAIN plan /\ ~plan[at].blocked
    BY DEF StartBatch, Alone, BatchInv, PlanTypes
  <2>2. SegmentFrom(at) \subseteq at..Len(plan)
    BY DEF SegmentFrom
  <2>3. \A i \in SegmentFrom(at) : i \in at..i
    BY <2>2 DEF SegmentFrom, BatchInv, PlanTypes
  <2>4. \A i \in SegmentFrom(at) : ~plan[i].blocked
    BY <2>3 DEF SegmentFrom
  <2>5. CASE IsReadOnly(at)
    BY <2>2, <2>3, <2>4, <2>5 DEF BatchFrom
  <2>6. CASE ~IsReadOnly(at)
    BY <2>1, <2>6 DEF BatchFrom
  <2> QED
    BY <2>5, <2>6
<1>2. PlanTypes'
  BY DEF StartBatch, Alone, BatchInv, PlanTypes, turnVars
<1>3. ThreadsFollowPlan'
  <2>1. DOMAIN plan \subseteq 1..MaxCalls
    BY BatchBounds DEF BatchInv, PlanTypes
  <2>2. \A i \in 1..MaxCalls : i \notin BatchFrom(at) => run'[i] = run[i]
    BY DEF StartBatch, Alone
  <2>3. \A i \in DOMAIN plan : ~Active(i)
    BY DEF StartBatch, Alone, BatchInv, ThreadsFollowPlan
  <2> QED
    BY <1>1, <2>1, <2>2, <2>3
       DEF StartBatch, Alone, BatchInv, ThreadsFollowPlan, Active, turnVars
<1>4. WriteHasBatch' /\ PlannedAreAllowed'
  BY <1>1 DEF StartBatch, Alone, BatchInv, WriteHasBatch, PlannedAreAllowed,
              IsReadOnly, CallAt, turnVars
<1> QED
  BY <1>2, <1>3, <1>4 DEF BatchInv

\* A thread that is active goes on to another state.
LEMMA ThreadKeepsBatchInv ==
  ASSUME BatchInv, UNCHANGED <<pc, turnVars, batch>>,
         NEW i \in DOMAIN plan, Active(i),
         NEW state \in {"running", "done", "left"},
         run' = [run EXCEPT ![i] = state]
  PROVE  BatchInv'
<1>1. PlanTypes'
  BY DEF BatchInv, PlanTypes, turnVars
<1>2. ThreadsFollowPlan'
  <2>1. \A j \in DOMAIN plan : j # i => run'[j] = run[j]
    BY BatchBounds DEF BatchInv, PlanTypes
  <2>2. i \in batch /\ ~plan[i].blocked /\ pc = "run"
    BY DEF BatchInv, ThreadsFollowPlan, Active
  <2> QED
    BY <2>1, <2>2 DEF BatchInv, ThreadsFollowPlan, Active, turnVars
<1>3. WriteHasBatch' /\ PlannedAreAllowed'
  BY DEF BatchInv, WriteHasBatch, PlannedAreAllowed, IsReadOnly, CallAt,
         turnVars
<1> QED
  BY <1>1, <1>2, <1>3 DEF BatchInv

\* A batch shrinks only when none of its threads is active.
LEMMA FinalizeKeepsBatchInv == BatchInv /\ Finalize => BatchInv'
<1> SUFFICES ASSUME BatchInv, Finalize PROVE BatchInv'
  OBVIOUS
<1> USE DEF Finalize, BatchInv
<1>1. PlanTypes'
  BY DEF PlanTypes
<1>2. ThreadsFollowPlan'
  BY DEF AllThere, ThreadsFollowPlan, Active
<1>3. WriteHasBatch' /\ PlannedAreAllowed'
  BY DEF WriteHasBatch, PlannedAreAllowed, IsReadOnly, CallAt
<1> QED
  BY <1>1, <1>2, <1>3

LEMMA NextKeepsBatchInv == BatchInv /\ [NextBatch]_vars => BatchInv'
<1> SUFFICES ASSUME BatchInv, [NextBatch]_vars PROVE BatchInv'
  OBVIOUS
<1> USE ElsewhereKeepsBatchInv
<1>1. CASE StartTurn
  BY <1>1, StartTurnKeepsBatchInv
<1>2. CASE SkipAll \/ StartPlanning
  BY <1>2 DEF SkipAll, StartPlanning
<1>3. CASE AnswerAtOnce
  BY <1>3, AnswerAtOnceKeepsBatchInv
<1>4. CASE PlanCall
  BY <1>4, PlanCallKeepsBatchInv
<1>5. CASE RecordBlocked
  BY <1>5, PassKeepsBatchInv DEF RecordBlocked, BatchInv, PlanTypes
<1>6. CASE LeaveSegment
  BY <1>6, LeaveSegmentKeepsBatchInv
<1>7. CASE StartBatch
  BY <1>7, StartBatchKeepsBatchInv
<1>8. CASE Finalize
  BY <1>8, FinalizeKeepsBatchInv
<1>9. CASE EndTurn
  <2>1. batch = {}
    BY <1>9 DEF EndTurn, BatchInv, ThreadsFollowPlan, PlanTypes
  <2> QED
    BY <1>9, <2>1 DEF EndTurn
<1>10. CASE StopLoop
  BY <1>10 DEF StopLoop, BatchInv, ThreadsFollowPlan
<1>11. ASSUME NEW i \in DOMAIN plan, Thread(i) \/ ToolHangs(i)
       PROVE  BatchInv'
  BY <1>11, ThreadKeepsBatchInv
     DEF Thread, ToolHangs, StartInPool, ToolReturns, Active
<1>12. CASE Cancel \/ UNCHANGED vars
  BY <1>12 DEF Cancel, vars
<1> QED
  BY <1>1, <1>2, <1>3, <1>4, <1>5, <1>6, <1>7, <1>8, <1>9, <1>10, <1>11, <1>12
     DEF NextBatch, Loop, Finished
-----------------------------------------------------------------------------
(***************************************************************************)
(* The result messages                                                     *)
(***************************************************************************)
\* Planning has answered or planned each call before at, and no call twice; what
\* is left of the plan is not answered yet and, unless the run was cancelled, is
\* all that is not.
AnswersInv ==
  /\ answers \in Seq(Nat)
  /\ IsInjective(answers)
  /\ \A i, j \in DOMAIN plan : i < j => plan[i].call < plan[j].call
  /\ pc = "called" => answers = <<>>
  /\ pc = "plan" =>
       /\ Len(answers) + Len(plan) = at - 1
       /\ \A i \in DOMAIN plan : plan[i].call < at
       /\ \A k \in DOMAIN answers : answers[k] < at
       /\ \A k \in DOMAIN answers, i \in DOMAIN plan : answers[k] # plan[i].call
  /\ pc = "run" =>
       /\ \A k \in DOMAIN answers, i \in at..Len(plan) :
            answers[k] # plan[i].call
       /\ ~cancel => /\ at <= Len(plan) + 1
                     /\ Len(answers) + (Len(plan) - at + 1) = Len(calls)
  /\ pc = "idle" /\ ~cancel => Len(answers) = Len(calls)

LEMMA AppendIsInjective ==
  ASSUME NEW s \in Seq(Nat), IsInjective(s), NEW n \in Nat,
         \A k \in DOMAIN s : s[k] # n
  PROVE  /\ Append(s, n) \in Seq(Nat)
         /\ IsInjective(Append(s, n))
         /\ Len(Append(s, n)) = Len(s) + 1
         /\ DOMAIN Append(s, n) = DOMAIN s \cup {Len(s) + 1}
         /\ \A k \in DOMAIN s : Append(s, n)[k] = s[k]
         /\ Append(s, n)[Len(s) + 1] = n
BY DEF IsInjective

LEMMA InitAnswersInv == InitBatch => AnswersInv
BY DEF InitBatch, AnswersInv, IsInjective

LEMMA EntriesAreTyped == BatchInv => \A i \in DOMAIN plan : plan[i].call \in Nat
BY DEF BatchInv, PlanTypes

\* A call has been answered or planned, and planning goes on or is over.
LEMMA PlannedKeepsAnswersInv ==
  ASSUME answers' \in Seq(Nat), IsInjective(answers'), at \in Nat,
         Len(plan') \in Nat, Len(answers') \in Nat, Len(calls) \in Nat,
         DOMAIN plan' = 1..Len(plan'),
         \A i \in DOMAIN plan' : plan'[i].call \in Nat /\ plan'[i].call <= at,
         \A i, j \in DOMAIN plan' : i < j => plan'[i].call < plan'[j].call,
         Len(answers') + Len(plan') = at,
         \A k \in DOMAIN answers' : answers'[k] <= at,
         \A k \in DOMAIN answers', i \in DOMAIN plan' :
           answers'[k] # plan'[i].call,
         calls' = calls,
         \/ at' = at + 1 /\ pc' = "plan"
         \/ at = Len(calls) /\ at' = 1 /\ pc' = "run"
  PROVE  AnswersInv'
<1>1. CASE at' = at + 1 /\ pc' = "plan"
  BY <1>1 DEF AnswersInv
<1>2. CASE at = Len(calls) /\ at' = 1 /\ pc' = "run"
  BY <1>2 DEF AnswersInv
<1> QED
  BY <1>1, <1>2

LEMMA AnswerAtOnceKeepsAnswersInv ==
  BatchInv /\ AnswersInv /\ AnswerAtOnce => AnswersInv'
<1> SUFFICES ASSUME BatchInv, AnswersInv, AnswerAtOnce PROVE AnswersInv'
  OBVIOUS
<1>1. /\ pc = "plan" /\ at \in Nat /\ at <= Len(calls) /\ Len(calls) \in Nat
      /\ Len(plan) \in Nat /\ Len(answers) \in Nat
      /\ plan \in Seq([call : Nat, blocked : BOOLEAN])
  BY DEF AnswerAtOnce, BatchInv, PlanTypes, AnswersInv
<1>2. /\ answers' = Append(answers, at) /\ UNCHANGED <<plan, calls, cancel>>
      /\ \/ at < Len(calls) /\ at' = at + 1 /\ pc' = pc
         \/ at = Len(calls) /\ at' = 1 /\ pc' = "run"
  BY <1>1 DEF AnswerAtOnce, NextCall
<1>3. answers \in Seq(Nat) /\ IsInjective(answers)
      /\ \A k \in DOMAIN answers : answers[k] # at
  BY <1>1 DEF AnswersInv
<1>4. /\ answers' \in Seq(Nat) /\ IsInjective(answers')
      /\ Len(answers') = Len(answers) + 1
      /\ DOMAIN answers' = DOMAIN answers \cup {Len(answers) + 1}
      /\ \A k \in DOMAIN answers : answers'[k] = answers[k]
      /\ answers'[Len(answers) + 1] = at
  BY <1>1, <1>2, <1>3, AppendIsInjective
<1>5. /\ Len(answers') + Len(plan') = at
      /\ \A k \in DOMAIN answers' : answers'[k] <= at
      /\ \A i \in DOMAIN plan : plan[i].call < at /\ plan[i].call \in Nat
  <2>1. Len(answers') + Len(plan') = at
    BY <1>1, <1>2, <1>4 DEF AnswersInv
  <2>2. \A k \in DOMAIN answers' : answers'[k] <= at
    BY <1>1, <1>4 DEF AnswersInv
  <2>3. \A i \in DOMAIN plan : plan[i].call < at
    BY <1>1 DEF AnswersInv
  <2>4. \A i \in DOMAIN plan : plan[i].call \in Nat
    BY EntriesAreTyped
  <2> QED
    BY <2>1, <2>2, <2>3, <2>4
<1>6. \A k \in DOMAIN answers', i \in DOMAIN plan' : answers'[k] # plan'[i].call
  <2> SUFFICES ASSUME NEW k \in DOMAIN answers', NEW i \in DOMAIN plan
               PROVE  answers'[k] # plan[i].call
    BY <1>2
  <2>1. CASE k \in DOMAIN answers
    BY <1>1, <1>4, <2>1 DEF AnswersInv
  <2>2. CASE k = Len(answers) + 1
    BY <1>1, <1>4, <1>5, <2>2
  <2> QED
    BY <1>4, <2>1, <2>2
<1>7. \A i, j \in DOMAIN plan' : i < j => plan'[i].call < plan'[j].call
  BY <1>2 DEF AnswersInv
<1> QED
  BY <1>4, <1>5, <1>6, <1>7, PlannedKeepsAnswersInv, <1>1, <1>2

LEMMA PlanCallKeepsAnswersInv ==
  BatchInv /\ AnswersInv /\ PlanCall => AnswersInv'
<1> SUFFICES ASSUME BatchInv, AnswersInv, PlanCall PROVE AnswersInv'
  OBVIOUS
<1>1. /\ pc = "plan" /\ at \in Nat /\ at <= Len(calls) /\ Len(calls) \in Nat
      /\ Len(plan) \in Nat /\ Len(answers) \in Nat
      /\ plan \in Seq([call : Nat, blocked : BOOLEAN])
  BY DEF PlanCall, BatchInv, PlanTypes, AnswersInv
<1>2. PICK b \in BOOLEAN : plan' = Append(plan, [call |-> at, blocked |-> b])
  BY DEF PlanCall
<1>3. /\ UNCHANGED <<answers, calls, cancel>>
      /\ \/ at < Len(calls) /\ at' = at + 1 /\ pc' = pc
         \/ at = Len(calls) /\ at' = 1 /\ pc' = "run"
  BY <1>1 DEF PlanCall, NextCall
<1>4. /\ Len(plan') = Len(plan) + 1
      /\ DOMAIN plan' = DOMAIN plan \cup {Len(plan) + 1}
      /\ \A i \in DOMAIN plan : plan'[i] = plan[i]
      /\ plan'[Len(plan) + 1].call = at
  BY <1>1, <1>2
<1>5. \A i, j \in DOMAIN plan' : i < j => plan'[i].call < plan'[j].call
  BY <1>1, <1>4 DEF AnswersInv
<1>6. \A k \in DOMAIN answers', i \in DOMAIN plan' : answers'[k] # plan'[i].call
  BY <1>1, <1>3, <1>4 DEF AnswersInv
<1>7. /\ answers' \in Seq(Nat) /\ IsInjective(answers')
      /\ Len(answers') + Len(plan') = at
      /\ \A k \in DOMAIN answers' : answers'[k] <= at
  BY <1>1, <1>3, <1>4 DEF AnswersInv
<1>8. /\ \A i \in DOMAIN plan' : plan'[i].call \in Nat /\ plan'[i].call <= at
      /\ DOMAIN plan' = 1..Len(plan')
  <2>1. \A i \in DOMAIN plan : plan[i].call < at
    BY <1>1 DEF AnswersInv
  <2>2. \A i \in DOMAIN plan : plan[i].call \in Nat
    BY EntriesAreTyped
  <2>3. DOMAIN plan = 1..Len(plan)
    BY <1>1
  <2> QED
    BY <1>1, <1>4, <2>1, <2>2, <2>3
<1> QED
  BY <1>1, <1>3, <1>4, <1>5, <1>6, <1>7, <1>8, PlannedKeepsAnswersInv

\* The entry at the head of the plan is answered, whether it was run or blocked.
LEMMA AnsweringKeepsAnswersInv ==
  ASSUME BatchInv, AnswersInv, pc = "run", at <= Len(plan),
         answers' = Append(answers, plan[at].call), at' = at + 1,
         UNCHANGED <<pc, cancel, calls, plan>>
  PROVE  AnswersInv'
<1>1. /\ at \in DOMAIN plan /\ plan[at].call \in Nat /\ at \in Nat
      /\ Len(plan) \in Nat /\ Len(calls) \in Nat /\ Len(answers) \in Nat
  BY DEF BatchInv, PlanTypes, AnswersInv
<1>2. \A i \in at'..Len(plan) :
        plan[at].call < plan[i].call /\ plan[i].call \in Nat
  BY <1>1 DEF AnswersInv, BatchInv, PlanTypes
<1>3. answers \in Seq(Nat) /\ IsInjective(answers)
      /\ \A k \in DOMAIN answers : answers[k] # plan[at].call
  BY <1>1 DEF AnswersInv
<1>4. /\ answers' \in Seq(Nat) /\ IsInjective(answers')
      /\ Len(answers') = Len(answers) + 1
      /\ DOMAIN answers' = DOMAIN answers \cup {Len(answers) + 1}
      /\ \A k \in DOMAIN answers : answers'[k] = answers[k]
      /\ answers'[Len(answers) + 1] = plan[at].call
  BY <1>1, <1>3, AppendIsInjective
<1>5. \A k \in DOMAIN answers', i \in at'..Len(plan') :
        answers'[k] # plan'[i].call
  <2> SUFFICES ASSUME NEW k \in DOMAIN answers', NEW i \in at'..Len(plan)
               PROVE  answers'[k] # plan[i].call
    OBVIOUS
  <2>1. CASE k \in DOMAIN answers
    BY <1>1, <1>4, <2>1 DEF AnswersInv
  <2>2. CASE k = Len(answers) + 1
    BY <1>1, <1>2, <1>4, <2>2
  <2> QED
    BY <1>4, <2>1, <2>2
<1>6. ~cancel' => /\ at' <= Len(plan') + 1
                 /\ Len(answers') + (Len(plan') - at' + 1) = Len(calls')
  BY <1>1, <1>4 DEF AnswersInv
<1> QED
  BY <1>4, <1>5, <1>6 DEF AnswersInv

\* The other steps change neither the answers nor the plan.
LEMMA SilentKeepsAnswersInv ==
  ASSUME BatchInv, AnswersInv, UNCHANGED <<answers, turnVars>>,
         cancel => cancel',
         \/ pc' = pc
         \/ pc = "called" /\ pc' = "plan"
         \/ pc' = "end"
         \/ pc' = "idle" /\ cancel'
         \/ pc = "run" /\ pc' = "idle" /\ at > Len(plan)
  PROVE  AnswersInv'
BY DEF AnswersInv, BatchInv, PlanTypes, turnVars

LEMMA NextKeepsAnswersInv ==
  BatchInv /\ AnswersInv /\ [NextBatch]_vars => AnswersInv'
<1> SUFFICES ASSUME BatchInv, AnswersInv, [NextBatch]_vars PROVE AnswersInv'
  OBVIOUS
<1>1. CASE StartTurn
  BY <1>1 DEF StartTurn, AnswersInv, IsInjective
<1>2. CASE AnswerAtOnce
  BY <1>2, AnswerAtOnceKeepsAnswersInv
<1>3. CASE PlanCall
  BY <1>3, PlanCallKeepsAnswersInv
<1>4. CASE RecordBlocked
  BY <1>4, AnsweringKeepsAnswersInv DEF RecordBlocked
<1>5. CASE Finalize
  <2>1. at <= Len(plan)
    BY <1>5 DEF Finalize, BatchInv, ThreadsFollowPlan, PlanTypes
  <2> QED
    BY <1>5, <2>1, AnsweringKeepsAnswersInv DEF Finalize
<1>6. CASE LeaveSegment
  <2>1. /\ cancel' /\ pc = "run" /\ UNCHANGED <<pc, calls, plan, answers>>
        /\ at' = at + Cardinality(SegmentFrom(at))
    BY <1>6 DEF LeaveSegment, CutShort
  <2>2. at' >= at /\ at' \in Nat /\ at \in Nat
    BY <2>1, SegmentHasSize DEF BatchInv, PlanTypes
  <2> QED
    BY <2>1, <2>2 DEF AnswersInv, BatchInv, PlanTypes
<1>7. CASE SkipAll \/ StartPlanning \/ StartBatch \/ EndTurn \/ StopLoop
  BY <1>7, SilentKeepsAnswersInv
     DEF SkipAll, StartPlanning, StartBatch, EndTurn, StopLoop
<1>8. ASSUME NEW i \in DOMAIN plan, Thread(i) \/ ToolHangs(i)
      PROVE  AnswersInv'
  BY <1>8, SilentKeepsAnswersInv DEF Thread, ToolHangs, StartInPool, ToolReturns
<1>9. CASE Cancel \/ UNCHANGED vars
  BY <1>9, SilentKeepsAnswersInv DEF Cancel, vars
<1> QED
  BY <1>1, <1>2, <1>3, <1>4, <1>5, <1>6, <1>7, <1>8, <1>9
     DEF NextBatch, Loop, Finished
-----------------------------------------------------------------------------
\* Every call gets one result message and none gets two, unless the run was
\* cancelled (AgentLoop._process_tool_calls).
THEOREM EachCallAnsweredOnce == SpecBatch => []CallsAreAnswered
<1>1. AnswersInv => CallsAreAnswered
  BY DEF AnswersInv, CallsAreAnswered
<1> QED
  BY <1>1, InitBatchInv, NextKeepsBatchInv, InitAnswersInv, NextKeepsAnswersInv,
     PTL DEF SpecBatch

\* No other call of the turn is active next to a running write
\* (AgentLoop._batch_execute).
THEOREM WritesAreAlone == SpecBatch => []WritesRunAlone
<1>1. BatchInv => WritesRunAlone
  BY DEF BatchInv, ThreadsFollowPlan, WriteHasBatch, WritesRunAlone, Active
<1> QED
  BY <1>1, InitBatchInv, NextKeepsBatchInv, PTL DEF SpecBatch

\* A tool is only started with codes that were locked before the response came
\* in (GroundingLedger.authorize_tool_call).
THEOREM ConsumersAreAuthorized == SpecBatch => []ConsumersUseLockedSymbols
<1>1. BatchInv => ConsumersUseLockedSymbols
  BY DEF BatchInv, ThreadsFollowPlan, PlannedAreAllowed,
         ConsumersUseLockedSymbols
<1> QED
  BY <1>1, InitBatchInv, NextKeepsBatchInv, PTL DEF SpecBatch
=============================================================================
