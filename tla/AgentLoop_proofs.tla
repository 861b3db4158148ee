-------------------------- MODULE AgentLoop_proofs --------------------------
(***************************************************************************)
(* What a run of the agent loop promises, for every number of turns,        *)
(* retries, nudges and runs, every budget of the goal and every other loop  *)
(* that draws on it.                                                       *)
(***************************************************************************)
EXTENDS AgentLoop, FiniteSetTheorems, TLAPS

(***************************************************************************)
(* The inductive invariant                                                 *)
(***************************************************************************)
\* Whether drafts are shown is settled when a turn begins, and the ledger does
\* not change before they are validated.
DraftsAreHidden ==
  /\ blocking => required
  /\ pc \in InATurn => (required => hidden) /\ (hidden => ~shown)

\* A run that has no verdict has reported none; the trace of one that has
\* comes last, that of an exception comes first.
ReportsInOrder ==
  /\ pc \in NotEnding =>
       stateFile = "none" /\ traceEnd = "none" /\ result = "none"
  /\ pc = "end" => stateFile = result /\ traceEnd = "none"
  /\ pc = "failed" => traceEnd = "error" /\ result = "none"
  /\ ReportsAgree

\* The runs that noted their turn: this one, if it is counted.
RunsAreCounted ==
  /\ pc # "idle" => runs > 0
  /\ counted <=> runs \in spent
  /\ TurnsAreCountedOnce

\* A goal that is out of budget is not one to continue.
BudgetIsKept ==
  Crosses(goal.tokens, goal.turns) => goal.status \notin Continuable

\* What the loop holds of the goal is what the goal was when all that the loop
\* has charged so far was in it.
SnapshotFits ==
  /\ Crosses(snapshot.tokens, snapshot.turns) =>
       ~GoalNeedsContinuation(snapshot)
  /\ GoalNeedsContinuation(snapshot) /\ pc = "decide" =>
       Cardinality(spent) + unconfirmed <= snapshot.turns

\* A run that is in a turn has had one; without one, it ends only cancelled.
TurnsFit ==
  /\ pc \in InATurn => iteration > 0
  /\ pc = "status" => cancel \/ iteration > 0

IInv ==
  /\ TypeOK /\ DraftsAreHidden /\ ReportsInOrder /\ RunsAreCounted
  /\ BudgetIsKept /\ SnapshotFits /\ TurnsFit
-----------------------------------------------------------------------------
LEMMA InitIInv == Init => IInv
<1> SUFFICES ASSUME Init PROVE IInv
  OBVIOUS
<1> USE DEF Init, InitStream, InitGoal
<1>1. StatusesOK /\ CountsOK
  BY LoopBounds DEF StatusesOK, CountsOK, NotEnding, InATurn, Endings
<1>2. FlagsOK
  BY DEF FlagsOK
<1>3. GoalOK
  BY GoalBounds DEF GoalOK, NoSnapshot, GoalStatuses
<1>4. DraftsAreHidden /\ ReportsInOrder
  BY DEF DraftsAreHidden, ReportsInOrder, ReportsAgree, NotEnding, InATurn
<1>5. RunsAreCounted
  BY FS_EmptySet DEF RunsAreCounted, TurnsAreCountedOnce
<1>6. BudgetIsKept /\ SnapshotFits /\ TurnsFit
  BY GoalBounds DEF BudgetIsKept, SnapshotFits, TurnsFit, Crosses, NoSnapshot,
                    GoalNeedsContinuation, Continuable, InATurn
<1> QED
  BY <1>1, <1>2, <1>3, <1>4, <1>5, <1>6 DEF IInv, TypeOK

\* The request of a turn moves on, and what is hidden stays hidden.
LEMMA StreamMovesOn ==
  ASSUME TypeOK, NEW h, h \in BOOLEAN, StreamStep(cancel, h)
  PROVE  /\ lan' \in Nat
         /\ text' \in BOOLEAN /\ shown' \in BOOLEAN
         /\ h => shown' = shown
<1> USE DEF Connect, Refused, Broken, Retry, Finish, Text, Transient, BackOff,
            RaiseError, StreamStep
<1>1. lan' = lan \/ lan' = 0 \/ lan' = lan + 1
  BY Zenon
<1>2. lan' \in Nat
  BY <1>1 DEF TypeOK, CountsOK
<1>3. text \in BOOLEAN /\ shown \in BOOLEAN
  BY DEF TypeOK, FlagsOK
<1>4. text' \in BOOLEAN /\ shown' \in BOOLEAN /\ (h => shown' = shown)
  BY <1>3, Zenon
<1> QED
  BY <1>2, <1>4

\* A response is charged to the goal.
LEMMA AccountCharges ==
  ASSUME GoalOK, NEW tokens \in Nat, NEW turns \in Nat, Account(tokens, turns)
  PROVE  /\ goal' \in [status : GoalStatuses, tokens : Nat, turns : Nat]
         /\ goal'.turns = goal.turns + turns
         /\ Crosses(goal'.tokens, goal'.turns) =>
              goal'.status = "budget_limited"
<1> DEFINE t == goal.tokens + tokens
           n == goal.turns + turns
<1>1. t \in Nat /\ n \in Nat /\ goal.status \in GoalStatuses
  BY DEF GoalOK
<1>2. goal' = [status |-> IF Crosses(t, n) THEN "budget_limited"
                          ELSE goal.status,
               tokens |-> t, turns |-> n]
  BY Zenon DEF Account
<1>3. goal'.tokens = t /\ goal'.turns = n
  BY <1>2
<1>4. Crosses(t, n) => goal'.status = "budget_limited"
  BY <1>2
<1>5. "budget_limited" \in GoalStatuses
  BY DEF GoalStatuses, CurrentStatuses
<1>6. goal' \in [status : GoalStatuses, tokens : Nat, turns : Nat]
  <2> HIDE DEF t, n
  <2> QED
    BY <1>1, <1>2, <1>5
<1>7. Crosses(goal'.tokens, goal'.turns) <=> Crosses(t, n)
  BY <1>3 DEF Crosses
<1> QED
  BY <1>3, <1>4, <1>6, <1>7
-----------------------------------------------------------------------------
LEMMA NextKeepsStatuses == IInv /\ [Next]_vars => StatusesOK'
<1> SUFFICES ASSUME StatusesOK, ReportsInOrder, [Next]_vars PROVE StatusesOK'
  BY DEF IInv, TypeOK
<1> USE DEF StatusesOK, NotEnding, InATurn, Endings, slowVars, countVars,
            goalRun, ledgerRun, endVars, Goto
<1>1. CASE StartRun \/ RaiseAtStart \/ StopAtHead \/ BeginTurn
  BY <1>1 DEF StartRun, RaiseAtStart, StopAtHead, BeginTurn
<1>2. CASE Streaming \/ RetryOnce \/ StreamRaises \/ Receive
  BY <1>2 DEF Streaming, RetryOnce, StreamRaises, Receive
<1>3. CASE AccountFor \/ AccountUnconfirmed \/ AccountNothing
  BY <1>3 DEF AccountFor, AccountUnconfirmed, AccountNothing
<1>4. CASE SkipFiltered \/ Nudge \/ NothingSaid \/ Draft \/ CallTools
  BY <1>4 DEF SkipFiltered, Nudge, NothingSaid, Draft, CallTools
<1>5. CASE Reject \/ SafeFallback \/ Accept
  BY <1>5 DEF Reject, SafeFallback, Accept
<1>6. CASE ReadGoal \/ ContinueGoal \/ AnswerEnds \/ TurnRaises
  BY <1>6 DEF ReadGoal, ContinueGoal, AnswerEnds, TurnRaises
<1>7. CASE DecideStatus \/ WriteEnd \/ TraceError \/ MarkFailed \/ RaiseAtEnd
  BY <1>7 DEF DecideStatus, WriteEnd, TraceError, MarkFailed, RaiseAtEnd, Mark,
              Verdict, ReportsInOrder, ReportsAgree
<1>8. CASE Cancel \/ Others \/ UNCHANGED vars
  BY <1>8 DEF Cancel, Others, vars
<1> QED
  BY <1>1, <1>2, <1>3, <1>4, <1>5, <1>6, <1>7, <1>8 DEF Next, Running

LEMMA NextKeepsCounts == IInv /\ [Next]_vars => CountsOK'
<1> SUFFICES ASSUME TypeOK, RunsAreCounted, [Next]_vars PROVE CountsOK'
  BY DEF IInv
<1> USE LoopBounds
    DEF CountsOK, slowVars, countVars, goalRun, ledgerRun, endVars, streamVars,
        goalVars, Aside, Goto, TurnIsOver, RunsAreCounted, TypeOK
<1>1. CASE StartRun
  BY <1>1 DEF StartRun
<1>2. CASE RaiseAtStart
  BY <1>2 DEF RaiseAtStart
<1>3. CASE StopAtHead
  BY <1>3 DEF StopAtHead
<1>4. CASE BeginTurn
  BY <1>4 DEF BeginTurn, Open
<1>5. CASE Streaming
  <2>1. lan' \in Nat
    BY <1>5, StreamMovesOn DEF Streaming, FlagsOK
  <2> QED
    BY <1>5, <2>1 DEF Streaming
<1>6. CASE RetryOnce
  BY <1>6 DEF RetryOnce, Open
<1>7. CASE StreamRaises
  BY <1>7 DEF StreamRaises
<1>8. CASE Receive
  <2>1. lan' = 0 \/ lan' = lan
    BY <1>8, Zenon DEF Receive
  <2>2. UNCHANGED <<runs, iteration, skips, nudges, validations,
                    continuations, spent, unconfirmed>>
    BY <1>8, Zenon DEF Receive
  <2> QED
    BY <2>1, <2>2
<1>9. CASE AccountFor
  BY <1>9 DEF AccountFor
<1>10. CASE AccountNothing
  BY <1>10 DEF AccountNothing
<1>11. CASE SkipFiltered
  BY <1>11 DEF SkipFiltered
<1>12. CASE Nudge
  BY <1>12 DEF Nudge
<1>13. CASE NothingSaid
  BY <1>13 DEF NothingSaid
<1>14. CASE Draft
  BY <1>14 DEF Draft
<1>15. CASE CallTools
  BY <1>15 DEF CallTools
<1>16. CASE Reject
  BY <1>16 DEF Reject, Validate
<1>17. CASE SafeFallback
  BY <1>17 DEF SafeFallback, Validate
<1>18. CASE Accept
  BY <1>18 DEF Accept, Validate
<1>19. CASE ContinueGoal
  BY <1>19 DEF ContinueGoal
<1>20. CASE AnswerEnds
  BY <1>20 DEF AnswerEnds
<1>21. CASE TurnRaises
  BY <1>21 DEF TurnRaises
<1>22. CASE DecideStatus
  BY <1>22 DEF DecideStatus
<1>23. CASE WriteEnd
  BY <1>23 DEF WriteEnd
<1>24. CASE TraceError
  BY <1>24 DEF TraceError
<1>25. CASE MarkFailed
  BY <1>25 DEF MarkFailed
<1>26. CASE RaiseAtEnd
  BY <1>26 DEF RaiseAtEnd
<1>27. CASE Cancel
  BY <1>27 DEF Cancel
<1>28. CASE Others
  BY <1>28 DEF Others
<1>29. CASE UNCHANGED vars
  BY <1>29 DEF vars
<1>30. CASE AccountUnconfirmed
  BY <1>30 DEF AccountUnconfirmed, TurnDelta
<1>31. CASE ReadGoal
  BY <1>31 DEF ReadGoal
<1> QED
  BY <1>1, <1>2, <1>3, <1>4, <1>5, <1>6, <1>7, <1>8, <1>9, <1>10, <1>11,
     <1>12, <1>13, <1>14, <1>15, <1>16, <1>17, <1>18, <1>19, <1>20, <1>21,
     <1>22, <1>23, <1>24, <1>25, <1>26, <1>27, <1>28, <1>29, <1>30, <1>31
     DEF Next, Running

LEMMA NextKeepsFlags == IInv /\ [Next]_vars => FlagsOK'
<1> SUFFICES ASSUME TypeOK, [Next]_vars PROVE FlagsOK'
  BY DEF IInv
<1> USE Zenon
    DEF FlagsOK, slowVars, countVars, goalRun, ledgerRun, endVars, streamVars,
        goalVars, Aside, Goto, TurnIsOver, TypeOK
<1>1. CASE StartRun
  <2>1. KeptCancel \in BOOLEAN /\ HasCurrentGoal \in BOOLEAN
    BY SMT DEF KeptCancel, HasCurrentGoal
  <2>2. required' \in BOOLEAN /\ blocking' \in BOOLEAN
    BY <1>1 DEF StartRun, NewLedger
  <2> QED
    BY <1>1, <2>1, <2>2 DEF StartRun
<1>2. CASE RaiseAtStart
  BY <1>2 DEF RaiseAtStart
<1>3. CASE StopAtHead
  BY <1>3 DEF StopAtHead
<1>4. CASE BeginTurn
  BY <1>4 DEF BeginTurn, Open
<1>5. CASE Streaming
  <2>1. text' \in BOOLEAN /\ shown' \in BOOLEAN
    BY <1>5, StreamMovesOn DEF Streaming
  <2> QED
    BY <1>5, <2>1 DEF Streaming
<1>6. CASE RetryOnce
  BY <1>6 DEF RetryOnce, Open
<1>7. CASE StreamRaises
  BY <1>7 DEF StreamRaises
<1>8. CASE Receive
  BY <1>8 DEF Receive
<1>9. CASE AccountFor
  BY <1>9 DEF AccountFor
<1>10. CASE AccountNothing
  BY <1>10 DEF AccountNothing
<1>11. CASE SkipFiltered
  <2>1. breaker' \in BOOLEAN
    BY <1>11, SMT DEF SkipFiltered
  <2> QED
    BY <1>11, <2>1 DEF SkipFiltered
<1>12. CASE Nudge
  BY <1>12 DEF Nudge
<1>13. CASE NothingSaid
  BY <1>13 DEF NothingSaid
<1>14. CASE Draft
  BY <1>14 DEF Draft
<1>15. CASE CallTools
  BY <1>15 DEF CallTools
<1>16. CASE Reject
  BY <1>16 DEF Reject, Validate
<1>17. CASE SafeFallback
  BY <1>17 DEF SafeFallback, Validate
<1>18. CASE Accept
  BY <1>18 DEF Accept, Validate
<1>19. CASE ContinueGoal
  BY <1>19 DEF ContinueGoal
<1>20. CASE AnswerEnds
  BY <1>20 DEF AnswerEnds
<1>21. CASE TurnRaises
  BY <1>21 DEF TurnRaises
<1>22. CASE DecideStatus
  BY <1>22 DEF DecideStatus
<1>23. CASE WriteEnd
  BY <1>23 DEF WriteEnd
<1>24. CASE TraceError
  BY <1>24 DEF TraceError
<1>25. CASE MarkFailed
  BY <1>25 DEF MarkFailed
<1>26. CASE RaiseAtEnd
  BY <1>26 DEF RaiseAtEnd
<1>27. CASE Cancel
  BY <1>27 DEF Cancel
<1>28. CASE Others
  BY <1>28 DEF Others
<1>29. CASE UNCHANGED vars
  BY <1>29 DEF vars
<1>30. CASE AccountUnconfirmed
  BY <1>30 DEF AccountUnconfirmed
<1>31. CASE ReadGoal
  BY <1>31 DEF ReadGoal
<1> QED
  BY <1>1, <1>2, <1>3, <1>4, <1>5, <1>6, <1>7, <1>8, <1>9, <1>10, <1>11,
     <1>12, <1>13, <1>14, <1>15, <1>16, <1>17, <1>18, <1>19, <1>20, <1>21,
     <1>22, <1>23, <1>24, <1>25, <1>26, <1>27, <1>28, <1>29, <1>30, <1>31
     DEF Next, Running

\* What a run holds of the goal is what it held, nothing, or the goal it reads.
LEMMA SnapshotsAreRead ==
  ASSUME [Next]_vars
  PROVE  \/ snapshot' \in {snapshot, NoSnapshot}
         \/ ReadGoal /\ snapshot' = goal
<1> USE DEF slowVars, goalRun, Aside
<1>1. CASE ReadGoal
  BY <1>1 DEF ReadGoal
<1>2. CASE StartRun \/ ContinueGoal \/ AnswerEnds
  BY <1>2 DEF StartRun, ContinueGoal, AnswerEnds
<1>3. CASE AccountFor \/ AccountUnconfirmed \/ AccountNothing
  BY <1>3 DEF AccountFor, AccountUnconfirmed, AccountNothing
<1>4. CASE \/ RaiseAtStart \/ StopAtHead \/ BeginTurn \/ Streaming
           \/ RetryOnce \/ StreamRaises \/ Receive
  BY <1>4, Zenon DEF RaiseAtStart, StopAtHead, BeginTurn, Streaming, RetryOnce,
                     StreamRaises, Receive
<1>5. CASE \/ SkipFiltered \/ Nudge \/ NothingSaid \/ Draft \/ CallTools
           \/ Reject \/ SafeFallback \/ Accept \/ TurnRaises
  BY <1>5, Zenon DEF SkipFiltered, Nudge, NothingSaid, Draft, CallTools, Reject,
                     SafeFallback, Accept, TurnRaises
<1>6. CASE \/ DecideStatus \/ WriteEnd \/ TraceError \/ MarkFailed
           \/ RaiseAtEnd \/ Cancel \/ Others \/ UNCHANGED vars
  BY <1>6, Zenon DEF DecideStatus, WriteEnd, TraceError, MarkFailed, RaiseAtEnd,
                     Cancel, Others, vars
<1> QED
  BY <1>1, <1>2, <1>3, <1>4, <1>5, <1>6 DEF Next, Running

LEMMA NextKeepsGoal == IInv /\ [Next]_vars => GoalOK' /\ BudgetIsKept'
<1> SUFFICES ASSUME TypeOK, BudgetIsKept, [Next]_vars
             PROVE  GoalOK' /\ BudgetIsKept'
  BY DEF IInv
<1> DEFINE Goals == [status : GoalStatuses, tokens : Nat, turns : Nat]
<1>0. snapshot' \in Goals
  <2>1. snapshot \in Goals /\ goal \in Goals
    BY DEF TypeOK, GoalOK
  <2>2. NoSnapshot \in Goals
    BY DEF NoSnapshot, GoalStatuses
  <2> QED
    BY <2>1, <2>2, SnapshotsAreRead
<1>1. CASE UNCHANGED goalVars
  BY <1>0, <1>1 DEF goalVars, GoalOK, BudgetIsKept, Crosses, TypeOK
<1>2. ASSUME NEW tokens \in Nat, NEW turns \in Nat, Account(tokens, turns),
             others' \in [tokens : Nat, turns : Nat]
      PROVE  GoalOK' /\ BudgetIsKept'
  BY <1>0, <1>2, AccountCharges DEF GoalOK, BudgetIsKept, Continuable, TypeOK
<1>3. CASE AccountFor \/ AccountUnconfirmed
  <2>1. PICK tokens \in Charges : Account(tokens, TurnDelta)
    BY <1>3 DEF AccountFor, AccountUnconfirmed
  <2>2. tokens \in Nat /\ TurnDelta \in Nat
    BY GoalBounds DEF Charges, TurnDelta
  <2>3. others' = others
    BY <1>3 DEF AccountFor, AccountUnconfirmed
  <2> QED
    BY <1>2, <2>1, <2>2, <2>3 DEF TypeOK, GoalOK
<1>4. CASE OtherLoopAccounts
  <2>1. PICK tokens \in Charges, turns \in 0..1 :
          /\ Account(tokens, turns)
          /\ others' = [tokens |-> others.tokens + tokens,
                        turns |-> others.turns + turns]
    BY <1>4 DEF OtherLoopAccounts
  <2>2. tokens \in Nat /\ turns \in Nat
    BY GoalBounds DEF Charges
  <2> QED
    BY <1>2, <2>1, <2>2 DEF TypeOK, GoalOK
<1>5. CASE SessionIsDeleted
  BY <1>0, <1>5 DEF SessionIsDeleted, TypeOK, GoalOK, BudgetIsKept, Crosses,
                    GoalStatuses, Continuable
<1>6. CASE /\ Running \/ StartRun \/ Cancel \/ UNCHANGED vars
           /\ ~AccountFor /\ ~AccountUnconfirmed
  <2>1. UNCHANGED goalVars
    BY <1>6, Zenon
       DEF Running, RaiseAtStart, StopAtHead, BeginTurn, Streaming, RetryOnce,
           StreamRaises, Receive, AccountNothing, SkipFiltered, Nudge,
           NothingSaid, Draft, CallTools, Reject, SafeFallback, Accept,
           ReadGoal, ContinueGoal, AnswerEnds, TurnRaises, DecideStatus,
           WriteEnd, TraceError, MarkFailed, RaiseAtEnd, StartRun, Cancel,
           Aside, vars, goalVars
  <2> QED
    BY <1>1, <2>1
<1> QED
  BY <1>3, <1>4, <1>5, <1>6 DEF Next, Others
-----------------------------------------------------------------------------
LEMMA NextKeepsDrafts == IInv /\ [Next]_vars => DraftsAreHidden'
<1> SUFFICES ASSUME TypeOK, DraftsAreHidden, [Next]_vars
             PROVE  DraftsAreHidden'
  BY DEF IInv
<1> USE DEF DraftsAreHidden, InATurn, slowVars, countVars, goalRun, ledgerRun,
            endVars, streamVars, goalVars, Aside, Goto, TurnIsOver
<1>1. CASE StartRun
  <2>1. pc' \notin InATurn
    BY <1>1 DEF StartRun
  <2>2. blocking' => required'
    BY <1>1, Zenon DEF StartRun, NewLedger
  <2> QED
    BY <2>1, <2>2
<1>2. CASE RaiseAtStart
  BY <1>2 DEF RaiseAtStart
<1>3. CASE StopAtHead
  BY <1>3 DEF StopAtHead
<1>4. CASE BeginTurn
  BY <1>4 DEF BeginTurn, Open, BufferOutput
<1>5. CASE Streaming
  <2>1. hidden \in BOOLEAN
    BY DEF TypeOK, FlagsOK
  <2>2. hidden => shown' = shown
    BY <1>5, <2>1, StreamMovesOn DEF Streaming
  <2> QED
    BY <1>5, <2>2 DEF Streaming
<1>6. CASE RetryOnce
  BY <1>6 DEF RetryOnce, Open
<1>7. CASE StreamRaises
  BY <1>7 DEF StreamRaises
<1>8. CASE Receive
  BY <1>8 DEF Receive
<1>9. CASE AccountFor
  BY <1>9 DEF AccountFor
<1>10. CASE AccountNothing
  BY <1>10 DEF AccountNothing
<1>11. CASE SkipFiltered
  BY <1>11 DEF SkipFiltered
<1>12. CASE Nudge
  BY <1>12 DEF Nudge
<1>13. CASE NothingSaid
  BY <1>13 DEF NothingSaid
<1>14. CASE Draft
  BY <1>14 DEF Draft
<1>15. CASE CallTools
  <2>1. pc' \notin InATurn
    BY <1>15 DEF CallTools
  <2>2. blocking' => required'
    BY <1>15, Zenon DEF CallTools, TypeOK, FlagsOK
  <2> QED
    BY <2>1, <2>2
<1>16. CASE Reject
  BY <1>16 DEF Reject, Validate
<1>17. CASE SafeFallback
  BY <1>17 DEF SafeFallback, Validate
<1>18. CASE Accept
  BY <1>18 DEF Accept, Validate
<1>19. CASE ContinueGoal
  BY <1>19 DEF ContinueGoal
<1>20. CASE AnswerEnds
  BY <1>20 DEF AnswerEnds
<1>21. CASE TurnRaises
  BY <1>21 DEF TurnRaises
<1>22. CASE DecideStatus
  BY <1>22 DEF DecideStatus
<1>23. CASE WriteEnd
  BY <1>23 DEF WriteEnd
<1>24. CASE TraceError
  BY <1>24 DEF TraceError
<1>25. CASE MarkFailed
  BY <1>25 DEF MarkFailed
<1>26. CASE RaiseAtEnd
  BY <1>26 DEF RaiseAtEnd
<1>27. CASE Cancel
  BY <1>27 DEF Cancel
<1>28. CASE Others
  BY <1>28 DEF Others
<1>29. CASE UNCHANGED vars
  BY <1>29 DEF vars
<1>30. CASE AccountUnconfirmed
  BY <1>30 DEF AccountUnconfirmed
<1>31. CASE ReadGoal
  BY <1>31 DEF ReadGoal
<1> QED
  BY <1>1, <1>2, <1>3, <1>4, <1>5, <1>6, <1>7, <1>8, <1>9, <1>10, <1>11,
     <1>12, <1>13, <1>14, <1>15, <1>16, <1>17, <1>18, <1>19, <1>20, <1>21,
     <1>22, <1>23, <1>24, <1>25, <1>26, <1>27, <1>28, <1>29, <1>30, <1>31
     DEF Next, Running

LEMMA NextKeepsReports == IInv /\ [Next]_vars => ReportsInOrder'
<1> SUFFICES ASSUME ReportsInOrder, [Next]_vars PROVE ReportsInOrder'
  BY DEF IInv
<1> USE DEF ReportsInOrder, ReportsAgree, NotEnding, InATurn, slowVars,
            countVars, goalRun, ledgerRun, endVars, Goto
<1>1. CASE StartRun
  BY <1>1 DEF StartRun
<1>2. CASE RaiseAtStart
  BY <1>2 DEF RaiseAtStart
<1>3. CASE StopAtHead
  BY <1>3 DEF StopAtHead
<1>4. CASE BeginTurn
  BY <1>4 DEF BeginTurn, Open
<1>5. CASE Streaming
  BY <1>5 DEF Streaming
<1>6. CASE RetryOnce
  BY <1>6 DEF RetryOnce, Open
<1>7. CASE StreamRaises
  BY <1>7 DEF StreamRaises
<1>8. CASE Receive
  BY <1>8 DEF Receive
<1>9. CASE AccountFor
  BY <1>9 DEF AccountFor
<1>10. CASE AccountNothing
  BY <1>10 DEF AccountNothing
<1>11. CASE SkipFiltered
  BY <1>11 DEF SkipFiltered
<1>12. CASE Nudge
  BY <1>12 DEF Nudge
<1>13. CASE NothingSaid
  BY <1>13 DEF NothingSaid
<1>14. CASE Draft
  BY <1>14 DEF Draft
<1>15. CASE CallTools
  BY <1>15 DEF CallTools
<1>16. CASE Reject
  BY <1>16 DEF Reject, Validate
<1>17. CASE SafeFallback
  BY <1>17 DEF SafeFallback, Validate
<1>18. CASE Accept
  BY <1>18 DEF Accept, Validate
<1>19. CASE ContinueGoal
  BY <1>19 DEF ContinueGoal
<1>20. CASE AnswerEnds
  BY <1>20 DEF AnswerEnds
<1>21. CASE TurnRaises
  BY <1>21 DEF TurnRaises
<1>22. CASE DecideStatus
  BY <1>22 DEF DecideStatus, Verdict, Mark
<1>23. CASE WriteEnd
  BY <1>23 DEF WriteEnd
<1>24. CASE TraceError
  BY <1>24 DEF TraceError
<1>25. CASE MarkFailed
  BY <1>25 DEF MarkFailed, Mark
<1>26. CASE RaiseAtEnd
  BY <1>26 DEF RaiseAtEnd
<1>27. CASE Cancel
  BY <1>27 DEF Cancel
<1>28. CASE Others
  BY <1>28 DEF Others
<1>29. CASE UNCHANGED vars
  BY <1>29 DEF vars
<1>30. CASE AccountUnconfirmed
  BY <1>30 DEF AccountUnconfirmed
<1>31. CASE ReadGoal
  BY <1>31 DEF ReadGoal
<1> QED
  BY <1>1, <1>2, <1>3, <1>4, <1>5, <1>6, <1>7, <1>8, <1>9, <1>10, <1>11,
     <1>12, <1>13, <1>14, <1>15, <1>16, <1>17, <1>18, <1>19, <1>20, <1>21,
     <1>22, <1>23, <1>24, <1>25, <1>26, <1>27, <1>28, <1>29, <1>30, <1>31
     DEF Next, Running

\* Adding the run to those that were charged.
LEMMA ChargedRuns ==
  ASSUME TypeOK
  PROVE  /\ Cardinality(spent) \in Nat
         /\ Cardinality(spent \cup {runs}) =
              Cardinality(spent) + (IF runs \in spent THEN 0 ELSE 1)
<1>1. IsFiniteSet(spent)
  <2>1. IsFiniteSet(1..runs)
    BY FS_Interval DEF TypeOK, CountsOK
  <2> QED
    BY <2>1, FS_Subset DEF TypeOK, CountsOK
<1> QED
  BY <1>1, FS_CardinalityType, FS_AddElement

LEMMA NextKeepsRuns == IInv /\ [Next]_vars => RunsAreCounted'
<1> SUFFICES ASSUME IInv, [Next]_vars PROVE RunsAreCounted'
  OBVIOUS
<1>0. TypeOK /\ RunsAreCounted
  BY DEF IInv
<1>n. goal.turns \in Nat /\ others.turns \in Nat /\ unconfirmed \in Nat
  BY <1>0 DEF TypeOK, GoalOK, CountsOK
<1>1. CASE StartRun
  <2>1. runs + 1 \notin spent
    BY <1>0 DEF TypeOK, CountsOK
  <2> QED
    BY <1>0, <1>1, <2>1
       DEF StartRun, RunsAreCounted, TurnsAreCountedOnce, goalVars, TypeOK,
           CountsOK
<1>2. CASE AccountFor \/ AccountUnconfirmed
  <2>1. PICK tokens \in Charges : Account(tokens, TurnDelta)
    BY <1>2 DEF AccountFor, AccountUnconfirmed
  <2>2. goal'.turns = goal.turns + TurnDelta
    BY <1>0, <2>1, AccountCharges, GoalBounds DEF Charges, TurnDelta, TypeOK
  <2>3. TurnDelta = IF runs \in spent THEN 0 ELSE 1
    BY <1>0 DEF TurnDelta, RunsAreCounted
  <2>4. CASE AccountFor
    <3>1. TurnsAreCountedOnce'
      BY <1>n, <2>2, <2>3, <2>4, ChargedRuns, <1>0
         DEF AccountFor, RunsAreCounted, TurnsAreCountedOnce
    <3> QED
      BY <1>0, <2>4, <3>1 DEF AccountFor, RunsAreCounted
  <2>5. CASE AccountUnconfirmed
    <3>1. /\ unconfirmed' = unconfirmed + TurnDelta
          /\ UNCHANGED <<runs, spent, counted, others>> /\ pc # "idle"
      BY <2>5 DEF AccountUnconfirmed, goalRun
    <3>2. TurnsAreCountedOnce'
      BY <1>n, <2>2, <2>3, <3>1, ChargedRuns, <1>0
         DEF RunsAreCounted, TurnsAreCountedOnce
    <3> QED
      BY <1>0, <3>1, <3>2 DEF RunsAreCounted
  <2> QED
    BY <1>2, <2>4, <2>5
<1>3. CASE Others
  <2>1. UNCHANGED <<pc, runs, counted, spent, unconfirmed>>
    BY <1>3, Zenon DEF Others, slowVars, goalRun
  <2>2. goal'.turns - others'.turns = goal.turns - others.turns
    <3>1. CASE OtherLoopAccounts
      <4>1. PICK tokens \in Charges, turns \in 0..1 :
              /\ Account(tokens, turns)
              /\ others' = [tokens |-> others.tokens + tokens,
                            turns |-> others.turns + turns]
        BY <3>1 DEF OtherLoopAccounts
      <4>2. goal'.turns = goal.turns + turns
        BY <1>0, <4>1, AccountCharges, GoalBounds DEF Charges, TypeOK
      <4> QED
        BY <1>n, <4>1, <4>2
    <3>2. CASE SessionIsDeleted
      BY <1>0, <3>2 DEF SessionIsDeleted, TypeOK, GoalOK
    <3> QED
      BY <1>3, <3>1, <3>2 DEF Others
  <2>4. goal'.turns \in Nat /\ others'.turns \in Nat
    BY NextKeepsGoal DEF GoalOK
  <2> QED
    BY <1>n, <2>1, <2>2, <2>4, ChargedRuns, <1>0
       DEF RunsAreCounted, TurnsAreCountedOnce
<1>4. CASE (Running \/ Cancel \/ UNCHANGED vars)
             /\ ~AccountFor /\ ~AccountUnconfirmed
  <2>1. /\ UNCHANGED <<runs, counted, spent, unconfirmed, goalVars>>
        /\ pc' # "idle" => pc # "idle"
    BY <1>4
       DEF Running, RaiseAtStart, StopAtHead, BeginTurn, Streaming, RetryOnce,
           StreamRaises, Receive, AccountNothing, SkipFiltered, Nudge,
           NothingSaid, Draft, CallTools, Reject, SafeFallback, Accept,
           Validate, ReadGoal, ContinueGoal, AnswerEnds, TurnRaises,
           DecideStatus, WriteEnd, TraceError, MarkFailed, RaiseAtEnd, Cancel,
           Aside, vars, slowVars, goalRun, goalVars, Goto
  <2> QED
    BY <1>0, <2>1 DEF RunsAreCounted, TurnsAreCountedOnce, goalVars
<1> QED
  BY <1>1, <1>2, <1>3, <1>4 DEF Next

\* What was read of the goal holds what the loop had charged, and stays so: the
\* loop charges nothing before it has used it.
LEMMA NextKeepsSnapshot == IInv /\ [Next]_vars => SnapshotFits'
<1> SUFFICES ASSUME IInv, [Next]_vars PROVE SnapshotFits'
  OBVIOUS
<1> USE DEF GoalNeedsContinuation
<1>1. CASE snapshot' = NoSnapshot
  <2>1. ~GoalNeedsContinuation(snapshot')
    BY <1>1 DEF NoSnapshot, Continuable
  <2> QED
    BY <2>1 DEF SnapshotFits
<1>2. CASE ReadGoal /\ snapshot' = goal
  <2>1. UNCHANGED <<spent, unconfirmed>>
    BY <1>2 DEF ReadGoal, Goto, slowVars
  <2>2. Cardinality(spent) + unconfirmed <= goal.turns
    BY ChargedRuns DEF IInv, RunsAreCounted, TurnsAreCountedOnce, TypeOK,
                       CountsOK, GoalOK
  <2> QED
    BY <1>2, <2>1, <2>2 DEF SnapshotFits, IInv, BudgetIsKept, Crosses
<1>3. CASE snapshot' = snapshot /\ pc' = "decide"
  <2>1. (pc = "decide" /\ UNCHANGED <<spent, unconfirmed>>) \/ ReadGoal
    BY <1>3, Zenon
       DEF Next, Running, RaiseAtStart, StopAtHead, BeginTurn, Streaming,
           RetryOnce, StreamRaises, Receive, AccountFor, AccountUnconfirmed,
           AccountNothing, SkipFiltered, Nudge, NothingSaid, Draft, CallTools,
           Reject, SafeFallback, Accept, ContinueGoal, AnswerEnds, TurnRaises,
           DecideStatus, WriteEnd, TraceError, MarkFailed, RaiseAtEnd, StartRun,
           Cancel, Others, vars, slowVars, Goto
  <2>2. CASE ReadGoal
    BY <1>1, <1>2, <2>2 DEF ReadGoal
  <2> QED
    BY <1>3, <2>1, <2>2 DEF SnapshotFits, IInv, Crosses
<1>4. CASE snapshot' = snapshot /\ pc' # "decide"
  BY <1>4 DEF SnapshotFits, IInv, Crosses
<1> QED
  BY <1>1, <1>2, <1>3, <1>4, SnapshotsAreRead

LEMMA NextKeepsTurns == IInv /\ [Next]_vars => TurnsFit'
<1> SUFFICES ASSUME TypeOK, TurnsFit, [Next]_vars PROVE TurnsFit'
  BY DEF IInv
<1> USE LoopBounds DEF TurnsFit, InATurn, slowVars, endVars, Goto
<1>n. iteration \in Nat
  BY DEF TypeOK, CountsOK
<1>1. CASE StartRun \/ RaiseAtStart \/ StopAtHead \/ BeginTurn
  BY <1>n, <1>1 DEF StartRun, RaiseAtStart, StopAtHead, BeginTurn
<1>2. CASE Streaming \/ RetryOnce \/ StreamRaises \/ Receive
  BY <1>2 DEF Streaming, RetryOnce, StreamRaises, Receive
<1>3. CASE AccountFor \/ AccountUnconfirmed \/ AccountNothing
  BY <1>3 DEF AccountFor, AccountUnconfirmed, AccountNothing
<1>4. CASE SkipFiltered \/ Nudge \/ NothingSaid \/ Draft \/ CallTools
  BY <1>4 DEF SkipFiltered, Nudge, NothingSaid, Draft, CallTools
<1>5. CASE Reject \/ SafeFallback \/ Accept
  BY <1>5 DEF Reject, SafeFallback, Accept, Validate
<1>6. CASE ReadGoal \/ ContinueGoal \/ AnswerEnds \/ TurnRaises
  BY <1>6 DEF ReadGoal, ContinueGoal, AnswerEnds, TurnRaises
<1>7. CASE DecideStatus \/ WriteEnd \/ TraceError \/ MarkFailed \/ RaiseAtEnd
  BY <1>7 DEF DecideStatus, WriteEnd, TraceError, MarkFailed, RaiseAtEnd
<1>8. CASE Cancel \/ Others \/ UNCHANGED vars
  BY <1>8 DEF Cancel, Others, vars
<1> QED
  BY <1>1, <1>2, <1>3, <1>4, <1>5, <1>6, <1>7, <1>8 DEF Next, Running
-----------------------------------------------------------------------------
\* The inductive invariant holds in every state of every run.
THEOREM LoopInvariant == Spec => []IInv
<1>1. IInv /\ [Next]_vars => IInv'
  BY NextKeepsStatuses, NextKeepsCounts, NextKeepsFlags, NextKeepsGoal,
     NextKeepsDrafts, NextKeepsReports, NextKeepsRuns, NextKeepsSnapshot,
     NextKeepsTurns DEF IInv, TypeOK
<1> QED
  BY InitIInv, <1>1, PTL DEF Spec

\* What run() returns, state.json and the end of the trace agree
\* (AgentLoop.run, 1204-1276).
THEOREM ReportsAlwaysAgree == Spec => []ReportsAgree
<1>1. IInv => ReportsAgree
  BY DEF IInv, ReportsInOrder
<1> QED
  BY LoopInvariant, <1>1, PTL

\* A draft the grounding rejects was not on the display
\* (GroundingLedger.should_buffer_output, validate_final_answer).
THEOREM RejectedDraftsAreHidden == Spec => []RejectedIsNotShown
<1>1. IInv => RejectedIsNotShown
  BY DEF IInv, DraftsAreHidden, RejectedIsNotShown, InATurn
<1> QED
  BY LoopInvariant, <1>1, PTL

\* The goal is charged one turn for each run that noted its charge and one for
\* each charge that was committed and reported as failed
\* (AgentLoop.run, 898-922; GoalStore.account_usage, 786-819).
THEOREM TurnsCountOnce == Spec => []TurnsAreCountedOnce
<1>1. IInv => TurnsAreCountedOnce
  BY DEF IInv, RunsAreCounted
<1> QED
  BY LoopInvariant, <1>1, PTL

\* A run is continued for a goal only if the goal, as it was read with all that
\* the loop had charged, was within its budget
\* (AgentLoop.run, 1076-1144; GoalStore.account_usage).
THEOREM ContinuesInBudget == Spec => ContinuesWithinBudget
<1> DEFINE WithinBudget ==
      continuations' > continuations =>
        /\ TokenBudget > 0 => snapshot.tokens < TokenBudget
        /\ TurnBudget > 0 => snapshot.turns < TurnBudget
        /\ Cardinality(spent) + unconfirmed <= snapshot.turns
<1>1. ASSUME IInv, [Next]_vars PROVE [WithinBudget]_vars
  <2>1. CASE ContinueGoal
    <3>1. /\ ~Crosses(snapshot.tokens, snapshot.turns)
          /\ Cardinality(spent) + unconfirmed <= snapshot.turns
      BY <1>1, <2>1 DEF IInv, SnapshotFits, ContinueGoal
    <3>2. snapshot.tokens \in Nat /\ snapshot.turns \in Nat
      BY <1>1 DEF IInv, TypeOK, GoalOK
    <3> QED
      BY <3>1, <3>2, GoalBounds DEF Crosses
  <2>2. CASE ~ContinueGoal
    <3>1. continuations' = continuations \/ continuations' = 0
      BY <1>1, <2>2, Zenon
         DEF Next, Running, RaiseAtStart, StopAtHead, BeginTurn, Streaming,
             RetryOnce, StreamRaises, Receive, AccountFor, AccountUnconfirmed,
             AccountNothing, SkipFiltered, Nudge, NothingSaid, Draft, CallTools,
             Reject, SafeFallback, Accept, ReadGoal, AnswerEnds, TurnRaises,
             DecideStatus, WriteEnd, TraceError, MarkFailed, RaiseAtEnd,
             StartRun, Cancel, Others, Aside, vars, goalRun
    <3>2. continuations \in Nat
      BY <1>1 DEF IInv, TypeOK, CountsOK
    <3> QED
      BY <3>1, <3>2
  <2> QED
    BY <2>1, <2>2
<1> QED
  BY LoopInvariant, <1>1, PTL DEF Spec, ContinuesWithinBudget
-----------------------------------------------------------------------------
(***************************************************************************)
(* The loop implements its contract                                        *)
(***************************************************************************)
\* A step the contract does not see.
Unseen ==
  /\ pc \notin {"idle", "end"} <=> pc' \notin {"idle", "end"}
  /\ UNCHANGED <<runs, iteration, cancel, result>>

LEMMA StepsKeepContract ==
  ASSUME IInv, [Next]_vars
  PROVE  [Contract!Next]_(Contract!vars)
<1> USE DEF slowVars, endVars, Goto
<1>1. CASE StartRun
  <2>1. Contract!Begin
    BY <1>1 DEF StartRun, Contract!Begin, KeptCancel
  <2> QED
    BY <2>1 DEF Contract!Next
<1>2. CASE BeginTurn
  <2>1. Contract!Turn
    BY <1>2 DEF BeginTurn, Contract!Turn
  <2> QED
    BY <2>1 DEF Contract!Next
<1>3. CASE Cancel
  <2>1. Contract!AskCancel
    BY <1>3 DEF Cancel, Contract!AskCancel
  <2> QED
    BY <2>1 DEF Contract!Next
<1>4. CASE DecideStatus \/ MarkFailed
  <2>1. Contract!End
    BY <1>4 DEF DecideStatus, MarkFailed, Verdict, Contract!End, IInv, TurnsFit
  <2> QED
    BY <2>1 DEF Contract!Next
<1>5. CASE RaiseAtStart \/ RaiseAtEnd
  <2>1. Contract!Fail
    BY <1>5 DEF RaiseAtStart, RaiseAtEnd, Contract!Fail
  <2> QED
    BY <2>1 DEF Contract!Next
<1>6. CASE Unseen
  BY <1>6 DEF Unseen, Contract!vars
<1>7. CASE StopAtHead \/ Streaming \/ RetryOnce \/ StreamRaises \/ Receive
  <2>1. Unseen
    BY <1>7 DEF Unseen, StopAtHead, Streaming, RetryOnce, StreamRaises, Receive
  <2> QED
    BY <1>6, <2>1
<1>8. CASE AccountFor \/ AccountUnconfirmed \/ AccountNothing
  <2>1. Unseen
    BY <1>8 DEF Unseen, AccountFor, AccountUnconfirmed, AccountNothing
  <2> QED
    BY <1>6, <2>1
<1>9. CASE SkipFiltered \/ Nudge \/ NothingSaid \/ Draft \/ CallTools
  <2>1. Unseen
    BY <1>9 DEF Unseen, SkipFiltered, Nudge, NothingSaid, Draft, CallTools
  <2> QED
    BY <1>6, <2>1
<1>10. CASE \/ Reject \/ SafeFallback \/ Accept
            \/ ReadGoal \/ ContinueGoal \/ AnswerEnds
  <2>1. Unseen
    BY <1>10 DEF Unseen, Reject, SafeFallback, Accept, Validate, ReadGoal,
                 ContinueGoal, AnswerEnds
  <2> QED
    BY <1>6, <2>1
<1>11. CASE TurnRaises \/ WriteEnd \/ TraceError \/ Others \/ UNCHANGED vars
  <2>1. Unseen
    BY <1>11 DEF Unseen, TurnRaises, WriteEnd, TraceError, Others, vars
  <2> QED
    BY <1>6, <2>1
<1> QED
  BY <1>1, <1>2, <1>3, <1>4, <1>5, <1>7, <1>8, <1>9, <1>10, <1>11
     DEF Next, Running

\* Every behaviour of the loop is one the contract allows (AgentLoop.cancel
\* and AgentLoop.run, 617-643, 712-716, 1204-1276).
THEOREM LoopKeepsItsContract == Spec => ImplementsContract
<1>1. Init => Contract!Init
  BY DEF Init, Contract!Init
<1> QED
  BY LoopInvariant, <1>1, StepsKeepContract, PTL
     DEF Spec, ImplementsContract, Contract!Spec
=============================================================================
