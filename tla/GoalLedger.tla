----------------------------- MODULE GoalLedger -----------------------------
(***************************************************************************)
(* The research goal of a session as the agent loop meets it               *)
(* (goal/store.py, goal/context.py): one row of the table goals, read in    *)
(* snapshots and written in transactions that hold SQLite's write lock      *)
(* from their first statement (BEGIN IMMEDIATE), so that a transaction is   *)
(* one step.                                                               *)
(*                                                                         *)
(* In this version of the code replace_goal, update_status and              *)
(* append_evidence raise before they have changed anything: they name       *)
(* members that the enumerations lack.  A goal is then one that an earlier  *)
(* version wrote; it is accounted for, edited in its wording, or deleted.   *)
(***************************************************************************)
EXTENDS Integers

CONSTANTS
  InitialStatuses,  \* of the goal an earlier version left, or "deleted"
  TokenBudget,  \* token_budget of the goal, or 0 for none
  TurnBudget,   \* turn_budget of the goal, or 0 for none
  MaxTokens,    \* bound on the tokens a response is charged with
  MaxOthers     \* bound on what others account for

CurrentStatuses == {"active", "paused", "waiting_user", "needs_refresh",
                    "insufficient_evidence", "compliance_blocked",
                    "budget_limited"}
Continuable == {"active", "needs_refresh", "insufficient_evidence"}
GoalStatuses == CurrentStatuses \cup {"deleted"}

ASSUME GoalBounds ==
  /\ InitialStatuses \subseteq GoalStatuses
  /\ TokenBudget \in Nat /\ TurnBudget \in Nat
  /\ MaxTokens \in Nat /\ MaxOthers \in Nat

VARIABLES
  goal,    \* the session's goal: its status, or "deleted", and its usage
  others   \* usage that other loops of the session accounted for

goalVars == <<goal, others>>

InitGoal ==
  /\ goal \in [status : InitialStatuses, tokens : {0}, turns : {0}]
  /\ others = [tokens |-> 0, turns |-> 0]

\* get_current_goal_context: the session has a goal to work on.
HasCurrentGoal == goal.status \in CurrentStatuses

\* What a caller holds that has read no goal, or one that was deleted.
NoSnapshot == [status |-> "deleted", tokens |-> 0, turns |-> 0]

\* goal_needs_continuation
GoalNeedsContinuation(snapshot) == snapshot.status \in Continuable

\* _require_mutable_goal; the caller names the goal it read when it started.
Mutable == goal.status \in CurrentStatuses

\* What _record_llm_usage makes of the usage a response reports: nothing, or a
\* number that is not negative.
Charges == 0..MaxTokens

\* Mutant of ContinuesWithinBudget: the budget may be used up exactly.
CrossesAbove(tokens, turns) ==
  \/ TokenBudget > 0 /\ tokens > TokenBudget
  \/ TurnBudget > 0 /\ turns > TurnBudget

Crosses(tokens, turns) ==
  \/ TokenBudget > 0 /\ tokens >= TokenBudget
  \/ TurnBudget > 0 /\ turns >= TurnBudget

\* The transaction of account_usage: a goal that has used up its budget becomes
\* budget_limited.  The caller gets the goal that is read back after it, or an
\* exception if that fails.
Account(tokens, turns) ==
  LET t == goal.tokens + tokens
      n == goal.turns + turns
  IN goal' = [status |-> IF Crosses(t, n) THEN "budget_limited"
                         ELSE goal.status,
              tokens |-> t,
              turns |-> n]

\* Another loop of the session accounts for a response of its own.
OtherLoopAccounts ==
  \E tokens \in Charges, turns \in 0..1 :
    /\ Mutable
    /\ others.tokens + tokens + others.turns + turns <= MaxOthers
    /\ Account(tokens, turns)
    /\ others' = [tokens |-> others.tokens + tokens,
                  turns |-> others.turns + turns]

\* delete_session_goals, when the user deletes the session.
SessionIsDeleted ==
  /\ goal.status # "deleted"
  /\ goal' = [goal EXCEPT !.status = "deleted"]
  /\ UNCHANGED others
=============================================================================
