--------------------------- MODULE AgentContract ---------------------------
(***************************************************************************)
(* What AgentLoop promises to the session that owns it: runs one after the  *)
(* other, each of at most MaxTurns turns, none of them begun after someone  *)
(* asked to cancel, and a verdict that says so.  The promises are those of  *)
(* the docstring of cancel (agent/loop.py:617-623) and of the comment at    *)
(* the head of run (636-638): cancellation accepted while the first run is  *)
(* queued is kept.                                                         *)
(***************************************************************************)
EXTENDS Integers

CONSTANT MaxTurns

VARIABLES
  running,  \* a run has begun and has no verdict
  served,   \* runs begun
  turns,    \* turns of the current run
  cancel,   \* someone asked to cancel
  verdict   \* of the last run

vars == <<running, served, turns, cancel, verdict>>

Init ==
  /\ running = FALSE
  /\ served = 0
  /\ turns = 0
  /\ cancel = FALSE
  /\ verdict = "none"

Begin ==
  /\ ~running
  /\ running' = TRUE
  /\ served' = served + 1
  /\ turns' = 0
  /\ cancel' = (served = 0 /\ cancel)
  /\ verdict' = "none"

Turn ==
  /\ running
  /\ ~cancel
  /\ turns < MaxTurns
  /\ turns' = turns + 1
  /\ UNCHANGED <<running, served, cancel, verdict>>

AskCancel ==
  /\ cancel' = TRUE
  /\ UNCHANGED <<running, served, turns, verdict>>

\* A run succeeds only if it was not cancelled and had a turn, and it is
\* reported cancelled only if it was.  It may fail in either case.
End ==
  /\ running
  /\ running' = FALSE
  /\ \/ verdict' = "cancelled" /\ cancel
     \/ verdict' = "success" /\ ~cancel /\ turns > 0
     \/ verdict' = "failed"
  /\ UNCHANGED <<served, turns, cancel>>

\* run() raises: the session gets no verdict.
Fail ==
  /\ running' = FALSE
  /\ verdict' = "raised"
  /\ UNCHANGED <<served, turns, cancel>>

Next == Begin \/ Turn \/ AskCancel \/ End \/ Fail
Spec == Init /\ [][Next]_vars
=============================================================================
