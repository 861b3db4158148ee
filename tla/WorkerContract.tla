--------------------------- MODULE WorkerContract ---------------------------
(***************************************************************************)
(* What the coordinator of a swarm run relies on when it hands a task to a *)
(* pool thread: the thread makes at most MaxRetries + 1 attempts, each     *)
(* only after the one before it failed; it comes back once, with what its  *)
(* last attempt came to, and with a failure only when no attempt is left;  *)
(* or an attempt raises, and the thread with it.                           *)
(***************************************************************************)
EXTENDS Integers

CONSTANT MaxRetries  \* max_retries of the agent

VARIABLES
  attempts,  \* run_worker calls begun
  outcome,   \* "running", or the status the last of them returned
  answer     \* "none", "raised", or the status of the WorkerResult

vars == <<attempts, outcome, answer>>

Status == {"completed", "failed", "timeout", "token_limit", "incomplete"}

Init == attempts = 1 /\ outcome = "running" /\ answer = "none"

AttemptEnds ==
  /\ answer = "none"
  /\ outcome = "running"
  /\ outcome' \in Status
  /\ UNCHANGED <<attempts, answer>>

\* Nothing but a failure is tried again.
Retry ==
  /\ answer = "none"
  /\ outcome = "failed"
  /\ attempts <= MaxRetries
  /\ attempts' = attempts + 1
  /\ outcome' = "running"
  /\ UNCHANGED answer

Return ==
  /\ answer = "none"
  /\ outcome \in Status
  /\ outcome = "failed" => attempts > MaxRetries
  /\ answer' = outcome
  /\ UNCHANGED <<attempts, outcome>>

Raise ==
  /\ answer = "none"
  /\ outcome = "running"
  /\ answer' = "raised"
  /\ UNCHANGED <<attempts, outcome>>

Next == AttemptEnds \/ Retry \/ Return \/ Raise

Spec == Init /\ [][Next]_vars
=============================================================================
