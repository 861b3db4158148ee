----------------------------- MODULE SwarmSpec -----------------------------
(***************************************************************************)
(* What a swarm run promises, without threads, layers or files: a task     *)
(* starts only when everything it depends on has succeeded, ends once, is  *)
(* cancelled only if somebody asked for it and nothing starts afterwards,  *)
(* and the verdict is passed once, when no task is under way.              *)
(***************************************************************************)
CONSTANTS
  Task,       \* the tasks of the run
  DependsOn   \* the tasks each one depends on

VARIABLES
  stage,      \* how far each task is
  asked,      \* whether cancellation has been asked for
  verdict     \* "open" until the run is decided

vars == <<stage, asked, verdict>>

Stage == {"waiting", "started", "succeeded", "failed", "cancelled"}

Init ==
  /\ stage = [t \in Task |-> "waiting"]
  /\ asked = FALSE
  /\ verdict = "open"

Start(t) ==
  /\ verdict = "open"
  /\ stage[t] = "waiting"
  /\ \A d \in DependsOn[t] : stage[d] = "succeeded"
  /\ \A u \in Task : stage[u] # "cancelled"
  /\ stage' = [stage EXCEPT ![t] = "started"]
  /\ UNCHANGED <<asked, verdict>>

Succeed(t) ==
  /\ verdict = "open"
  /\ stage[t] = "started"
  /\ stage' = [stage EXCEPT ![t] = "succeeded"]
  /\ UNCHANGED <<asked, verdict>>

\* A started task fails; so does one that could start but has no agent.
Fail(t) ==
  /\ verdict = "open"
  /\ \/ stage[t] = "started"
     \/ stage[t] = "waiting" /\ \A d \in DependsOn[t] : stage[d] = "succeeded"
  /\ stage' = [stage EXCEPT ![t] = "failed"]
  /\ UNCHANGED <<asked, verdict>>

Ask ==
  /\ ~asked
  /\ asked' = TRUE
  /\ UNCHANGED <<stage, verdict>>

\* Cancelling takes the tasks that wait, never one under way or finished.
Cancel(t) ==
  /\ verdict = "open"
  /\ asked
  /\ stage[t] = "waiting"
  /\ \A u \in Task : stage[u] # "started"
  /\ stage' = [stage EXCEPT ![t] = "cancelled"]
  /\ UNCHANGED <<asked, verdict>>

Conclude ==
  /\ verdict = "open"
  /\ \A t \in Task : stage[t] # "started"
  /\ verdict' = IF asked THEN "cancelled"
                ELSE IF \A t \in Task : stage[t] = "succeeded" THEN "completed"
                ELSE "failed"
  /\ UNCHANGED <<stage, asked>>

Next ==
  \/ \E t \in Task : Start(t) \/ Succeed(t) \/ Fail(t) \/ Cancel(t)
  \/ Ask
  \/ Conclude

Spec == Init /\ [][Next]_vars
=============================================================================
