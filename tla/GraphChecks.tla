---------------------------- MODULE GraphChecks ----------------------------
(***************************************************************************)
(* What a run does with its task graph: start_run calls validate_dag       *)
(* (runtime.py:117) and _execute_run layers the same tasks with            *)
(* topological_layers (runtime.py:253).  To see its exception too, the     *)
(* layering also takes the graphs validate_dag turned away.                *)
(***************************************************************************)
EXTENDS DagValidation, DagLayers

vars == <<dependsOn, validationVars, layeringVars>>

Init == ValidationInit /\ LayeringInit

Validate == ValidationNext /\ UNCHANGED layeringVars
Layer    == verdict # "none" /\ LayeringNext /\ UNCHANGED validationVars

Next == Validate \/ Layer

Spec == Init /\ [][Next]_vars
-----------------------------------------------------------------------------
\* A run that was created does not fail for its graph any more: what one
\* algorithm accepts, the other layers (task_store.py:184-281).
AcceptedIsLayered == verdict = "valid" => outcome # "raised"
=============================================================================
