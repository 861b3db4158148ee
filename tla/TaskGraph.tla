----------------------------- MODULE TaskGraph -----------------------------
(***************************************************************************)
(* The dependency graph of a swarm run: each task names, in depends_on,    *)
(* the tasks that must complete before it (swarm/models.py, SwarmTask).    *)
(* Both graph algorithms of swarm/task_store.py start from such a graph.   *)
(*                                                                         *)
(* depends_on is a list in the code; it is a set here.  A repeated entry   *)
(* changes nothing: in_degree counts it twice and dependents decrements it *)
(* twice (task_store.py:253-255, 271-272).                                 *)
(***************************************************************************)
EXTENDS FiniteSets, Integers, Sequences

CONSTANTS
  Task,      \* the identifiers of the tasks of one run
  Unknown    \* identifiers a preset may name in depends_on that are no task

VARIABLE dependsOn  \* depends_on of the tasks of the run; never changes

ASSUME TaskAssumption == IsFiniteSet(Task) /\ Task # {}
ASSUME UnknownAssumption == IsFiniteSet(Unknown) /\ Task \cap Unknown = {}

\* Every value depends_on can have in a preset: nothing restricts it before
\* validate_dag runs.
Graphs == [Task -> SUBSET (Task \cup Unknown)]

\* The reference definition both algorithms are judged by: a graph has no
\* cycle iff every nonempty set of tasks has a member that depends on no
\* member of the set.
Acyclic(G) ==
  \A S \in SUBSET Task : S # {} => \E t \in S : G[t] \cap S = {}

NoUnknown(G) == \A t \in Task : G[t] \subseteq Task

ValidDag(G) == Acyclic(G) /\ NoUnknown(G)
=============================================================================
