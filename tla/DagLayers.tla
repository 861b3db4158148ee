----------------------------- MODULE DagLayers -----------------------------
(***************************************************************************)
(* topological_layers (swarm/task_store.py:237-281): Kahn's algorithm,     *)
(* one layer at a time.  The runtime runs the tasks of a layer in parallel *)
(* and the layers in sequence (runtime.py:253-258), so the layers decide   *)
(* what may run together and what must wait.                               *)
(***************************************************************************)
EXTENDS TaskGraph

VARIABLES
  inDegree,   \* in_degree: dependencies of a task not yet relaxed
  queue,      \* queue: tasks found ready, for the next layer
  todo,       \* tasks of the current layer the inner loop has not reached
  layers,     \* the layers built so far
  processed,  \* the count compared with len(tasks) at the end
  outcome     \* "none" while running, then "layers" or "raised"

layeringVars == <<inDegree, queue, todo, layers, processed, outcome>>

\* The queue and a layer are lists in the code.  Their order never decides
\* which layer a task lands in, so they are sets here; a task cannot be in
\* the queue twice because its in_degree reaches 0 once.
LayeringInit ==
  /\ dependsOn \in Graphs
  /\ inDegree = [t \in Task |-> Cardinality(dependsOn[t])]
  /\ queue = {t \in Task : inDegree[t] = 0}
  /\ todo = {}
  /\ layers = <<>>
  /\ processed = 0
  /\ outcome = "none"

\* The head of the while loop: the whole queue becomes the next layer.
TakeLayer ==
  /\ outcome = "none"
  /\ todo = {}
  /\ queue # {}
  /\ layers' = Append(layers, queue)
  /\ processed' = processed + Cardinality(queue)
  /\ todo' = queue
  /\ queue' = {}
  /\ UNCHANGED <<dependsOn, inDegree, outcome>>

Dependents(t) == {u \in Task : t \in dependsOn[u]}

\* Mutant of Relax: a dependent is queued with its first completed dependency.
RelaxTooEarly(t) ==
  /\ outcome = "none"
  /\ t \in todo
  /\ todo' = todo \ {t}
  /\ inDegree' = [u \in Task |->
                    IF u \in Dependents(t) THEN inDegree[u] - 1 ELSE inDegree[u]]
  /\ queue' = queue \cup {u \in Dependents(t) : inDegree'[u] <= 1}
  /\ UNCHANGED <<dependsOn, layers, processed, outcome>>

\* One task of the layer: every dependent loses one from its in_degree and
\* is queued when none is left.
Relax(t) ==
  /\ outcome = "none"
  /\ t \in todo
  /\ todo' = todo \ {t}
  /\ inDegree' = [u \in Task |->
                    IF u \in Dependents(t) THEN inDegree[u] - 1 ELSE inDegree[u]]
  /\ queue' = queue \cup {u \in Dependents(t) : inDegree'[u] = 0}
  /\ UNCHANGED <<dependsOn, layers, processed, outcome>>

\* Mutant of Finish: the tasks left out are not noticed.
FinishUnchecked ==
  /\ outcome = "none"
  /\ todo = {}
  /\ queue = {}
  /\ outcome' = "layers"
  /\ UNCHANGED <<dependsOn, inDegree, queue, todo, layers, processed>>

\* The loop is over: return the layers, or raise if a task was left out.
Finish ==
  /\ outcome = "none"
  /\ todo = {}
  /\ queue = {}
  /\ outcome' = IF processed = Cardinality(Task) THEN "layers" ELSE "raised"
  /\ UNCHANGED <<dependsOn, inDegree, queue, todo, layers, processed>>

Layered == outcome # "none" /\ UNCHANGED <<dependsOn, layeringVars>>

LayeringNext ==
  \/ TakeLayer
  \/ \E t \in Task : Relax(t)
  \/ Finish
  \/ Layered
-----------------------------------------------------------------------------
Placed == UNION {layers[i] : i \in 1..Len(layers)}

\* The tasks whose dependents have been told.
Relaxed == Placed \ todo

LayeringTypeOK ==
  /\ dependsOn \in Graphs
  /\ inDegree \in [Task -> Nat]
  /\ queue \in SUBSET Task
  /\ todo \in SUBSET Task
  /\ layers \in Seq(SUBSET Task)
  /\ processed \in Nat
  /\ outcome \in {"none", "layers", "raised"}

\* Every dependency of a task lies in a strictly earlier layer: no task can
\* be submitted together with, or before, one it depends on.
DependenciesComeFirst ==
  \A i \in 1..Len(layers) : \A t \in layers[i] : \A d \in dependsOn[t] :
    \E j \in 1..(i - 1) : d \in layers[j]

\* No task waits a layer longer than it must: outside the first layer, each
\* has a dependency in the layer just before its own.
LayersAreEarliest ==
  \A i \in 2..Len(layers) : \A t \in layers[i] :
    dependsOn[t] \cap layers[i - 1] # {}

\* The answer is right: layers that hold every task exactly once, for a
\* graph without cycles; an exception for any other.
VerdictIsRight ==
  /\ outcome = "layers" =>
       /\ ValidDag(dependsOn)
       /\ Placed = Task
       /\ \A i, j \in 1..Len(layers) : layers[i] \cap layers[j] # {} => i = j
  /\ outcome = "raised" => ~ValidDag(dependsOn)
-----------------------------------------------------------------------------
\* The strengthening.  in_degree counts the dependencies not yet relaxed,
\* and the queue holds exactly the unplaced tasks that have none of those.
DegreeIsExact ==
  \A t \in Task : inDegree[t] = Cardinality(dependsOn[t] \ Relaxed)

QueueIsExact ==
  queue = {t \in Task : t \notin Placed /\ dependsOn[t] \subseteq Relaxed}

\* A queued task was reached from the current layer.
QueueIsFresh ==
  Len(layers) > 0 => \A t \in queue : dependsOn[t] \cap layers[Len(layers)] # {}

PlacedIsClosed == \A t \in Placed : dependsOn[t] \subseteq Relaxed

PlacedIsAcyclic ==
  \A S \in SUBSET Placed : S # {} => \E t \in S : dependsOn[t] \cap S = {}

LayersAreDisjoint ==
  \A i, j \in 1..Len(layers) : layers[i] \cap layers[j] # {} => i = j

LayeringInv ==
  /\ LayeringTypeOK
  /\ todo \subseteq Placed
  /\ Len(layers) = 0 => todo = {}
  /\ Len(layers) > 0 => todo \subseteq layers[Len(layers)]
  /\ DegreeIsExact
  /\ QueueIsExact
  /\ QueueIsFresh
  /\ PlacedIsClosed
  /\ PlacedIsAcyclic
  /\ LayersAreDisjoint
  /\ DependenciesComeFirst
  /\ LayersAreEarliest
  /\ processed = Cardinality(Placed)
  /\ outcome # "none" => todo = {} /\ queue = {}
  /\ outcome = "layers" <=> outcome # "none" /\ processed = Cardinality(Task)
=============================================================================
