--------------------------- MODULE DagValidation ---------------------------
(***************************************************************************)
(* validate_dag (swarm/task_store.py:184-234): the check start_run makes   *)
(* before a run is created.  First every name in depends_on must be a      *)
(* task; then a depth-first search colours the tasks WHITE, GRAY, BLACK    *)
(* and raises when it meets a GRAY one.  The recursive dfs(node) is an     *)
(* explicit stack: path, with the neighbours each frame has yet to visit.  *)
(***************************************************************************)
EXTENDS TaskGraph

VARIABLES
  color,      \* color of each task
  path,       \* the GRAY tasks, outermost call first
  remaining,  \* what the loop over graph[node] has left, per task
  verdict     \* "none" while running, then "valid", "unknown" or "cycle"

validationVars == <<color, path, remaining, verdict>>

Color == {"white", "gray", "black"}

ValidationInit ==
  /\ dependsOn \in Graphs
  /\ color = [t \in Task |-> "white"]
  /\ path = <<>>
  /\ remaining = [t \in Task |-> {}]
  /\ verdict = IF NoUnknown(dependsOn) THEN "none" ELSE "unknown"

Top == path[Len(path)]

\* The entry of dfs(node): paint it and open the loop over its neighbours.
Enter(t) ==
  /\ color' = [color EXCEPT ![t] = "gray"]
  /\ path' = Append(path, t)

\* for tid in all_ids: if color[tid] == WHITE: dfs(tid).  The order of the
\* Python set is not specified, so any WHITE task may be next.
StartRoot(t) ==
  /\ verdict = "none"
  /\ path = <<>>
  /\ color[t] = "white"
  /\ Enter(t)
  /\ remaining' = [remaining EXCEPT ![t] = dependsOn[t]]
  /\ UNCHANGED <<dependsOn, verdict>>

\* Mutant of Visit: a GRAY neighbour is passed over like a BLACK one.
VisitPassesGray(n) ==
  /\ verdict = "none"
  /\ path # <<>>
  /\ n \in remaining[Top]
  /\ IF color[n] = "white"
     THEN /\ Enter(n)
          /\ remaining' = [remaining EXCEPT ![Top] = @ \ {n}, ![n] = dependsOn[n]]
     ELSE /\ remaining' = [remaining EXCEPT ![Top] = @ \ {n}]
          /\ UNCHANGED <<color, path>>
  /\ UNCHANGED <<dependsOn, verdict>>

\* Mutant of Visit: any neighbour seen before, GRAY or BLACK, is a back edge.
VisitRejectsSeen(n) ==
  /\ verdict = "none"
  /\ path # <<>>
  /\ n \in remaining[Top]
  /\ \/ /\ color[n] # "white"
        /\ verdict' = "cycle"
        /\ UNCHANGED <<color, path, remaining>>
     \/ /\ color[n] = "white"
        /\ Enter(n)
        /\ remaining' = [remaining EXCEPT ![Top] = @ \ {n}, ![n] = dependsOn[n]]
        /\ UNCHANGED verdict
  /\ UNCHANGED dependsOn

\* One iteration of the loop over graph[node]: a GRAY neighbour is a back
\* edge, a WHITE one is searched, a BLACK one is passed over.
Visit(n) ==
  /\ verdict = "none"
  /\ path # <<>>
  /\ n \in remaining[Top]
  /\ \/ /\ color[n] = "gray"
        /\ verdict' = "cycle"
        /\ UNCHANGED <<color, path, remaining>>
     \/ /\ color[n] = "white"
        /\ Enter(n)
        /\ remaining' = [remaining EXCEPT ![Top] = @ \ {n}, ![n] = dependsOn[n]]
        /\ UNCHANGED verdict
     \/ /\ color[n] = "black"
        /\ remaining' = [remaining EXCEPT ![Top] = @ \ {n}]
        /\ UNCHANGED <<color, path, verdict>>
  /\ UNCHANGED dependsOn

\* The end of dfs(node): pop it and paint it BLACK.
Leave ==
  /\ verdict = "none"
  /\ path # <<>>
  /\ remaining[Top] = {}
  /\ color' = [color EXCEPT ![Top] = "black"]
  /\ path' = SubSeq(path, 1, Len(path) - 1)
  /\ UNCHANGED <<dependsOn, remaining, verdict>>

\* The loop over all_ids ran out: validate_dag returns.
Accept ==
  /\ verdict = "none"
  /\ path = <<>>
  /\ \A t \in Task : color[t] # "white"
  /\ verdict' = "valid"
  /\ UNCHANGED <<dependsOn, color, path, remaining>>

\* validate_dag has returned or raised.
Validated == verdict # "none" /\ UNCHANGED <<dependsOn, validationVars>>

ValidationNext ==
  \/ \E t \in Task : StartRoot(t) \/ Visit(t)
  \/ Leave
  \/ Accept
  \/ Validated
-----------------------------------------------------------------------------
SearchTypeOK ==
  /\ dependsOn \in Graphs
  /\ color \in [Task -> Color]
  /\ path \in Seq(Task)
  /\ remaining \in [Task -> SUBSET (Task \cup Unknown)]
  /\ verdict \in {"none", "valid", "unknown", "cycle"}

\* What start_run relies on (runtime.py:117): a graph validate_dag lets
\* through has no cycle and no unknown name.
AcceptsOnlyDags == verdict = "valid" => ValidDag(dependsOn)

\* And it turns no good graph away: whenever it raises, the graph really has
\* a cycle or an unknown name.
RejectsOnlyBadGraphs ==
  verdict \in {"unknown", "cycle"} => ~ValidDag(dependsOn)
-----------------------------------------------------------------------------
\* The strengthening both answers follow from.  The path holds exactly the
\* GRAY tasks, and each depends on the next; a BLACK task's dependencies are
\* BLACK; a GRAY one's are BLACK, still to visit, or the next task of the
\* path; and the BLACK tasks form an acyclic graph.
PathIsGray ==
  /\ \A i \in 1..Len(path) : color[path[i]] = "gray"
  /\ \A t \in Task : color[t] = "gray" => \E i \in 1..Len(path) : path[i] = t
  /\ \A i, j \in 1..Len(path) : path[i] = path[j] => i = j

PathFollowsDependencies ==
  \A i \in 1..(Len(path) - 1) : path[i + 1] \in dependsOn[path[i]]

Unvisited ==
  \A t \in Task : remaining[t] \subseteq dependsOn[t]

BlackIsClosed ==
  \A t \in Task : color[t] = "black" =>
    \A d \in dependsOn[t] : d \in Task /\ color[d] = "black"

GrayIsAccountedFor ==
  \A i \in 1..Len(path) : \A d \in dependsOn[path[i]] :
    \/ d \in remaining[path[i]]
    \/ d \in Task /\ color[d] = "black"
    \/ i < Len(path) /\ d = path[i + 1]

BlackIsAcyclic ==
  \A S \in SUBSET {t \in Task : color[t] = "black"} :
    S # {} => \E t \in S : dependsOn[t] \cap S = {}

SearchInv ==
  /\ SearchTypeOK
  /\ verdict # "unknown" => NoUnknown(dependsOn)
  /\ verdict = "unknown" => ~NoUnknown(dependsOn)
  /\ PathIsGray
  /\ PathFollowsDependencies
  /\ Unvisited
  /\ BlackIsClosed
  /\ GrayIsAccountedFor
  /\ BlackIsAcyclic
  /\ verdict = "cycle" => ~Acyclic(dependsOn)
  /\ verdict = "valid" => \A t \in Task : color[t] = "black"
=============================================================================
