------------------------- MODULE GraphChecks_proofs -------------------------
(***************************************************************************)
(* Proofs about validate_dag and topological_layers for every finite set   *)
(* of tasks and every graph: each keeps its own invariant, from which the  *)
(* answers of both follow, and that the second never contradicts the first.*)
(***************************************************************************)
EXTENDS GraphChecks, FiniteSetTheorems, SequenceTheorems, TLAPS

(* validate_dag *)

\* Appending to a sequence keeps the old elements and ends with the new one:
\* what path.append(node) does to the stack of dfs.
LEMMA AppendFacts ==
  ASSUME NEW S, NEW s \in Seq(S), NEW e \in S
  PROVE  /\ Append(s, e) \in Seq(S)
         /\ Len(Append(s, e)) = Len(s) + 1
         /\ \A i \in 1..Len(s) : Append(s, e)[i] = s[i]
         /\ Append(s, e)[Len(s) + 1] = e
  OBVIOUS

\* Dropping the last element keeps the others: what path.pop() does.
LEMMA PopFacts ==
  ASSUME NEW S, NEW s \in Seq(S), s # <<>>
  PROVE  /\ SubSeq(s, 1, Len(s) - 1) \in Seq(S)
         /\ Len(SubSeq(s, 1, Len(s) - 1)) = Len(s) - 1
         /\ \A i \in 1..(Len(s) - 1) : SubSeq(s, 1, Len(s) - 1)[i] = s[i]
<1> DEFINE n == Len(s) - 1
           r == SubSeq(s, 1, n)
<1>1. /\ n \in Nat
      /\ \A i \in 1..n : s[i] \in S
  BY EmptySeq
<1> HIDE DEF n
<1>2. /\ r \in Seq(S)
      /\ Len(r) = IF 1 <= n THEN n - 1 + 1 ELSE 0
      /\ \A i \in 1..(n - 1 + 1) : r[i] = s[1 + i - 1]
  BY <1>1, SubSeqProperties
<1> HIDE DEF r
<1>3. Len(r) = n /\ \A i \in 1..n : r[i] = s[i]
  BY <1>1, <1>2
<1> QED
  BY <1>2, <1>3 DEF n, r

\* The empty stack is the only one of length zero, and the top of any other
\* is one of its elements.
LEMMA TopFacts ==
  ASSUME SearchTypeOK, path # <<>>
  PROVE  /\ Len(path) \in 1..Len(path)
         /\ Top = path[Len(path)]
         /\ Top \in Task
  BY DEF SearchTypeOK, Top

LEMMA SearchInit == ValidationInit => SearchInv
<1> SUFFICES ASSUME ValidationInit PROVE SearchInv
  OBVIOUS
<1>1. SearchTypeOK
  BY DEF ValidationInit, SearchTypeOK, Color
<1>2. Len(path) = 0
  BY DEF ValidationInit
<1>3. PathIsGray /\ PathFollowsDependencies /\ GrayIsAccountedFor
  BY <1>2 DEF ValidationInit, PathIsGray, PathFollowsDependencies, GrayIsAccountedFor
<1>4. Unvisited /\ BlackIsClosed
  BY DEF ValidationInit, Unvisited, BlackIsClosed
<1>5. BlackIsAcyclic
  <2>1. {t \in Task : color[t] = "black"} = {}
    BY DEF ValidationInit
  <2> QED
    BY <2>1 DEF BlackIsAcyclic
<1> QED
  BY <1>1, <1>3, <1>4, <1>5 DEF SearchInv, ValidationInit

\* Entering a WHITE task (a root, or a neighbour of the top) keeps the
\* invariant on the BLACK tasks: they stay the same.
LEMMA EnterKeepsBlack ==
  ASSUME SearchInv, NEW t \in Task, color[t] = "white", Enter(t),
         UNCHANGED dependsOn
  PROVE  /\ {u \in Task : color'[u] = "black"} = {u \in Task : color[u] = "black"}
         /\ BlackIsClosed'
         /\ BlackIsAcyclic'
<1>1. \A u \in Task : color'[u] = "black" <=> color[u] = "black"
  BY DEF SearchInv, SearchTypeOK, Enter
<1>2. {u \in Task : color'[u] = "black"} = {u \in Task : color[u] = "black"}
  BY <1>1
<1>3. BlackIsClosed'
  BY <1>1 DEF SearchInv, BlackIsClosed
<1>4. BlackIsAcyclic'
  BY <1>2 DEF SearchInv, BlackIsAcyclic
<1> QED
  BY <1>2, <1>3, <1>4

\* A task that is not on the path and is pushed keeps the path exactly the
\* GRAY tasks.
LEMMA EnterKeepsGray ==
  ASSUME SearchInv, NEW t \in Task, color[t] = "white", Enter(t)
  PROVE  PathIsGray'
<1> USE DEF SearchInv, SearchTypeOK, Enter, Color
<1>1. /\ path' = Append(path, t)
      /\ Len(path') = Len(path) + 1
      /\ \A i \in 1..Len(path) : path'[i] = path[i]
      /\ path'[Len(path) + 1] = t
  BY AppendFacts
<1>2. /\ color'[t] = "gray"
      /\ \A u \in Task : u # t => color'[u] = color[u]
  OBVIOUS
<1>3. \A i \in 1..Len(path) : path[i] \in Task /\ path[i] # t
  BY DEF PathIsGray
<1>4. \A i \in 1..Len(path') : color'[path'[i]] = "gray"
  BY <1>1, <1>2, <1>3 DEF PathIsGray
<1>5. ASSUME NEW u \in Task, color'[u] = "gray"
      PROVE  \E i \in 1..Len(path') : path'[i] = u
  BY <1>1, <1>2, <1>5 DEF PathIsGray
<1>6. \A i, j \in 1..Len(path') : path'[i] = path'[j] => i = j
  BY <1>1, <1>3 DEF PathIsGray
<1> QED
  BY <1>4, <1>5, <1>6 DEF PathIsGray

\* A root call starts a path of one task with all its neighbours to visit.
LEMMA StartRootSearch ==
  ASSUME SearchInv, NEW t \in Task, StartRoot(t)
  PROVE  SearchInv'
<1> USE DEF SearchInv
<1>1. Enter(t) /\ color[t] = "white" /\ UNCHANGED dependsOn
  BY DEF StartRoot
<1>2. PathIsGray' /\ BlackIsClosed' /\ BlackIsAcyclic'
  BY <1>1, EnterKeepsGray, EnterKeepsBlack
<1>3. /\ Len(path) = 0
      /\ path' \in Seq(Task)
      /\ Len(path') = 1
      /\ path'[1] = t
  BY <1>1, AppendFacts DEF StartRoot, Enter, SearchTypeOK
<1>4. dependsOn[t] \in SUBSET (Task \cup Unknown)
  BY DEF SearchTypeOK, Graphs
<1>5. SearchTypeOK'
  BY <1>3, <1>4 DEF StartRoot, Enter, SearchTypeOK, Color
<1>6. PathFollowsDependencies'
  BY <1>3 DEF PathFollowsDependencies
<1>7. Unvisited'
  BY DEF StartRoot, SearchTypeOK, Unvisited
<1>8. GrayIsAccountedFor'
  BY <1>3 DEF StartRoot, SearchTypeOK, GrayIsAccountedFor
<1> QED
  BY <1>2, <1>5, <1>6, <1>7, <1>8 DEF StartRoot

\* A GRAY neighbour closes a cycle: from its place on the path to the top,
\* every task depends on another task of that stretch.
LEMMA GrayNeighbourIsCycle ==
  ASSUME SearchInv, path # <<>>, NEW n \in Task, n \in remaining[Top],
         color[n] = "gray"
  PROVE  ~Acyclic(dependsOn)
<1> USE DEF SearchInv
<1>1. PICK k \in 1..Len(path) : path[k] = n
  BY DEF PathIsGray
<1> DEFINE S == {path[i] : i \in k..Len(path)}
<1>2. /\ Len(path) \in Nat
      /\ \A i \in 1..Len(path) : path[i] \in Task
  BY DEF SearchTypeOK
<1>3. S \in SUBSET Task /\ n \in S
  BY <1>1, <1>2
<1>4. ASSUME NEW i \in k..Len(path)
      PROVE  dependsOn[path[i]] \cap S # {}
  <2>1. CASE i = Len(path)
    BY <2>1, <1>1, <1>3, TopFacts DEF Unvisited
  <2>2. CASE i < Len(path)
    <3>1. i \in 1..(Len(path) - 1) /\ i + 1 \in k..Len(path)
      BY <2>2, <1>1, <1>2
    <3> QED
      BY <3>1 DEF PathFollowsDependencies
  <2> QED
    BY <2>1, <2>2, <1>1, <1>2
<1>5. \A t \in S : dependsOn[t] \cap S # {}
  BY <1>4
<1> QED
  BY <1>3, <1>5 DEF Acyclic

\* A WHITE neighbour becomes the new top of the path.
LEMMA VisitWhiteSearch ==
  ASSUME SearchInv, NEW n \in Task, Visit(n), color[n] = "white"
  PROVE  SearchInv'
<1> USE DEF SearchInv
<1>1. /\ Enter(n)
      /\ remaining' = [remaining EXCEPT ![Top] = @ \ {n}, ![n] = dependsOn[n]]
      /\ UNCHANGED <<dependsOn, verdict>>
      /\ verdict = "none"
      /\ path # <<>>
      /\ n \in remaining[Top]
  BY DEF Visit
<1>2. PathIsGray' /\ BlackIsClosed' /\ BlackIsAcyclic'
  BY <1>1, EnterKeepsGray, EnterKeepsBlack
<1>3. /\ path' \in Seq(Task)
      /\ Len(path') = Len(path) + 1
      /\ \A i \in 1..Len(path) : path'[i] = path[i]
      /\ path'[Len(path) + 1] = n
      /\ Len(path) \in Nat
  BY <1>1, AppendFacts DEF Enter, SearchTypeOK
<1>4. Len(path) \in 1..Len(path) /\ Top = path[Len(path)] /\ Top \in Task
  BY <1>1, TopFacts
<1>5. /\ dependsOn[n] \in SUBSET (Task \cup Unknown)
      /\ \A t \in Task : remaining[t] \in SUBSET (Task \cup Unknown)
  BY DEF SearchTypeOK, Graphs
<1>6. SearchTypeOK'
  BY <1>1, <1>3, <1>4, <1>5 DEF Enter, SearchTypeOK, Color
<1>7. color[Top] = "gray" /\ Top # n
  BY <1>4, <1>1, Visit(n) DEF PathIsGray
<1>8. /\ remaining'[Top] = remaining[Top] \ {n}
      /\ remaining'[n] = dependsOn[n]
      /\ \A t \in Task : t # Top /\ t # n => remaining'[t] = remaining[t]
  BY <1>1, <1>4, <1>7 DEF SearchTypeOK
<1>9. Unvisited'
  BY <1>1, <1>8 DEF Unvisited
<1>10. PathFollowsDependencies'
  <2> SUFFICES ASSUME NEW i \in 1..Len(path)
               PROVE  path'[i + 1] \in dependsOn[path'[i]]
    BY <1>1, <1>3 DEF PathFollowsDependencies
  <2>1. CASE i = Len(path)
    BY <2>1, <1>1, <1>3, <1>4 DEF Unvisited
  <2>2. CASE i # Len(path)
    <3>1. i \in 1..(Len(path) - 1) /\ i + 1 \in 1..Len(path)
      BY <2>2, <1>3
    <3> QED
      BY <3>1, <1>3 DEF PathFollowsDependencies
  <2> QED
    BY <2>1, <2>2
<1>11. \A u \in Task : color[u] = "black" => color'[u] = "black"
  BY <1>1, color[n] = "white" DEF Enter, SearchTypeOK
<1>12. ASSUME NEW i \in 1..Len(path'), NEW d \in dependsOn[path'[i]]
       PROVE  \/ d \in remaining'[path'[i]]
              \/ d \in Task /\ color'[d] = "black"
              \/ i < Len(path') /\ d = path'[i + 1]
  <2>1. CASE i = Len(path) + 1
    BY <2>1, <1>3, <1>8
  <2>2. CASE i = Len(path)
    BY <2>2, <1>3, <1>4, <1>8, <1>11 DEF GrayIsAccountedFor
  <2>3. CASE i < Len(path)
    <3>1. i \in 1..Len(path) /\ i + 1 \in 1..Len(path)
      BY <2>3, <1>3
    <3>2. path'[i] = path[i] /\ path'[i + 1] = path[i + 1] /\ path[i] \in Task
      BY <3>1, <1>3 DEF SearchTypeOK
    <3>3. path[i] # Top /\ path[i] # n
      BY <3>1, <2>3, <1>4, color[n] = "white" DEF PathIsGray
    <3> QED
      BY <3>1, <3>2, <3>3, <1>3, <1>8, <1>11 DEF GrayIsAccountedFor
  <2> QED
    BY <2>1, <2>2, <2>3, <1>3
<1>13. GrayIsAccountedFor'
  BY <1>1, <1>12 DEF GrayIsAccountedFor
<1> QED
  BY <1>1, <1>2, <1>6, <1>9, <1>10, <1>13

LEMMA VisitSearch ==
  ASSUME SearchInv, NEW n \in Task, Visit(n)
  PROVE  SearchInv'
<1> USE DEF SearchInv
<1>1. CASE color[n] = "gray"
  <2>1. verdict' = "cycle" /\ UNCHANGED <<dependsOn, color, path, remaining>>
    BY <1>1 DEF Visit
  <2>2. ~Acyclic(dependsOn)
    BY <1>1, GrayNeighbourIsCycle DEF Visit
  <2>3. SearchTypeOK' /\ NoUnknown(dependsOn)
    BY <2>1 DEF SearchTypeOK, Visit
  <2> QED
    BY <2>1, <2>2, <2>3 DEF PathIsGray, PathFollowsDependencies, Unvisited,
       BlackIsClosed, GrayIsAccountedFor, BlackIsAcyclic
<1>2. CASE color[n] = "white"
  BY <1>2, VisitWhiteSearch
<1>3. CASE color[n] = "black"
  <2>1. /\ remaining' = [remaining EXCEPT ![Top] = @ \ {n}]
        /\ UNCHANGED <<dependsOn, color, path, verdict>>
        /\ path # <<>>
    BY <1>3 DEF Visit
  <2>2. Top \in Task
    BY <2>1, TopFacts
  <2>3. /\ \A t \in Task : remaining'[t] \subseteq remaining[t]
        /\ \A t \in Task : remaining[t] \subseteq remaining'[t] \cup {n}
        /\ remaining' \in [Task -> SUBSET (Task \cup Unknown)]
    BY <2>1, <2>2 DEF SearchTypeOK
  <2>4. SearchTypeOK' /\ Unvisited'
    BY <2>1, <2>3 DEF SearchTypeOK, Unvisited
  <2>5. \A i \in 1..Len(path) : path[i] \in Task
    BY DEF SearchTypeOK
  <2>6. GrayIsAccountedFor'
    BY <1>3, <2>1, <2>3, <2>5 DEF GrayIsAccountedFor
  <2> QED
    BY <2>1, <2>4, <2>6 DEF PathIsGray, PathFollowsDependencies,
       BlackIsClosed, BlackIsAcyclic
<1> QED
  BY <1>1, <1>2, <1>3 DEF SearchTypeOK, Color

\* The top turns BLACK: it had no neighbour left to visit and no task above
\* it, so all its dependencies are BLACK already, and no older BLACK task
\* depends on it.
LEMMA LeaveSearch ==
  ASSUME SearchInv, Leave
  PROVE  SearchInv'
<1> USE DEF SearchInv
<1>1. /\ verdict = "none"
      /\ path # <<>>
      /\ remaining[Top] = {}
      /\ color' = [color EXCEPT ![Top] = "black"]
      /\ path' = SubSeq(path, 1, Len(path) - 1)
      /\ UNCHANGED <<dependsOn, remaining, verdict>>
  BY DEF Leave
<1>2. Len(path) \in 1..Len(path) /\ Top = path[Len(path)] /\ Top \in Task
  BY <1>1, TopFacts
<1>3. /\ path' \in Seq(Task)
      /\ Len(path') = Len(path) - 1
      /\ \A i \in 1..(Len(path) - 1) : path'[i] = path[i]
      /\ Len(path) \in Nat
      /\ \A i \in 1..Len(path) : path[i] \in Task
  BY <1>1, PopFacts DEF SearchTypeOK
<1>4. /\ color'[Top] = "black"
      /\ \A t \in Task : t # Top => color'[t] = color[t]
      /\ color[Top] = "gray"
  BY <1>1, <1>2 DEF SearchTypeOK, PathIsGray
<1>5. SearchTypeOK'
  BY <1>1, <1>2, <1>3 DEF SearchTypeOK, Color
<1>6. \A i \in 1..(Len(path) - 1) : path[i] # Top
  BY <1>2, <1>3 DEF PathIsGray
<1>7. PathIsGray'
  <2>1. \A i \in 1..Len(path') : color'[path'[i]] = "gray"
    BY <1>3, <1>4, <1>6 DEF PathIsGray
  <2>2. ASSUME NEW t \in Task, color'[t] = "gray"
        PROVE  \E i \in 1..Len(path') : path'[i] = t
    <3>1. t # Top /\ color[t] = "gray"
      BY <2>2, <1>4
    <3>2. PICK i \in 1..Len(path) : path[i] = t
      BY <3>1 DEF PathIsGray
    <3>3. i \in 1..(Len(path) - 1)
      BY <3>1, <3>2, <1>2, <1>3
    <3> QED
      BY <3>2, <3>3, <1>3
  <2>3. \A i, j \in 1..Len(path') : path'[i] = path'[j] => i = j
    BY <1>3 DEF PathIsGray
  <2> QED
    BY <2>1, <2>2, <2>3 DEF PathIsGray
<1>8. PathFollowsDependencies'
  BY <1>1, <1>3 DEF PathFollowsDependencies
<1>9. \A t \in Task : color[t] = "black" => color'[t] = "black"
  BY <1>4
<1>10. \A d \in dependsOn[Top] : d \in Task /\ color[d] = "black"
  BY <1>1, <1>2 DEF GrayIsAccountedFor
<1>11. BlackIsClosed'
  BY <1>1, <1>4, <1>9, <1>10 DEF BlackIsClosed
<1>12. GrayIsAccountedFor'
  <2> SUFFICES ASSUME NEW i \in 1..Len(path'), NEW d \in dependsOn[path[i]]
               PROVE  \/ d \in remaining[path[i]]
                      \/ d \in Task /\ color'[d] = "black"
                      \/ i < Len(path') /\ d = path'[i + 1]
    BY <1>1, <1>3 DEF GrayIsAccountedFor
  <2>1. \/ d \in remaining[path[i]]
        \/ d \in Task /\ color[d] = "black"
        \/ i < Len(path) /\ d = path[i + 1]
    BY <1>3 DEF GrayIsAccountedFor
  <2>2. CASE i + 1 = Len(path)
    BY <2>1, <2>2, <1>2, <1>4, <1>9
  <2>3. CASE i + 1 < Len(path)
    BY <2>1, <2>3, <1>3, <1>9
  <2> QED
    BY <2>2, <2>3, <1>3
<1>13. BlackIsAcyclic'
  <2> SUFFICES ASSUME NEW S \in SUBSET {t \in Task : color'[t] = "black"}, S # {}
               PROVE  \E t \in S : dependsOn[t] \cap S = {}
    BY <1>1 DEF BlackIsAcyclic
  <2> DEFINE R == S \ {Top}
  <2>1. R \in SUBSET {t \in Task : color[t] = "black"}
    BY <1>4
  <2>2. CASE R = {}
    BY <2>2, <1>4, <1>10
  <2>3. CASE R # {}
    <3>1. PICK t \in R : dependsOn[t] \cap R = {}
      BY <2>1, <2>3 DEF BlackIsAcyclic
    <3>2. Top \notin dependsOn[t]
      BY <2>1, <1>4 DEF BlackIsClosed
    <3> QED
      BY <3>1, <3>2
  <2> QED
    BY <2>2, <2>3
<1> QED
  BY <1>1, <1>5, <1>7, <1>8, <1>11, <1>12, <1>13 DEF Unvisited

\* With the path empty no task is GRAY, so with none WHITE all are BLACK.
LEMMA AcceptSearch ==
  ASSUME SearchInv, Accept
  PROVE  SearchInv'
<1> USE DEF SearchInv
<1>1. /\ path = <<>>
      /\ \A t \in Task : color[t] # "white"
      /\ verdict' = "valid" /\ verdict = "none"
      /\ UNCHANGED <<dependsOn, color, path, remaining>>
  BY DEF Accept
<1>2. Len(path) = 0
  BY <1>1
<1>3. \A t \in Task : color[t] = "black"
  BY <1>1, <1>2 DEF PathIsGray, SearchTypeOK, Color
<1> QED
  BY <1>1, <1>3 DEF SearchTypeOK, PathIsGray, PathFollowsDependencies, Unvisited,
     BlackIsClosed, GrayIsAccountedFor, BlackIsAcyclic

LEMMA StutterSearch ==
  ASSUME SearchInv, UNCHANGED <<dependsOn, validationVars>>
  PROVE  SearchInv'
BY DEF SearchInv, validationVars, SearchTypeOK, PathIsGray, PathFollowsDependencies,
   Unvisited, BlackIsClosed, GrayIsAccountedFor, BlackIsAcyclic

(* topological_layers *)

\* What layers.append(layer) does to the list and to the set of placed tasks.
LEMMA AppendLayer ==
  ASSUME LayeringTypeOK, layers' = Append(layers, queue)
  PROVE  /\ layers' \in Seq(SUBSET Task)
         /\ Len(layers) \in Nat
         /\ Len(layers') = Len(layers) + 1
         /\ \A i \in 1..Len(layers) : layers'[i] = layers[i]
         /\ layers'[Len(layers) + 1] = queue
         /\ Placed' = Placed \cup queue
<1>1. /\ layers' \in Seq(SUBSET Task)
      /\ Len(layers) \in Nat
      /\ Len(layers') = Len(layers) + 1
      /\ \A i \in 1..Len(layers) : layers'[i] = layers[i]
      /\ layers'[Len(layers) + 1] = queue
  BY DEF LayeringTypeOK
<1>2. \A t : t \in Placed' <=> t \in Placed \/ t \in queue
  <2> TAKE t
  <2>1. t \in Placed' <=> \E i \in 1..(Len(layers) + 1) : t \in layers'[i]
    BY <1>1 DEF Placed
  <2>2. t \in Placed <=> \E i \in 1..Len(layers) : t \in layers[i]
    BY DEF Placed
  <2>3. \A i \in 1..(Len(layers) + 1) : i \in 1..Len(layers) \/ i = Len(layers) + 1
    BY <1>1
  <2>4. \A i \in 1..Len(layers) : i \in 1..(Len(layers) + 1)
    BY <1>1
  <2>5. Len(layers) + 1 \in 1..(Len(layers) + 1)
    BY <1>1
  <2> QED
    BY <1>1, <2>1, <2>2, <2>3, <2>4, <2>5
<1> QED
  BY <1>1, <1>2

\* Every set the algorithm counts is finite.
LEMMA Finiteness ==
  ASSUME LayeringTypeOK
  PROVE  /\ IsFiniteSet(Placed) /\ Placed \subseteq Task
         /\ \A t \in Task : \A S : IsFiniteSet(dependsOn[t] \ S)
<1>1. Placed \in SUBSET Task
  BY DEF LayeringTypeOK, Placed
<1>2. IsFiniteSet(Placed)
  BY <1>1, TaskAssumption, FS_Subset
<1>3. IsFiniteSet(Task \cup Unknown)
  BY TaskAssumption, UnknownAssumption, FS_Union
<1>4. ASSUME NEW t \in Task, NEW S
      PROVE  IsFiniteSet(dependsOn[t] \ S)
  <2>1. dependsOn[t] \ S \in SUBSET (Task \cup Unknown)
    BY DEF LayeringTypeOK, Graphs
  <2> QED
    BY <2>1, <1>3, FS_Subset
<1> QED
  BY <1>1, <1>2, <1>4

\* What depends on the graph and on the finished layers only is kept by a
\* step that changes neither.
LEMMA SameLayers ==
  ASSUME UNCHANGED <<dependsOn, layers>>
  PROVE  /\ Placed' = Placed
         /\ PlacedIsAcyclic => PlacedIsAcyclic'
         /\ LayersAreDisjoint => LayersAreDisjoint'
         /\ DependenciesComeFirst => DependenciesComeFirst'
         /\ LayersAreEarliest => LayersAreEarliest'
<1>1. Placed' = Placed
  BY DEF Placed
<1>2. PlacedIsAcyclic => PlacedIsAcyclic'
  BY <1>1 DEF PlacedIsAcyclic
<1>3. LayersAreDisjoint => LayersAreDisjoint'
  BY DEF LayersAreDisjoint
<1>4. DependenciesComeFirst => DependenciesComeFirst'
  BY DEF DependenciesComeFirst
<1>5. LayersAreEarliest => LayersAreEarliest'
  BY DEF LayersAreEarliest
<1> QED
  BY <1>1, <1>2, <1>3, <1>4, <1>5

LEMMA LayeringInitial == LayeringInit => LayeringInv
<1> SUFFICES ASSUME LayeringInit PROVE LayeringInv
  OBVIOUS
<1>1. /\ Len(layers) = 0
      /\ Placed = {}
      /\ Relaxed = {}
  BY DEF LayeringInit, Placed, Relaxed
<1>2. IsFiniteSet(Task \cup Unknown)
  BY TaskAssumption, UnknownAssumption, FS_Union
<1>3. \A t \in Task : dependsOn[t] \in SUBSET (Task \cup Unknown)
  BY DEF LayeringInit, Graphs
<1>4. \A t \in Task : IsFiniteSet(dependsOn[t])
  BY <1>2, <1>3, FS_Subset
<1>5. \A t \in Task : inDegree[t] \in Nat
  BY <1>4, FS_CardinalityType DEF LayeringInit
<1>6. \A t \in Task : inDegree[t] = 0 <=> dependsOn[t] = {}
  BY <1>4, FS_EmptySet DEF LayeringInit
<1>7. LayeringTypeOK
  BY <1>5 DEF LayeringInit, LayeringTypeOK
<1>8. DegreeIsExact
  BY <1>1 DEF LayeringInit, DegreeIsExact
<1>9. QueueIsExact
  BY <1>1, <1>6 DEF LayeringInit, QueueIsExact
<1>10. QueueIsFresh /\ PlacedIsClosed /\ PlacedIsAcyclic
  BY <1>1 DEF QueueIsFresh, PlacedIsClosed, PlacedIsAcyclic
<1>11. LayersAreDisjoint /\ DependenciesComeFirst /\ LayersAreEarliest
  BY <1>1 DEF LayersAreDisjoint, DependenciesComeFirst, LayersAreEarliest
<1>12. Cardinality(Placed) = 0
  BY <1>1, FS_EmptySet
<1> QED
  BY <1>1, <1>7, <1>8, <1>9, <1>10, <1>11, <1>12 DEF LayeringInv, LayeringInit

\* The new layer is the queue: ready tasks, none of them placed before.
LEMMA TakeLayerLayering ==
  ASSUME LayeringInv, TakeLayer
  PROVE  LayeringInv'
<1> USE DEF LayeringInv
<1> DEFINE n == Len(layers)
<1>1. /\ outcome = "none" /\ todo = {} /\ queue # {}
      /\ layers' = Append(layers, queue)
      /\ processed' = processed + Cardinality(queue)
      /\ todo' = queue /\ queue' = {}
      /\ UNCHANGED <<dependsOn, inDegree, outcome>>
  BY DEF TakeLayer
<1>2. /\ layers' \in Seq(SUBSET Task)
      /\ n \in Nat
      /\ Len(layers') = n + 1
      /\ \A i \in 1..n : layers'[i] = layers[i]
      /\ layers'[n + 1] = queue
      /\ Placed' = Placed \cup queue
  BY <1>1, AppendLayer
<1>3. queue \in SUBSET Task /\ \A i \in 1..n : layers[i] \subseteq Placed
  BY DEF LayeringTypeOK, Placed
<1> HIDE DEF n
<1>4. Relaxed = Placed
  BY <1>1 DEF Relaxed
<1>5. queue \cap Placed = {} /\ \A t \in queue : dependsOn[t] \subseteq Placed
  BY <1>4 DEF QueueIsExact
<1>6. Relaxed' = Placed
  BY <1>1, <1>2, <1>5 DEF Relaxed
<1>7. processed' = Cardinality(Placed') /\ processed' \in Nat
  <2>1. IsFiniteSet(queue) /\ IsFiniteSet(Placed)
    BY <1>3, TaskAssumption, FS_Subset, Finiteness
  <2>2. Cardinality(Placed \cup queue)
          = Cardinality(Placed) + Cardinality(queue) - Cardinality(Placed \cap queue)
    BY <2>1, FS_Union
  <2>3. Placed \cap queue = {} /\ Cardinality(Placed \cap queue) = 0
    BY <1>5, FS_EmptySet
  <2>4. Cardinality(Placed) \in Nat /\ Cardinality(queue) \in Nat
    BY <2>1, FS_CardinalityType
  <2> QED
    BY <1>1, <1>2, <2>2, <2>3, <2>4
<1>8. LayeringTypeOK'
  BY <1>1, <1>2, <1>7 DEF LayeringTypeOK
<1>9. DegreeIsExact'
  BY <1>1, <1>4, <1>6 DEF DegreeIsExact
<1>10. QueueIsExact'
  BY <1>1, <1>2, <1>4, <1>6 DEF QueueIsExact
<1>11. PlacedIsClosed'
  BY <1>1, <1>2, <1>4, <1>5, <1>6 DEF PlacedIsClosed
<1>12. PlacedIsAcyclic'
  <2> SUFFICES ASSUME NEW S \in SUBSET (Placed \cup queue), S # {}
               PROVE  \E t \in S : dependsOn[t] \cap S = {}
    BY <1>1, <1>2 DEF PlacedIsAcyclic
  <2>1. CASE S \cap Placed = {}
    BY <2>1, <1>5
  <2>2. CASE S \cap Placed # {}
    <3>1. PICK t \in S \cap Placed : dependsOn[t] \cap (S \cap Placed) = {}
      BY <2>2 DEF PlacedIsAcyclic
    <3> QED
      BY <3>1, <1>4 DEF PlacedIsClosed
  <2> QED
    BY <2>1, <2>2
<1>13. LayersAreDisjoint'
  <2> SUFFICES ASSUME NEW i \in 1..(n + 1), NEW j \in 1..(n + 1),
                      layers'[i] \cap layers'[j] # {}
               PROVE  i = j
    BY <1>2 DEF LayersAreDisjoint
  <2>1. CASE i \in 1..n /\ j \in 1..n
    BY <2>1, <1>2 DEF LayersAreDisjoint, n
  <2>2. CASE i = n + 1 /\ j \in 1..n
    BY <2>2, <1>2, <1>3, <1>5
  <2>3. CASE i \in 1..n /\ j = n + 1
    BY <2>3, <1>2, <1>3, <1>5
  <2> QED
    BY <2>1, <2>2, <2>3, <1>2
<1>14. DependenciesComeFirst'
  <2> SUFFICES ASSUME NEW i \in 1..(n + 1), NEW t \in layers'[i], NEW d \in dependsOn[t]
               PROVE  \E j \in 1..(i - 1) : d \in layers'[j]
    BY <1>1, <1>2 DEF DependenciesComeFirst
  <2>1. CASE i \in 1..n
    <3>1. PICK j \in 1..(i - 1) : d \in layers[j]
      BY <2>1, <1>2 DEF DependenciesComeFirst, n
    <3> QED
      BY <3>1, <2>1, <1>2
  <2>2. CASE i = n + 1
    <3>1. d \in Placed
      BY <2>2, <1>2, <1>5
    <3>2. PICK j \in 1..n : d \in layers[j]
      BY <3>1 DEF Placed, n
    <3> QED
      BY <3>2, <2>2, <1>2
  <2> QED
    BY <2>1, <2>2, <1>2
<1>15. LayersAreEarliest'
  <2> SUFFICES ASSUME NEW i \in 2..(n + 1), NEW t \in layers'[i]
               PROVE  dependsOn[t] \cap layers'[i - 1] # {}
    BY <1>1, <1>2 DEF LayersAreEarliest
  <2>1. CASE i \in 2..n
    <3>1. i \in 1..n /\ i - 1 \in 1..n
      BY <2>1, <1>2
    <3> QED
      BY <3>1, <2>1, <1>2 DEF LayersAreEarliest, n
  <2>2. CASE i = n + 1
    <3>1. n \in 1..n /\ i - 1 = n
      BY <2>2, <1>2
    <3> QED
      BY <3>1, <2>2, <1>2 DEF QueueIsFresh, n
  <2> QED
    BY <2>1, <2>2, <1>2
<1>16. /\ todo' \subseteq Placed'
       /\ Len(layers') # 0
       /\ todo' \subseteq layers'[Len(layers')]
  BY <1>1, <1>2
<1>17. QueueIsFresh'
  BY <1>1 DEF QueueIsFresh
<1> QED
  BY <1>1, <1>7, <1>8, <1>9, <1>10, <1>11, <1>12, <1>13, <1>14, <1>15, <1>16,
     <1>17

\* One task told its dependents: their counts drop by the one dependency
\* that is now relaxed, and those that reach 0 are exactly the new ready ones.
LEMMA RelaxLayering ==
  ASSUME LayeringInv, NEW t \in Task, Relax(t)
  PROVE  LayeringInv'
<1> USE DEF LayeringInv
<1>1. /\ outcome = "none" /\ t \in todo
      /\ todo' = todo \ {t}
      /\ inDegree' = [u \in Task |->
                        IF u \in Dependents(t) THEN inDegree[u] - 1 ELSE inDegree[u]]
      /\ queue' = queue \cup {u \in Dependents(t) : inDegree'[u] = 0}
      /\ UNCHANGED <<dependsOn, layers, processed, outcome>>
  BY DEF Relax
<1>2. Placed' = Placed
  BY <1>1 DEF Placed
<1>3. t \in Placed /\ t \notin Relaxed
  BY <1>1 DEF Relaxed
<1>4. Relaxed' = Relaxed \cup {t}
  BY <1>1, <1>2, <1>3 DEF Relaxed
<1>5. ASSUME NEW u \in Task
      PROVE  /\ inDegree'[u] = Cardinality(dependsOn[u] \ Relaxed')
             /\ inDegree'[u] \in Nat
             /\ inDegree'[u] = 0 <=> dependsOn[u] \subseteq Relaxed'
  <2>1. IsFiniteSet(dependsOn[u] \ Relaxed) /\ IsFiniteSet(dependsOn[u] \ Relaxed')
    BY Finiteness
  <2>2. inDegree[u] = Cardinality(dependsOn[u] \ Relaxed)
    BY DEF DegreeIsExact
  <2>3. dependsOn[u] \ Relaxed' = (dependsOn[u] \ Relaxed) \ {t}
    BY <1>4
  <2>4. Cardinality((dependsOn[u] \ Relaxed) \ {t})
          = IF t \in dependsOn[u] \ Relaxed
              THEN Cardinality(dependsOn[u] \ Relaxed) - 1
              ELSE Cardinality(dependsOn[u] \ Relaxed)
    BY <2>1, FS_RemoveElement
  <2>5. inDegree'[u] = Cardinality(dependsOn[u] \ Relaxed')
    BY <1>1, <1>3, <2>2, <2>3, <2>4 DEF Dependents
  <2>6. /\ Cardinality(dependsOn[u] \ Relaxed') \in Nat
        /\ Cardinality(dependsOn[u] \ Relaxed') = 0 <=> dependsOn[u] \ Relaxed' = {}
    BY <2>1, FS_CardinalityType, FS_EmptySet
  <2> QED
    BY <2>5, <2>6
<1>6. LayeringTypeOK'
  BY <1>1, <1>5 DEF LayeringTypeOK, Dependents
<1>7. DegreeIsExact'
  BY <1>1, <1>5 DEF DegreeIsExact
<1>8. QueueIsExact'
  <2> SUFFICES ASSUME NEW u \in Task
               PROVE  u \in queue' <=>
                        u \notin Placed /\ dependsOn[u] \subseteq Relaxed'
    BY <1>1, <1>2, <1>6 DEF QueueIsExact, LayeringTypeOK
  <2>1. CASE t \notin dependsOn[u]
    <3>1. u \in queue' <=> u \in queue
      BY <2>1, <1>1 DEF Dependents
    <3>2. dependsOn[u] \subseteq Relaxed' <=> dependsOn[u] \subseteq Relaxed
      BY <2>1, <1>4
    <3> QED
      BY <3>1, <3>2 DEF QueueIsExact
  <2>2. CASE t \in dependsOn[u]
    <3>1. u \notin Placed
      BY <2>2, <1>3 DEF PlacedIsClosed
    <3>2. u \notin queue
      BY <2>2, <1>3 DEF QueueIsExact
    <3>3. u \in queue' <=> inDegree'[u] = 0
      BY <2>2, <3>2, <1>1 DEF Dependents
    <3> QED
      BY <3>1, <3>3, <1>5
  <2> QED
    BY <2>1, <2>2
<1>9. Len(layers) > 0 /\ t \in layers[Len(layers)]
  <2>1. Len(layers) \in Nat
    BY DEF LayeringTypeOK
  <2> QED
    BY <2>1, <1>1
<1>10. QueueIsFresh'
  BY <1>1, <1>9 DEF QueueIsFresh, Dependents
<1>11. PlacedIsClosed'
  BY <1>1, <1>2, <1>4 DEF PlacedIsClosed
<1>12. /\ PlacedIsAcyclic' /\ LayersAreDisjoint'
       /\ DependenciesComeFirst' /\ LayersAreEarliest'
  BY <1>1, SameLayers
<1> QED
  BY <1>1, <1>2, <1>6, <1>7, <1>8, <1>10, <1>11, <1>12

\* The steps that leave everything but the outcome alone.
LEMMA OutcomeOnlyLayering ==
  ASSUME LayeringInv,
         UNCHANGED <<dependsOn, inDegree, queue, todo, layers, processed>>,
         Finish \/ UNCHANGED outcome
  PROVE  LayeringInv'
<1> USE DEF LayeringInv
<1>1. Placed' = Placed /\ Relaxed' = Relaxed
  BY SameLayers DEF Relaxed
<1>2. /\ PlacedIsAcyclic' /\ LayersAreDisjoint'
      /\ DependenciesComeFirst' /\ LayersAreEarliest'
  BY SameLayers
<1>3. DegreeIsExact' /\ QueueIsExact' /\ QueueIsFresh' /\ PlacedIsClosed'
  BY <1>1 DEF DegreeIsExact, QueueIsExact, QueueIsFresh, PlacedIsClosed
<1>4. LayeringTypeOK'
  BY DEF LayeringTypeOK, Finish
<1>5. /\ outcome' # "none" => todo' = {} /\ queue' = {}
      /\ outcome' = "layers" <=> outcome' # "none" /\ processed' = Cardinality(Task)
  BY DEF Finish
<1> QED
  BY <1>1, <1>2, <1>3, <1>4, <1>5

(* Both *)

\* The search keeps its invariant whatever step either algorithm takes.
LEMMA SearchPreserves == SearchInv /\ [Next]_vars => SearchInv'
<1> SUFFICES ASSUME SearchInv, [Next]_vars PROVE SearchInv'
  OBVIOUS
<1>1. ASSUME NEW t \in Task, StartRoot(t) PROVE SearchInv'
  BY <1>1, StartRootSearch
<1>2. ASSUME NEW t \in Task, Visit(t) PROVE SearchInv'
  BY <1>2, VisitSearch
<1>3. CASE Leave
  BY <1>3, LeaveSearch
<1>4. CASE Accept
  BY <1>4, AcceptSearch
<1>5. CASE UNCHANGED <<dependsOn, validationVars>>
  BY <1>5, StutterSearch
<1>6. CASE Layer
  BY <1>5, <1>6 DEF Layer, LayeringNext, TakeLayer, Relax, Finish, Layered
<1> QED
  BY <1>1, <1>2, <1>3, <1>4, <1>5, <1>6
     DEF Next, vars, Validate, ValidationNext, Validated

\* So does the layering.
LEMMA LayeringPreserves == LayeringInv /\ [Next]_vars => LayeringInv'
<1> SUFFICES ASSUME LayeringInv, [Next]_vars PROVE LayeringInv'
  OBVIOUS
<1>1. CASE TakeLayer
  BY <1>1, TakeLayerLayering
<1>2. ASSUME NEW t \in Task, Relax(t) PROVE LayeringInv'
  BY <1>2, RelaxLayering
<1>3. CASE Finish
  BY <1>3, OutcomeOnlyLayering DEF Finish
<1>4. CASE UNCHANGED <<dependsOn, layeringVars>>
  BY <1>4, OutcomeOnlyLayering DEF layeringVars
<1>5. CASE Validate
  BY <1>4, <1>5 DEF Validate, ValidationNext, StartRoot, Visit, Leave, Accept,
                    Validated
<1> QED
  BY <1>1, <1>2, <1>3, <1>4, <1>5 DEF Next, vars, Layer, LayeringNext, Layered

\* The invariant of the search holds in every reachable state, for every set
\* of tasks and every graph.
THEOREM SearchInvariant == Spec => []SearchInv
<1>1. Init => SearchInv
  BY SearchInit DEF Init
<1> QED
  BY <1>1, SearchPreserves, PTL DEF Spec

\* The invariant of Kahn's algorithm as the code runs it.
THEOREM LayeringInvariant == Spec => []LayeringInv
<1>1. Init => LayeringInv
  BY LayeringInitial DEF Init
<1> QED
  BY <1>1, LayeringPreserves, PTL DEF Spec

\* validate_dag returns only for graphs without a cycle and without an
\* unknown name (task_store.py:196-234): what start_run relies on.
THEOREM ValidationSound == Spec => []AcceptsOnlyDags
<1>1. SearchInv => AcceptsOnlyDags
  <2> SUFFICES ASSUME SearchInv, verdict = "valid" PROVE ValidDag(dependsOn)
    BY DEF AcceptsOnlyDags
  <2>1. {t \in Task : color[t] = "black"} = Task
    BY DEF SearchInv
  <2> QED
    BY <2>1 DEF SearchInv, BlackIsAcyclic, Acyclic, ValidDag
<1> QED
  BY <1>1, SearchInvariant, PTL

\* validate_dag raises only for graphs that have a cycle or an unknown name.
THEOREM ValidationComplete == Spec => []RejectsOnlyBadGraphs
<1>1. SearchInv => RejectsOnlyBadGraphs
  BY DEF SearchInv, RejectsOnlyBadGraphs, ValidDag
<1> QED
  BY <1>1, SearchInvariant, PTL

\* In every state each placed task has its dependencies in strictly earlier
\* layers: the guarantee the runtime's layer-by-layer execution rests on.
THEOREM LayersOrderDependencies == Spec => []DependenciesComeFirst
BY LayeringInvariant, PTL DEF LayeringInv

\* No task is placed later than its dependencies force it to be.
THEOREM LayersAreTight == Spec => []LayersAreEarliest
BY LayeringInvariant, PTL DEF LayeringInv

\* topological_layers returns exactly for the graphs without cycles and
\* unknown names, and then the layers partition the tasks.
THEOREM LayeringCorrect == Spec => []VerdictIsRight
<1>1. LayeringInv => VerdictIsRight
  <2> SUFFICES ASSUME LayeringInv PROVE VerdictIsRight
    OBVIOUS
  <2> USE DEF LayeringInv
  <2>1. IsFiniteSet(Placed) /\ Placed \in SUBSET Task /\ IsFiniteSet(Task)
    BY Finiteness, TaskAssumption
  <2>2. Placed = Task <=> Cardinality(Placed) = Cardinality(Task)
    BY <2>1, FS_Subset
  <2>3. ASSUME outcome # "none"
        PROVE  /\ Relaxed = Placed
               /\ \A t \in Task \ Placed : ~(dependsOn[t] \subseteq Placed)
    BY <2>3 DEF Relaxed, QueueIsExact
  <2>4. ASSUME outcome = "layers"
        PROVE  ValidDag(dependsOn) /\ Placed = Task /\ LayersAreDisjoint
    <3>1. Placed = Task
      BY <2>4, <2>2
    <3>2. Acyclic(dependsOn)
      BY <3>1 DEF PlacedIsAcyclic, Acyclic
    <3>3. NoUnknown(dependsOn)
      BY <3>1, <2>3, <2>4 DEF PlacedIsClosed, NoUnknown
    <3> QED
      BY <3>1, <3>2, <3>3 DEF ValidDag
  <2>5. ASSUME outcome = "raised"
        PROVE  ~ValidDag(dependsOn)
    <3>1. Placed # Task
      BY <2>5, <2>2
    <3> DEFINE S == Task \ Placed
    <3>2. S \in SUBSET Task /\ S # {}
      BY <3>1, <2>1
    <3>3. NoUnknown(dependsOn) => \A t \in S : dependsOn[t] \cap S # {}
      BY <2>3, <2>5 DEF NoUnknown
    <3> QED
      BY <3>2, <3>3 DEF ValidDag, Acyclic
  <2> QED
    BY <2>4, <2>5 DEF VerdictIsRight, LayersAreDisjoint
<1> QED
  BY <1>1, LayeringInvariant, PTL

\* The two agree: topological_layers never raises for a graph validate_dag has
\* let through, so a created run has layers to run (runtime.py:117, 253).
THEOREM AcceptedGraphsAreLayered == Spec => []AcceptedIsLayered
<1>1. AcceptsOnlyDags /\ VerdictIsRight => AcceptedIsLayered
  BY DEF AcceptsOnlyDags, VerdictIsRight, AcceptedIsLayered
<1> QED
  BY <1>1, ValidationSound, LayeringCorrect, PTL
=============================================================================
