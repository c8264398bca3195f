----------------------------- MODULE PlanWaves ------------------------------
(***************************************************************************)
(* What a plan must be before the coordinator applies it                   *)
(* (internal/handler/dependency_graph.go, the graph part of                *)
(* validateDependencyGraphPlan): no cycle, no edge that other edges imply, *)
(* and the waves in which its tasks become ready.                          *)
(*                                                                         *)
(* The shape of the input is checked before: edges join two known tasks    *)
(* and are neither loops nor duplicates, so that they are a set of pairs.  *)
(* The loops may take edges and tasks in any order.                        *)
(***************************************************************************)
EXTENDS Integers, Sequences, FiniteSets

CONSTANT PlanTask

ASSUME PlanAssumption == IsFiniteSet(PlanTask)

VARIABLES
  planEdge,  \* the edges of the request, from prerequisite to dependent
  answer,    \* "open", "refused", or "accepted"
  loop,      \* "cycles", "detours", or "waves"
  unasked,   \* edges the loop has not come to
  edge,      \* the edge it is at, NoEdge before the first
  frontier, seen,  \* queue and map of the search for a path
  indegree,  \* prerequisites that are in no wave yet
  current,   \* the wave to come
  waves, visited

search == <<unasked, edge, frontier, seen>>
layers == <<indegree, current, waves, visited>>
planVars == <<planEdge, answer, loop, search, layers>>

Edges == {e \in PlanTask \X PlanTask : e[1] # e[2]}
NoEdge == <<>>

Into(n, from) == Cardinality({e \in planEdge : e[2] = n /\ e[1] \in from})

PlanInit ==
  /\ planEdge \in SUBSET Edges /\ answer = "open" /\ loop = "cycles"
  /\ unasked = planEdge /\ edge = NoEdge /\ frontier = {} /\ seen = {}
  /\ indegree = [n \in PlanTask |-> Into(n, PlanTask)]
  /\ current = {} /\ waves = <<>> /\ visited = 0

-----------------------------------------------------------------------------
\* The first loop asks for a way back over an edge, the second for a way around.
Source == IF loop = "cycles" THEN edge[2] ELSE edge[1]
Target == IF loop = "cycles" THEN edge[1] ELSE edge[2]

\* Mutation: the edge in question counts as a way around itself.
FollowingAll(n) == {e[2] : e \in {f \in planEdge : f[1] = n}}

\* Where the edges lead to but the one in question.
Following(n) == {e[2] : e \in {f \in planEdge \ {edge} : f[1] = n}}

\* The search has found nothing, and the loop goes on to the next edge.
AskNext ==
  /\ answer = "open" /\ frontier = {}
  /\ \E e \in unasked :
       /\ unasked' = unasked \ {e} /\ edge' = e
       /\ frontier' = {IF loop = "cycles" THEN e[2] ELSE e[1]} /\ seen' = {}
  /\ UNCHANGED <<planEdge, answer, loop, layers>>

\* One round of dependencyGraphHasPath: a task is looked at when it is taken
\* from the queue, at most once.
Look ==
  /\ answer = "open"
  /\ \E n \in frontier :
       \/ n = Target /\ answer' = "refused" /\ UNCHANGED <<frontier, seen>>
       \/ /\ n # Target /\ UNCHANGED answer
          /\ seen' = seen \cup {n}
          /\ frontier' = (frontier \ {n}) \cup (IF n \in seen THEN {} ELSE Following(n))
  /\ UNCHANGED <<planEdge, loop, unasked, edge, layers>>

\* A loop is through with the edges.
LoopEnds ==
  /\ answer = "open" /\ loop # "waves" /\ frontier = {} /\ unasked = {}
  /\ edge' = NoEdge /\ seen' = {}
  /\ \/ loop = "cycles" /\ loop' = "detours" /\ unasked' = planEdge /\ UNCHANGED current
     \/ /\ loop = "detours" /\ loop' = "waves" /\ UNCHANGED unasked
        /\ current' = {n \in PlanTask : indegree[n] = 0}
  /\ UNCHANGED <<planEdge, answer, frontier, indegree, waves, visited>>

\* A task follows in the next wave when the last of its prerequisites is taken
\* off its indegree.
Layer ==
  /\ answer = "open" /\ loop = "waves" /\ current # {}
  /\ waves' = Append(waves, current) /\ visited' = visited + Cardinality(current)
  /\ indegree' = [n \in PlanTask |-> indegree[n] - Into(n, current)]
  /\ current' = {n \in PlanTask : indegree'[n] = 0 /\ Into(n, current) > 0}
  /\ UNCHANGED <<planEdge, answer, loop, search>>

\* What the waves do not reach is on a cycle.
Answer ==
  /\ answer = "open" /\ loop = "waves" /\ current = {}
  /\ answer' = IF visited = Cardinality(PlanTask) THEN "accepted" ELSE "refused"
  /\ UNCHANGED <<planEdge, loop, search, layers>>

PlanNext == AskNext \/ Look \/ LoopEnds \/ Layer \/ Answer

PlanSpec == PlanInit /\ [][PlanNext]_planVars

-----------------------------------------------------------------------------
\* A graph has no cycle when each set of tasks has one to begin with.
Acyclic ==
  \A S \in (SUBSET PlanTask) \ {{}} :
    \E n \in S : \A e \in planEdge : e[2] = n => e[1] \notin S

\* An edge is implied when no set that the other edges do not leave parts its
\* two ends.
Implied(e) ==
  \A S \in SUBSET PlanTask :
    e[1] \in S /\ (\A f \in planEdge \ {e} : f[1] \in S => f[2] \in S) => e[2] \in S

InWave(n) == {k \in DOMAIN waves : n \in waves[k]}

\* A plan is accepted exactly when it has no cycle and no implied edge, and
\* each task is in one wave: the first that all its prerequisites precede.
PlanIsRight ==
  /\ answer = "refused" => ~Acyclic \/ \E e \in planEdge : Implied(e)
  /\ answer = "accepted" =>
       /\ Acyclic /\ \A e \in planEdge : ~Implied(e)
       /\ \A n \in PlanTask : \E k \in DOMAIN waves :
            /\ InWave(n) = {k}
            /\ \A e \in planEdge : e[2] = n => \E j \in InWave(e[1]) : j < k
            /\ k > 1 => \E e \in planEdge : e[2] = n /\ e[1] \in waves[k - 1]

=============================================================================
