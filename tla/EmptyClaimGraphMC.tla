-------------------------- MODULE EmptyClaimGraphMC -------------------------
(***************************************************************************)
(* How rows get into the queue and how a claim finds them: the instance of *)
(* EmptyClaim, the dependency scheduler with one hard edge, and the        *)
(* validation of plans.  They share no state here: each behaviour picks    *)
(* one of them and leaves the others as they were.                         *)
(***************************************************************************)
EXTENDS EmptyClaimMC, DependencyGraph, PlanWaves

CONSTANTS p, d

OneEdge == {<<p, d>>}

VARIABLE part

CacheOrGraphInit ==
  /\ part \in {"cache", "graph", "plan"}
  /\ Init /\ GraphInit /\ PlanInit /\ (part # "plan" => planEdge = {})

\* A validated plan is left as it is.
CacheOrGraphNext ==
  /\ UNCHANGED part
  /\ \/ part = "cache" /\ Next /\ UNCHANGED <<graphVars, planVars>>
     \/ part = "graph" /\ GraphNext /\ UNCHANGED <<vars, planVars>>
     \/ part = "plan" /\ PlanNext /\ UNCHANGED <<vars, graphVars>>
     \/ answer # "open" /\ UNCHANGED <<vars, graphVars, planVars>>

\* The fairness of the modules.  The claim path has nothing to do in its
\* initial state; that of the coordinator is for the behaviours that picked it.
CacheOrGraphSpec ==
  /\ CacheOrGraphInit /\ [][CacheOrGraphNext]_<<vars, graphVars, planVars, part>>
  /\ \A c \in Claimer :
       WF_vars(part = "cache" /\ Request(c) /\ (pc[c] = "idle" => ~Believed))
  /\ WF_vars(part = "cache" /\ VerdictExpires)
  /\ \A r \in Worker : WF_graphVars(part = "graph" /\ Wake(r))
  /\ SF_graphVars(part = "graph" /\ \E r \in Worker : Poll(r))

\* ReadyIsServed and QueueMoves, where the coordinator runs.
ReadyIssueIsServed == part = "graph" => ReadyIsServed
OpenQueueMoves == part = "graph" => QueueMoves
=============================================================================
