---------------------------- MODULE LaneExecutor ----------------------------
(***************************************************************************)
(* What the task queue promises to the rest of the program, with none of   *)
(* its statements: execution lanes are serial executors.  A lane runs one  *)
(* task at a time and is given up before it is taken again, an agent's     *)
(* lanes together run no more tasks than its capacity, and a task that is  *)
(* over never runs again.  TaskQueue implements it.                        *)
(***************************************************************************)
EXTENDS Naturals, FiniteSets

CONSTANTS Task, Lane, Agent, AgentOf, Cap

VARIABLES
  running,  \* running[l]: the tasks lane l runs
  over      \* the tasks that are over

vars == <<running, over>>

Init == running = [l \in Lane |-> {}] /\ over = {}

\* The tasks that run for agent a.
RunningFor(a) == {t \in Task : \E l \in Lane : AgentOf[l] = a /\ t \in running[l]}

\* An idle lane takes a task, when its agent has room.
Start(l, t) ==
  /\ running[l] = {}
  /\ t \notin over /\ \A m \in Lane : t \notin running[m]
  /\ Cardinality(RunningFor(AgentOf[l])) < Cap
  /\ running' = [running EXCEPT ![l] = {t}]
  /\ UNCHANGED over

\* A task goes back to the queue.
Return(t) ==
  /\ running' = [l \in Lane |-> running[l] \ {t}]
  /\ UNCHANGED over

\* Tasks that ran, or still waited, are over.
Finish(S) ==
  /\ S \cap over = {}
  /\ running' = [l \in Lane |-> running[l] \ S]
  /\ over' = over \cup S

Next ==
  \/ \E l \in Lane, t \in Task : Start(l, t)
  \/ \E t \in Task : Return(t)
  \/ \E S \in SUBSET Task : Finish(S)

Spec == Init /\ [][Next]_vars
=============================================================================
