-------------------------- MODULE DependencyGraph --------------------------
(***************************************************************************)
(* The coordinator of one active plan (internal/service/                   *)
(* dependency_graph_scheduler.go, dependency_graph.sql) and the trigger    *)
(* that gates every row of the task queue (migration 475): issues become   *)
(* ready when their prerequisites are done, are admitted, and get a task.  *)
(* Several requests of the server work at once, each database statement    *)
(* being a step; requests die between two steps, and users edit issues.    *)
(*                                                                         *)
(* The executor of each issue is an agent of its own, on one runtime.      *)
(***************************************************************************)
EXTENDS Naturals, Sequences

CONSTANTS
  Node,      \* the issues of the plan
  HardEdge,  \* prerequisite, dependent
  Worker,   \* requests and sweeps the servers work on at once
  NoNode,
  MaxEdits,  \* bound on what users and agents do to issues
  MaxDeaths  \* bound on requests that die, and on failed enqueues

ASSUME GraphAssumption ==
  HardEdge \subseteq Node \X Node /\ NoNode \notin Node
ASSUME GraphBounds == MaxEdits \in Nat /\ MaxDeaths \in Nat

VARIABLES
  issue,   \* the effective status of each issue
  queue,   \* queued rows, in the order claims try them
  working, \* the row of an issue past the queue
  step,    \* what each request does next
  polling, \* requests that are claims of the runtime
  listed,  \* issues the request has listed and not tried to admit
  subject, \* the issue that is done, admitted or failed
  edits, deaths

requests == <<step, polling, listed, subject>>
graphVars == <<issue, queue, working, requests, edits, deaths>>

Status == {"blocked", "todo", "in_progress", "done", "cancelled"}
Step == {"idle", "dependents", "promote", "list", "admit", "enqueue", "claim", "failed", "reset"}

GraphTypeOK ==
  /\ issue \in [Node -> Status]
  /\ queue \in Seq(Node)
  /\ working \in [Node -> {"none", "dispatched", "running"}]
  /\ step \in [Worker -> Step]
  /\ polling \in SUBSET Worker
  /\ listed \in [Worker -> SUBSET Node]
  /\ subject \in [Worker -> Node \cup {NoNode}]
  /\ edits \in 0..MaxEdits /\ deaths \in 0..MaxDeaths

\* The plan as applyDependencyGraphTransaction creates it; the wake of the
\* ready issues that follows is one of the requests below.
GraphInit ==
  /\ issue = [i \in Node |-> IF \E e \in HardEdge : e[2] = i THEN "blocked" ELSE "todo"]
  /\ queue = <<>>
  /\ working = [i \in Node |-> "none"]
  /\ step = [r \in Worker |-> "idle"]
  /\ polling = {}
  /\ listed = [r \in Worker |-> {}]
  /\ subject = [r \in Worker |-> NoNode]
  /\ edits = 0 /\ deaths = 0

-----------------------------------------------------------------------------
\* dependency_graph_issue_gate_open: every hard prerequisite is done.
GateOpen(i) == \A e \in HardEdge : e[2] = i => issue[e[1]] = "done"

HasQueued(i) == \E k \in DOMAIN queue : queue[k] = i
Pending(i) == HasQueued(i) \/ working[i] = "dispatched"
HasActiveTask(i) == HasQueued(i) \/ working[i] # "none"

\* An INSERT passes the trigger and the unique index of pending rows.
CanInsert(i) == GateOpen(i) /\ ~Pending(i)

Then(r, p, s) ==
  /\ step' = [step EXCEPT ![r] = p]
  /\ subject' = [subject EXCEPT ![r] = s]

Ends(r) ==
  /\ Then(r, "idle", NoNode)
  /\ polling' = polling \ {r}
  /\ listed' = [listed EXCEPT ![r] = {}]

Goes(r, p) == Then(r, p, NoNode) /\ UNCHANGED <<polling, listed>>

EditOnce == edits < MaxEdits /\ edits' = edits + 1
Death == deaths < MaxDeaths /\ deaths' = deaths + 1

-----------------------------------------------------------------------------
(* Waking: promote, list, admit one by one, insert the task of each. *)

Promote(ready) ==
  issue' = [i \in Node |-> IF i \in ready /\ issue[i] = "blocked" /\ GateOpen(i)
                             THEN "todo" ELSE issue[i]]

\* WakeDependencyGraphDependents.
PromoteDependents(r) ==
  /\ step[r] = "dependents"
  /\ Promote({e[2] : e \in {d \in HardEdge : d[1] = subject[r]}})
  /\ Goes(r, "list")
  /\ UNCHANGED <<queue, working, edits, deaths>>

\* A claim begins; reconcileDependencyTasksForRuntime and, when a plan has just
\* been created, WakeDependencyGraphReadyTasks.
Poll(r) ==
  /\ step[r] = "idle"
  /\ Then(r, "promote", NoNode)
  /\ polling' = polling \cup {r}
  /\ UNCHANGED <<issue, queue, working, listed, edits, deaths>>

\* Mutation: only the wakes of the transitions promote.
PromoteNone(r) ==
  /\ step[r] = "promote"
  /\ Goes(r, "list")
  /\ UNCHANGED <<issue, queue, working, edits, deaths>>

PromoteAll(r) ==
  /\ step[r] = "promote"
  /\ Promote(Node)
  /\ Goes(r, "list")
  /\ UNCHANGED <<queue, working, edits, deaths>>

ListReady(r) ==
  /\ step[r] = "list"
  /\ listed' = [listed EXCEPT ![r] =
       {i \in Node : issue[i] = "todo" /\ GateOpen(i) /\ ~HasActiveTask(i)}]
  /\ Then(r, "admit", NoNode)
  /\ UNCHANGED <<issue, queue, working, polling, edits, deaths>>

\* AdmitReadyDependencyGraphIssue decides which of several requests admits.
Admit(r, i) ==
  /\ step[r] = "admit" /\ i \in listed[r]
  /\ listed' = [listed EXCEPT ![r] = @ \ {i}]
  /\ IF issue[i] = "todo" /\ GateOpen(i)
       THEN issue' = [issue EXCEPT ![i] = "in_progress"] /\ Then(r, "enqueue", i)
       ELSE UNCHANGED <<issue, step, subject>>
  /\ UNCHANGED <<queue, working, polling, edits, deaths>>

\* The admission is committed by now; an error is only logged.
EnqueueTask(r) ==
  /\ step[r] = "enqueue"
  /\ \/ CanInsert(subject[r]) /\ queue' = Append(queue, subject[r]) /\ UNCHANGED deaths
     \/ ~CanInsert(subject[r]) /\ UNCHANGED <<queue, deaths>>
     \/ Death /\ UNCHANGED queue
  /\ Goes(r, "admit")
  /\ UNCHANGED <<issue, working, edits>>

AllAdmitted(r) ==
  /\ step[r] = "admit" /\ listed[r] = {}
  /\ IF r \in polling THEN Goes(r, "claim") ELSE Ends(r)
  /\ UNCHANGED <<issue, queue, working, edits, deaths>>

\* Mutation: the claim looks at the first candidate only.
FirstInLine(k) == k = 1 /\ k \in DOMAIN queue /\ working[queue[k]] = "none"

\* The candidates in order: one whose lane is busy is passed over, one whose
\* gate has closed makes the trigger raise, which ends the whole claim.
FirstFree(k) ==
  /\ k \in DOMAIN queue /\ working[queue[k]] = "none"
  /\ \A j \in 1..k - 1 : working[queue[j]] # "none"

RemoveAt(k) == SubSeq(queue, 1, k - 1) \o SubSeq(queue, k + 1, Len(queue))

ClaimTask(r) ==
  /\ step[r] = "claim"
  /\ IF \E k \in DOMAIN queue : FirstFree(k) /\ GateOpen(queue[k])
       THEN \E k \in DOMAIN queue :
              /\ FirstFree(k)
              /\ working' = [working EXCEPT ![queue[k]] = "dispatched"]
              /\ queue' = RemoveAt(k)
       ELSE UNCHANGED <<queue, working>>
  /\ Ends(r)
  /\ UNCHANGED <<issue, edits, deaths>>

\* The process dies, or the client of the request is gone.
RequestDies(r) ==
  /\ step[r] # "idle" /\ Death
  /\ Ends(r)
  /\ UNCHANGED <<issue, queue, working, edits>>

-----------------------------------------------------------------------------
(* Tasks. *)

\* Mutation: a start that does not look at the gate again.
StartUngated(i) ==
  /\ working[i] = "dispatched"
  /\ working' = [working EXCEPT ![i] = "running"]
  /\ UNCHANGED <<issue, queue, requests, edits, deaths>>

StartTask(i) ==
  /\ working[i] = "dispatched" /\ GateOpen(i)
  /\ working' = [working EXCEPT ![i] = "running"]
  /\ UNCHANGED <<issue, queue, requests, edits, deaths>>

\* CompleteTask, which wakes the dependents although the issue may be open.
CompleteTask(i, r) ==
  /\ working[i] = "running" /\ step[r] = "idle"
  /\ working' = [working EXCEPT ![i] = "none"]
  /\ Then(r, "dependents", i)
  /\ UNCHANGED <<issue, queue, polling, listed, edits, deaths>>

\* FailTask on a report, a refused StartTask included.  The retry is inserted
\* in the same transaction, so that a closed gate aborts both.
FailTask(i) ==
  /\ working[i] # "none"
  /\ working' = [working EXCEPT ![i] = "none"]
  /\ \/ UNCHANGED queue
     \/ GateOpen(i) /\ ~HasQueued(i) /\ queue' = Append(queue, i)
  /\ UNCHANGED <<issue, requests, edits, deaths>>

\* A sweep fails the row, and later HandleFailedTasks looks at it.
SweepFails(i, r) ==
  /\ working[i] # "none" /\ step[r] = "idle" /\ Death
  /\ working' = [working EXCEPT ![i] = "none"]
  /\ Then(r, "failed", i)
  /\ UNCHANGED <<issue, queue, polling, listed, edits>>

HandleFailedTask(r) ==
  LET i == subject[r] IN
  /\ step[r] = "failed"
  /\ \/ CanInsert(i) /\ queue' = Append(queue, i) /\ Ends(r)
     \/ /\ IF issue[i] = "in_progress" /\ ~HasActiveTask(i)
             THEN Then(r, "reset", i) /\ UNCHANGED <<polling, listed>>
             ELSE Ends(r)
        /\ UNCHANGED queue
  /\ UNCHANGED <<issue, working, edits, deaths>>

\* UpdateIssueStatus does not compare: what happened since is overwritten.
ResetIssue(r) ==
  /\ step[r] = "reset"
  /\ issue' = [issue EXCEPT ![subject[r]] = "todo"]
  /\ Ends(r)
  /\ UNCHANGED <<queue, working, edits, deaths>>

-----------------------------------------------------------------------------
(* Users, and agents through the API. *)

\* UpdateIssue to done, then reconcileDependencyGraphTransition.
MarkDone(i, r) ==
  /\ issue[i] # "done" /\ step[r] = "idle" /\ EditOnce
  /\ issue' = [issue EXCEPT ![i] = "done"]
  /\ Then(r, "dependents", i)
  /\ UNCHANGED <<queue, working, polling, listed, deaths>>

SetStatus(i) ==
  /\ EditOnce
  /\ \E s \in Status \ {"done", issue[i]} : issue' = [issue EXCEPT ![i] = s]
  /\ UNCHANGED <<queue, working, requests, deaths>>

\* A comment or a manual rerun enqueues a row of its own.
UserEnqueues(i) ==
  /\ EditOnce /\ CanInsert(i)
  /\ queue' = Append(queue, i)
  /\ UNCHANGED <<issue, working, requests, deaths>>

-----------------------------------------------------------------------------
Wake(r) ==
  \/ PromoteDependents(r) \/ PromoteAll(r) \/ ListReady(r)
  \/ (\E i \in Node : Admit(r, i)) \/ EnqueueTask(r) \/ AllAdmitted(r) \/ ClaimTask(r)
  \/ HandleFailedTask(r) \/ ResetIssue(r)

GraphNext ==
  \/ \E r \in Worker : Wake(r) \/ Poll(r) \/ RequestDies(r)
  \/ \E i \in Node : StartTask(i) \/ FailTask(i) \/ SetStatus(i) \/ UserEnqueues(i)
  \/ \E i \in Node, r \in Worker : CompleteTask(i, r) \/ SweepFails(i, r) \/ MarkDone(i, r)

GraphSpec == GraphInit /\ [][GraphNext]_graphVars

\* Requests get on, and the daemon keeps polling.
FairGraphSpec ==
  /\ GraphSpec
  /\ \A r \in Worker : WF_graphVars(Wake(r))
  /\ SF_graphVars(\E r \in Worker : Poll(r))

-----------------------------------------------------------------------------
\* A row becomes queued, dispatched or running only while every prerequisite
\* is done: none starts after one was reopened behind its back.
GateHolds ==
  [][\A i \in Node :
       \/ HasQueued(i)' /\ ~HasQueued(i)
       \/ working'[i] # working[i] /\ working'[i] # "none"
       => GateOpen(i)]_graphVars

Ready(i) == issue[i] \in {"todo", "blocked"} /\ GateOpen(i) /\ ~HasActiveTask(i)

\* An issue that is ready is admitted in the end, whichever wakes were lost.
ReadyIsServed == \A i \in Node : Ready(i) ~> ~Ready(i)

\* A runtime whose queued rows are all open goes on claiming: only a row whose
\* prerequisite was reopened can hold the others up.
QueueMoves ==
  \A i \in Node : []<>(~HasQueued(i) \/ working[i] # "none"
                         \/ \E j \in Node : HasQueued(j) /\ ~GateOpen(j))

=============================================================================
