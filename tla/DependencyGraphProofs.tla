------------------------ MODULE DependencyGraphProofs -----------------------
(***************************************************************************)
(* The gate of the dependency graph holds for any plan, any number of      *)
(* requests and any bounds: no row is queued, claimed or started while a   *)
(* hard prerequisite is open, whatever the scheduler believed when it      *)
(* listed the issue.                                                       *)
(*                                                                         *)
(* And the validation of plans is right for any finite set of tasks.  What *)
(* a search has reached, a cycle, and an implied edge are all stated by    *)
(* sets that edges do not leave, so that no path has to be counted along.  *)
(***************************************************************************)
EXTENDS DependencyGraph, PlanWaves, FiniteSetTheorems, WellFoundedInduction, TLAPS

(* DependencyGraph. *)

(* The steps that write about an issue have one. *)
SubjectKnown ==
  \A r \in Worker : step[r] \in {"enqueue", "failed", "reset"} => subject[r] \in Node

GraphInv == GraphTypeOK /\ SubjectKnown

(* What GateHolds says of one step. *)
RowsGated ==
  \A i \in Node :
    \/ HasQueued(i)' /\ ~HasQueued(i)
    \/ working'[i] # working[i] /\ working'[i] # "none"
    => GateOpen(i)

(* A row more in the queue, and one row less. *)
LEMMA OneRowMore ==
  ASSUME queue \in Seq(Node), NEW j \in Node, queue' = Append(queue, j)
  PROVE  queue' \in Seq(Node) /\ \A i \in Node : HasQueued(i)' => i = j \/ HasQueued(i)
<1>1. queue' \in Seq(Node) /\ DOMAIN queue' = 1..Len(queue) + 1
  OBVIOUS
<1>2. \A k \in 1..Len(queue) : queue'[k] = queue[k]
  OBVIOUS
<1>3. queue'[Len(queue) + 1] = j
  OBVIOUS
<1>4. \A k \in DOMAIN queue' : k \in DOMAIN queue \/ k = Len(queue) + 1
  BY <1>1
<1> QED BY <1>1, <1>2, <1>3, <1>4 DEF HasQueued

LEMMA OneRowLess ==
  ASSUME queue \in Seq(Node), NEW k \in DOMAIN queue, queue' = RemoveAt(k)
  PROVE  queue' \in Seq(Node) /\ \A i \in Node : HasQueued(i)' => HasQueued(i)
<1> DEFINE before == SubSeq(queue, 1, k - 1)
           after == SubSeq(queue, k + 1, Len(queue))
<1>1. k \in 1..Len(queue) /\ Len(queue) \in Nat
  OBVIOUS
<1>2. before \in Seq(Node) /\ Len(before) = k - 1
      /\ \A m \in 1..k - 1 : before[m] = queue[m]
  BY <1>1
<1>3. after \in Seq(Node) /\ Len(after) = Len(queue) - k
      /\ \A m \in 1..Len(queue) - k : after[m] = queue[k + m]
  BY <1>1
<1> HIDE DEF before, after
<1>4. queue' = before \o after
  BY DEF RemoveAt, before, after
<1>5. queue' \in Seq(Node) /\ DOMAIN queue' = 1..Len(queue) - 1
  BY <1>1, <1>2, <1>3, <1>4
<1>6. \A m \in DOMAIN queue' : queue'[m] = IF m < k THEN queue[m] ELSE queue[m + 1]
  <2> SUFFICES ASSUME NEW m \in DOMAIN queue'
               PROVE  queue'[m] = IF m < k THEN queue[m] ELSE queue[m + 1]
    OBVIOUS
  <2>1. m \in Nat /\ 1 <= m /\ m <= Len(queue) - 1
    BY <1>1, <1>5
  <2>2. CASE m < k
    BY <2>1, <2>2, <1>1, <1>2, <1>3, <1>4
  <2>3. CASE ~(m < k)
    <3>1. m - (k - 1) \in 1..Len(queue) - k
      BY <2>1, <2>3, <1>1
    <3>2. queue'[m] = after[m - (k - 1)]
      <4>1. m \in 1..Len(before) + Len(after) /\ m > Len(before)
        BY <2>1, <2>3, <1>1, <1>2, <1>3
      <4>2. (before \o after)[m] = after[m - Len(before)]
        BY <4>1, <1>2, <1>3
      <4> QED BY <4>2, <1>2, <1>4
    <3>3. after[m - (k - 1)] = queue[k + (m - (k - 1))] /\ k + (m - (k - 1)) = m + 1
      BY <3>1, <2>1, <1>1, <1>3
    <3> QED BY <3>2, <3>3, <2>3
  <2> QED BY <2>2, <2>3
<1>7. \A m \in DOMAIN queue' : m \in DOMAIN queue /\ m + 1 \in DOMAIN queue
  BY <1>1, <1>5
<1> QED BY <1>5, <1>6, <1>7 DEF HasQueued

LEMMA GraphInvInit == GraphInit => GraphInv
BY GraphAssumption, GraphBounds
   DEF GraphInit, GraphInv, GraphTypeOK, SubjectKnown, Status, Step

(* Every step keeps the types and the subjects, and puts rows where the gate *)
(* is open.                                                                 *)
LEMMA GraphStep ==
  ASSUME GraphInv, GraphNext
  PROVE  GraphInv' /\ RowsGated
<1> USE GraphAssumption, GraphBounds DEF Status, Step
<1>0. queue \in Seq(Node) /\ working \in [Node -> {"none", "dispatched", "running"}]
  BY DEF GraphInv, GraphTypeOK
<1>1. ASSUME NEW r \in Worker, PromoteDependents(r) PROVE GraphInv' /\ RowsGated
  <2>1. GraphTypeOK'
    BY <1>1 DEF GraphInv, GraphTypeOK, PromoteDependents, Promote, Goes, Then, requests
  <2>2. SubjectKnown'
    BY <1>1 DEF GraphInv, GraphTypeOK, SubjectKnown, PromoteDependents, Promote, Goes, Then, requests
  <2>3. RowsGated
    BY <1>1, <1>0 DEF RowsGated, HasQueued, GateOpen, PromoteDependents, Promote, Goes, Then, requests
  <2> QED BY <2>1, <2>2, <2>3 DEF GraphInv
<1>2. ASSUME NEW r \in Worker, Poll(r) PROVE GraphInv' /\ RowsGated
  <2>1. GraphTypeOK'
    BY <1>2 DEF GraphInv, GraphTypeOK, Poll, Then, requests
  <2>2. SubjectKnown'
    BY <1>2 DEF GraphInv, GraphTypeOK, SubjectKnown, Poll, Then, requests
  <2>3. RowsGated
    BY <1>2, <1>0 DEF RowsGated, HasQueued, GateOpen, Poll, Then, requests
  <2> QED BY <2>1, <2>2, <2>3 DEF GraphInv
<1>3. ASSUME NEW r \in Worker, PromoteAll(r) PROVE GraphInv' /\ RowsGated
  <2>1. GraphTypeOK'
    BY <1>3 DEF GraphInv, GraphTypeOK, PromoteAll, Promote, Goes, Then, requests
  <2>2. SubjectKnown'
    BY <1>3 DEF GraphInv, GraphTypeOK, SubjectKnown, PromoteAll, Promote, Goes, Then, requests
  <2>3. RowsGated
    BY <1>3, <1>0 DEF RowsGated, HasQueued, GateOpen, PromoteAll, Promote, Goes, Then, requests
  <2> QED BY <2>1, <2>2, <2>3 DEF GraphInv
<1>4. ASSUME NEW r \in Worker, ListReady(r) PROVE GraphInv' /\ RowsGated
  <2>1. GraphTypeOK'
    BY <1>4 DEF GraphInv, GraphTypeOK, ListReady, Then, requests
  <2>2. SubjectKnown'
    BY <1>4 DEF GraphInv, GraphTypeOK, SubjectKnown, ListReady, Then, requests
  <2>3. RowsGated
    BY <1>4, <1>0 DEF RowsGated, HasQueued, GateOpen, ListReady, Then, requests
  <2> QED BY <2>1, <2>2, <2>3 DEF GraphInv
<1>5. ASSUME NEW r \in Worker, NEW i \in Node, Admit(r, i) PROVE GraphInv' /\ RowsGated
  <2>1. GraphTypeOK'
    <3>1. listed' \in [Worker -> SUBSET Node]
      BY <1>5 DEF GraphInv, GraphTypeOK, Admit
    <3>2. issue' \in [Node -> Status]
      BY <1>5 DEF GraphInv, GraphTypeOK, Admit
    <3>3. step' \in [Worker -> Step] /\ subject' \in [Worker -> Node \cup {NoNode}]
      <4>1. CASE issue[i] = "todo" /\ GateOpen(i)
        <5>1. Then(r, "enqueue", i)
          BY <1>5, <4>1, Zenon DEF Admit
        <5>2. "enqueue" \in Step
          BY DEF Step
        <5> QED BY <5>1, <5>2 DEF GraphInv, GraphTypeOK, Then
      <4>2. CASE ~(issue[i] = "todo" /\ GateOpen(i))
        BY <1>5, <4>2 DEF GraphInv, GraphTypeOK, Admit
      <4> QED BY <4>1, <4>2
    <3> QED BY <1>5, <3>1, <3>2, <3>3 DEF GraphInv, GraphTypeOK, Admit
  <2>2. SubjectKnown'
    BY <1>5 DEF GraphInv, GraphTypeOK, SubjectKnown, Admit, Then, requests
  <2>3. RowsGated
    BY <1>5, <1>0 DEF RowsGated, HasQueued, GateOpen, Admit, Then, requests
  <2> QED BY <2>1, <2>2, <2>3 DEF GraphInv
<1>6. ASSUME NEW r \in Worker, EnqueueTask(r) PROVE GraphInv' /\ RowsGated
  <2>1. queue' = queue \/ (queue' = Append(queue, subject[r]) /\ subject[r] \in Node /\ GateOpen(subject[r]))
    BY <1>6 DEF GraphInv, SubjectKnown, EnqueueTask, Goes, Then, Death, CanInsert
  <2>2. queue' \in Seq(Node) /\ \A k \in Node : HasQueued(k)' => HasQueued(k) \/ GateOpen(k)
    <3>1. CASE queue' = queue
      BY <3>1, <1>0 DEF HasQueued
    <3>2. CASE queue' # queue
      BY <3>2, <2>1, <1>0, OneRowMore
    <3> QED BY <3>1, <3>2
  <2>3. GraphTypeOK'
    BY <1>6, <2>2 DEF GraphInv, GraphTypeOK, EnqueueTask, Goes, Then, Death, CanInsert, requests
  <2>4. SubjectKnown'
    BY <1>6 DEF GraphInv, GraphTypeOK, SubjectKnown, EnqueueTask, Goes, Then, Death, CanInsert, requests
  <2>5. \A k \in Node : working'[k] = working[k] \/ working'[k] = "none"
    BY <1>6, <1>0 DEF EnqueueTask
  <2>6. RowsGated
    BY <2>2, <2>5 DEF RowsGated
  <2> QED BY <2>3, <2>4, <2>6 DEF GraphInv
<1>7. ASSUME NEW r \in Worker, AllAdmitted(r) PROVE GraphInv' /\ RowsGated
  <2>1. GraphTypeOK'
    BY <1>7 DEF GraphInv, GraphTypeOK, AllAdmitted, Goes, Ends, Then, requests
  <2>2. SubjectKnown'
    BY <1>7 DEF GraphInv, GraphTypeOK, SubjectKnown, AllAdmitted, Goes, Ends, Then, requests
  <2>3. RowsGated
    BY <1>7, <1>0 DEF RowsGated, HasQueued, GateOpen, AllAdmitted, Goes, Ends, Then, requests
  <2> QED BY <2>1, <2>2, <2>3 DEF GraphInv
<1>8. ASSUME NEW r \in Worker, ClaimTask(r) PROVE GraphInv' /\ RowsGated
  <2>1. CASE UNCHANGED <<queue, working>>
    <3>1. GraphTypeOK'
      BY <1>8, <2>1 DEF GraphInv, GraphTypeOK, ClaimTask, Ends, Then
    <3>2. SubjectKnown'
      BY <1>8 DEF GraphInv, GraphTypeOK, SubjectKnown, ClaimTask, Ends, Then
    <3>3. RowsGated
      BY <2>1 DEF RowsGated, HasQueued
    <3> QED BY <3>1, <3>2, <3>3 DEF GraphInv
  <2>2. CASE ~UNCHANGED <<queue, working>>
    <3>1. PICK k \in DOMAIN queue :
            /\ FirstFree(k)
            /\ working' = [working EXCEPT ![queue[k]] = "dispatched"]
            /\ queue' = RemoveAt(k)
      BY <1>8, <2>2 DEF ClaimTask
    <3>2. PICK j \in DOMAIN queue : FirstFree(j) /\ GateOpen(queue[j])
      BY <1>8, <2>2 DEF ClaimTask
    <3>3. j = k
      <4>1. j \in 1..Len(queue) /\ k \in 1..Len(queue) /\ Len(queue) \in Nat
        BY <1>0
      <4>2. ~(j < k) /\ ~(k < j)
        BY <4>1, <3>1, <3>2 DEF FirstFree
      <4> QED BY <4>1, <4>2
    <3>4. queue[k] \in Node /\ GateOpen(queue[k])
      BY <3>2, <3>3, <1>0
    <3>5. queue' \in Seq(Node) /\ \A i \in Node : HasQueued(i)' => HasQueued(i)
      BY <3>1, <1>0, OneRowLess
    <3>6. GraphTypeOK'
      BY <1>8, <3>1, <3>4, <3>5 DEF GraphInv, GraphTypeOK, ClaimTask, Ends, Then
    <3>7. SubjectKnown'
      BY <1>8 DEF GraphInv, GraphTypeOK, SubjectKnown, ClaimTask, Ends, Then
    <3>8. RowsGated
      BY <3>1, <3>4, <3>5, <1>0 DEF RowsGated
    <3> QED BY <3>6, <3>7, <3>8 DEF GraphInv
  <2> QED BY <2>1, <2>2
<1>9. ASSUME NEW r \in Worker, RequestDies(r) PROVE GraphInv' /\ RowsGated
  <2>1. GraphTypeOK'
    BY <1>9 DEF GraphInv, GraphTypeOK, RequestDies, Ends, Then, Death, requests
  <2>2. SubjectKnown'
    BY <1>9 DEF GraphInv, GraphTypeOK, SubjectKnown, RequestDies, Ends, Then, Death, requests
  <2>3. RowsGated
    BY <1>9, <1>0 DEF RowsGated, HasQueued, GateOpen, RequestDies, Ends, Then, Death, requests
  <2> QED BY <2>1, <2>2, <2>3 DEF GraphInv
<1>10. ASSUME NEW r \in Worker, HandleFailedTask(r) PROVE GraphInv' /\ RowsGated
  <2>1. queue' = queue \/ (queue' = Append(queue, subject[r]) /\ subject[r] \in Node /\ GateOpen(subject[r]))
    BY <1>10 DEF GraphInv, SubjectKnown, HandleFailedTask, Ends, Then, CanInsert
  <2>2. queue' \in Seq(Node) /\ \A k \in Node : HasQueued(k)' => HasQueued(k) \/ GateOpen(k)
    <3>1. CASE queue' = queue
      BY <3>1, <1>0 DEF HasQueued
    <3>2. CASE queue' # queue
      BY <3>2, <2>1, <1>0, OneRowMore
    <3> QED BY <3>1, <3>2
  <2>3. GraphTypeOK'
    BY <1>10, <2>2 DEF GraphInv, GraphTypeOK, HandleFailedTask, Ends, Then, CanInsert, requests
  <2>4. SubjectKnown'
    BY <1>10 DEF GraphInv, GraphTypeOK, SubjectKnown, HandleFailedTask, Ends, Then, CanInsert, requests
  <2>5. \A k \in Node : working'[k] = working[k] \/ working'[k] = "none"
    BY <1>10, <1>0 DEF HandleFailedTask
  <2>6. RowsGated
    BY <2>2, <2>5 DEF RowsGated
  <2> QED BY <2>3, <2>4, <2>6 DEF GraphInv
<1>11. ASSUME NEW r \in Worker, ResetIssue(r) PROVE GraphInv' /\ RowsGated
  <2>1. GraphTypeOK'
    BY <1>11 DEF GraphInv, GraphTypeOK, ResetIssue, Ends, Then, requests
  <2>2. SubjectKnown'
    BY <1>11 DEF GraphInv, GraphTypeOK, SubjectKnown, ResetIssue, Ends, Then, requests
  <2>3. RowsGated
    BY <1>11, <1>0 DEF RowsGated, HasQueued, GateOpen, ResetIssue, Ends, Then, requests
  <2> QED BY <2>1, <2>2, <2>3 DEF GraphInv
<1>12. ASSUME NEW i \in Node, StartTask(i) PROVE GraphInv' /\ RowsGated
  <2>1. GraphTypeOK'
    BY <1>12 DEF GraphInv, GraphTypeOK, StartTask, requests
  <2>2. SubjectKnown'
    BY <1>12 DEF GraphInv, GraphTypeOK, SubjectKnown, StartTask, requests
  <2>3. RowsGated
    BY <1>12, <1>0 DEF RowsGated, HasQueued, GateOpen, StartTask, requests
  <2> QED BY <2>1, <2>2, <2>3 DEF GraphInv
<1>13. ASSUME NEW i \in Node, FailTask(i) PROVE GraphInv' /\ RowsGated
  <2>1. queue' = queue \/ (queue' = Append(queue, i) /\ i \in Node /\ GateOpen(i))
    BY <1>13 DEF GraphInv, SubjectKnown, FailTask
  <2>2. queue' \in Seq(Node) /\ \A k \in Node : HasQueued(k)' => HasQueued(k) \/ GateOpen(k)
    <3>1. CASE queue' = queue
      BY <3>1, <1>0 DEF HasQueued
    <3>2. CASE queue' # queue
      BY <3>2, <2>1, <1>0, OneRowMore
    <3> QED BY <3>1, <3>2
  <2>3. GraphTypeOK'
    BY <1>13, <2>2 DEF GraphInv, GraphTypeOK, FailTask, requests
  <2>4. SubjectKnown'
    BY <1>13 DEF GraphInv, GraphTypeOK, SubjectKnown, FailTask, requests
  <2>5. \A k \in Node : working'[k] = working[k] \/ working'[k] = "none"
    BY <1>13, <1>0 DEF FailTask
  <2>6. RowsGated
    BY <2>2, <2>5 DEF RowsGated
  <2> QED BY <2>3, <2>4, <2>6 DEF GraphInv
<1>14. ASSUME NEW i \in Node, SetStatus(i) PROVE GraphInv' /\ RowsGated
  <2>1. GraphTypeOK'
    BY <1>14 DEF GraphInv, GraphTypeOK, SetStatus, EditOnce, requests
  <2>2. SubjectKnown'
    BY <1>14 DEF GraphInv, GraphTypeOK, SubjectKnown, SetStatus, EditOnce, requests
  <2>3. RowsGated
    BY <1>14, <1>0 DEF RowsGated, HasQueued, GateOpen, SetStatus, EditOnce, requests
  <2> QED BY <2>1, <2>2, <2>3 DEF GraphInv
<1>15. ASSUME NEW i \in Node, UserEnqueues(i) PROVE GraphInv' /\ RowsGated
  <2>1. queue' = queue \/ (queue' = Append(queue, i) /\ i \in Node /\ GateOpen(i))
    BY <1>15 DEF GraphInv, SubjectKnown, UserEnqueues, EditOnce, CanInsert
  <2>2. queue' \in Seq(Node) /\ \A k \in Node : HasQueued(k)' => HasQueued(k) \/ GateOpen(k)
    <3>1. CASE queue' = queue
      BY <3>1, <1>0 DEF HasQueued
    <3>2. CASE queue' # queue
      BY <3>2, <2>1, <1>0, OneRowMore
    <3> QED BY <3>1, <3>2
  <2>3. GraphTypeOK'
    BY <1>15, <2>2 DEF GraphInv, GraphTypeOK, UserEnqueues, EditOnce, CanInsert, requests
  <2>4. SubjectKnown'
    BY <1>15 DEF GraphInv, GraphTypeOK, SubjectKnown, UserEnqueues, EditOnce, CanInsert, requests
  <2>5. \A k \in Node : working'[k] = working[k] \/ working'[k] = "none"
    BY <1>15, <1>0 DEF UserEnqueues
  <2>6. RowsGated
    BY <2>2, <2>5 DEF RowsGated
  <2> QED BY <2>3, <2>4, <2>6 DEF GraphInv
<1>16. ASSUME NEW i \in Node, NEW r \in Worker, CompleteTask(i, r) PROVE GraphInv' /\ RowsGated
  <2>1. GraphTypeOK'
    BY <1>16 DEF GraphInv, GraphTypeOK, CompleteTask, Then, requests
  <2>2. SubjectKnown'
    BY <1>16 DEF GraphInv, GraphTypeOK, SubjectKnown, CompleteTask, Then, requests
  <2>3. RowsGated
    BY <1>16, <1>0 DEF RowsGated, HasQueued, GateOpen, CompleteTask, Then, requests
  <2> QED BY <2>1, <2>2, <2>3 DEF GraphInv
<1>17. ASSUME NEW i \in Node, NEW r \in Worker, SweepFails(i, r) PROVE GraphInv' /\ RowsGated
  <2>1. GraphTypeOK'
    BY <1>17 DEF GraphInv, GraphTypeOK, SweepFails, Then, Death, requests
  <2>2. SubjectKnown'
    BY <1>17 DEF GraphInv, GraphTypeOK, SubjectKnown, SweepFails, Then, Death, requests
  <2>3. RowsGated
    BY <1>17, <1>0 DEF RowsGated, HasQueued, GateOpen, SweepFails, Then, Death, requests
  <2> QED BY <2>1, <2>2, <2>3 DEF GraphInv
<1>18. ASSUME NEW i \in Node, NEW r \in Worker, MarkDone(i, r) PROVE GraphInv' /\ RowsGated
  <2>1. GraphTypeOK'
    BY <1>18 DEF GraphInv, GraphTypeOK, MarkDone, Then, EditOnce, requests
  <2>2. SubjectKnown'
    BY <1>18 DEF GraphInv, GraphTypeOK, SubjectKnown, MarkDone, Then, EditOnce, requests
  <2>3. RowsGated
    BY <1>18, <1>0 DEF RowsGated, HasQueued, GateOpen, MarkDone, Then, EditOnce, requests
  <2> QED BY <2>1, <2>2, <2>3 DEF GraphInv
<1>19. GraphInv' /\ RowsGated
  <2>1. CASE \E r \in Worker : Wake(r) \/ Poll(r) \/ RequestDies(r)
    BY <2>1, <1>1, <1>2, <1>3, <1>4, <1>5, <1>6, <1>7, <1>8, <1>9, <1>10, <1>11 DEF Wake
  <2>2. CASE \E i \in Node : StartTask(i) \/ FailTask(i) \/ SetStatus(i) \/ UserEnqueues(i)
    BY <2>2, <1>12, <1>13, <1>14, <1>15
  <2>3. CASE \E i \in Node, r \in Worker :
               CompleteTask(i, r) \/ SweepFails(i, r) \/ MarkDone(i, r)
    BY <2>3, <1>16, <1>17, <1>18
  <2> QED BY <2>1, <2>2, <2>3 DEF GraphNext
<1> QED BY <1>19

LEMMA GraphStutter == GraphInv /\ UNCHANGED graphVars => GraphInv' /\ RowsGated
BY DEF GraphInv, GraphTypeOK, SubjectKnown, RowsGated, HasQueued, graphVars, requests

LEMMA GraphInvariant == GraphSpec => []GraphInv
<1>1. GraphInv /\ [GraphNext]_graphVars => GraphInv'
  BY GraphStep, GraphStutter
<1> QED BY <1>1, GraphInvInit, PTL DEF GraphSpec

(* The variables keep their types, the queue being one of issues. *)
THEOREM GraphTypes == GraphSpec => []GraphTypeOK
<1>1. GraphInv => GraphTypeOK
  BY DEF GraphInv
<1> QED BY <1>1, GraphInvariant, PTL

(* No row is queued, claimed or started while a prerequisite is open. *)
THEOREM GraphGate == GraphSpec => GateHolds
<1>1. GraphInv /\ [GraphNext]_graphVars => [RowsGated]_graphVars
  BY GraphStep
<1>2. GateHolds <=> [][RowsGated]_graphVars
  BY DEF GateHolds, RowsGated
<1> QED BY <1>1, <1>2, GraphInvariant, PTL DEF GraphSpec

-----------------------------------------------------------------------------
(* PlanWaves. *)

PlanShapes ==
  /\ planEdge \subseteq Edges
  /\ answer \in {"open", "refused", "accepted"}
  /\ loop \in {"cycles", "detours", "waves"}
  /\ unasked \subseteq planEdge
  /\ edge = NoEdge \/ edge \in planEdge
  /\ frontier \subseteq PlanTask /\ seen \subseteq PlanTask
  /\ indegree \in [PlanTask -> Nat]
  /\ current \subseteq PlanTask
  /\ waves \in Seq(SUBSET PlanTask)
  /\ visited \in Nat

(* b is in every set that has a and that the edges do not leave. *)
Leads(a, b, edges) ==
  \A S \in SUBSET PlanTask :
    a \in S /\ (\A f \in edges : f[1] \in S => f[2] \in S) => b \in S

Asking == loop # "waves" /\ edge # NoEdge

(* What the search has come to is reachable, and it has followed every edge *)
(* out of what it has seen.                                                 *)
Searched ==
  /\ ~Asking => frontier = {}
  /\ Asking =>
       /\ Source \in frontier \cup seen
       /\ Target \notin seen
       /\ \A n \in seen : Following(n) \subseteq frontier \cup seen
       /\ \A n \in frontier \cup seen : Leads(Source, n, planEdge \ {edge})

(* An edge the second loop is through with is not implied. *)
Asked ==
  /\ loop = "detours" => \A e \in planEdge : e \notin unasked /\ e # edge => ~Implied(e)
  /\ loop = "waves" => unasked = {} /\ \A e \in planEdge : ~Implied(e)

Placed == UNION {waves[k] : k \in DOMAIN waves}
Waiting(n, from) == {e \in planEdge : e[2] = n /\ e[1] \in from}

(* The indegrees count what is in no wave yet.  A task is in a wave, or in  *)
(* the one to come, as soon as nothing is left to count.                    *)
Unplaced ==
  /\ \A n \in PlanTask : indegree[n] = Cardinality(Waiting(n, PlanTask \ Placed))
  /\ loop = "waves" => \A n \in PlanTask : indegree[n] = 0 <=> n \in Placed \cup current
  /\ loop # "waves" => waves = <<>> /\ visited = 0
  /\ current \cap Placed = {}
  /\ visited = Cardinality(Placed)

(* The waves are disjoint, and each task follows its last prerequisite. *)
InOrder ==
  /\ \A j, k \in DOMAIN waves : j # k => waves[j] \cap waves[k] = {}
  /\ \A k \in DOMAIN waves : \A n \in waves[k] :
       /\ \A e \in planEdge : e[2] = n => \E j \in DOMAIN waves : j < k /\ e[1] \in waves[j]
       /\ k > 1 => \E e \in planEdge : e[2] = n /\ e[1] \in waves[k - 1]
  /\ waves # <<>> =>
       \A n \in current : \E e \in planEdge : e[2] = n /\ e[1] \in waves[Len(waves)]

Answered ==
  /\ answer = "refused" => ~Acyclic \/ \E e \in planEdge : Implied(e)
  /\ answer = "accepted" => loop = "waves" /\ current = {} /\ Placed = PlanTask

PlanInv == PlanShapes /\ Searched /\ Asked /\ Unplaced /\ InOrder /\ Answered

-----------------------------------------------------------------------------
LEMMA WaitingIsFinite ==
  ASSUME planEdge \subseteq Edges, NEW n, NEW from
  PROVE  IsFiniteSet(Waiting(n, from)) /\ Cardinality(Waiting(n, from)) \in Nat
<1>1. IsFiniteSet(PlanTask \X PlanTask)
  BY PlanAssumption, FS_Product
<1>2. Waiting(n, from) \subseteq PlanTask \X PlanTask
  BY DEF Waiting, Edges
<1> QED BY <1>1, <1>2, FS_Subset, FS_CardinalityType

LEMMA IntoCounts == ASSUME NEW n, NEW from PROVE Into(n, from) = Cardinality(Waiting(n, from))
BY DEF Into, Waiting

(* A search that is back where its edge begins has found a cycle. *)
LEMMA WayBackIsCycle ==
  ASSUME planEdge \subseteq Edges, NEW e \in planEdge, Leads(e[2], e[1], planEdge \ {e})
  PROVE  ~Acyclic
<1> DEFINE others == planEdge \ {e}
           S == {n \in PlanTask : Leads(e[2], n, others) /\ Leads(n, e[1], others)}
<1>1. e[1] \in PlanTask /\ e[2] \in PlanTask /\ \A f \in planEdge : f[1] \in PlanTask /\ f[2] \in PlanTask
  BY DEF Edges
<1>2. e[1] \in S /\ e[2] \in S
  BY <1>1 DEF Leads
<1>3. ASSUME NEW n \in S PROVE \E f \in planEdge : f[2] = n /\ f[1] \in S
  <2>1. CASE n = e[2]
    BY <1>2, <2>1
  <2>2. CASE n # e[2]
    <3> DEFINE R == {m \in PlanTask : Leads(e[2], m, others)}
    <3>1. e[2] \in R \ {n}
      BY <1>1, <2>2 DEF Leads
    <3>2. \A f \in others : f[1] \in R => f[2] \in R
      BY <1>1 DEF Leads
    <3>3. PICK f \in others : f[1] \in R \ {n} /\ f[2] \notin R \ {n}
      <4>1. SUFFICES ASSUME \A f \in others : f[1] \in R \ {n} => f[2] \in R \ {n}
                     PROVE  FALSE
        OBVIOUS
      <4>2. R \ {n} \in SUBSET PlanTask
        OBVIOUS
      <4>3. Leads(e[2], n, others)
        OBVIOUS
      <4> HIDE DEF R, S, others
      <4> QED BY <3>1, <4>1, <4>2, <4>3 DEF Leads
    <3>4. f[2] = n /\ Leads(e[2], f[1], others)
      BY <3>2, <3>3
    <3>5. Leads(f[1], e[1], others)
      <4>1. Leads(n, e[1], others)
        OBVIOUS
      <4> HIDE DEF others, S, R
      <4> QED BY <3>3, <3>4, <4>1 DEF Leads
    <3> QED BY <1>1, <3>3, <3>4, <3>5
  <2> QED BY <2>1, <2>2
<1>4. S \in (SUBSET PlanTask) \ {{}}
  BY <1>2
<1> HIDE DEF S
<1> QED BY <1>3, <1>4 DEF Acyclic

(* Among the waves a set of tasks is in there is a first. *)
LEMMA FirstWave ==
  ASSUME NEW K \in SUBSET Nat, K # {}
  PROVE  \E k \in K : \A j \in K : ~(j < k)
<1>1. IsWellFoundedOn(OpToRel(<, Nat), Nat)
  BY NatLessThanWellFounded
<1>2. \E k \in K : \A j \in K : ~(<<j, k>> \in OpToRel(<, Nat))
  BY <1>1, WFMin, Zenon
<1>3. \A j, k \in K : j < k => <<j, k>> \in OpToRel(<, Nat)
  BY DEF OpToRel
<1> QED BY <1>2, <1>3

LEMMA InOrderIsAcyclic ==
  ASSUME PlanShapes, InOrder, Placed = PlanTask PROVE Acyclic
<1> SUFFICES ASSUME NEW S \in (SUBSET PlanTask) \ {{}}
             PROVE  \E n \in S : \A e \in planEdge : e[2] = n => e[1] \notin S
  BY DEF Acyclic
<1> DEFINE K == {k \in DOMAIN waves : waves[k] \cap S # {}}
<1>1. K \in SUBSET Nat /\ K # {}
  BY DEF PlanShapes, Placed
<1>2. PICK k \in K : \A j \in K : ~(j < k)
  <2> HIDE DEF K
  <2> QED BY <1>1, FirstWave
<1>3. PICK n \in S : n \in waves[k]
  OBVIOUS
<1>4. \A e \in planEdge : e[2] = n => e[1] \notin S
  BY <1>2, <1>3 DEF InOrder
<1> QED BY <1>4

(* What no wave has reached is on a cycle. *)
LEMMA LeftOutIsCycle ==
  ASSUME PlanShapes, Unplaced, loop = "waves", current = {}, Placed # PlanTask
  PROVE  ~Acyclic
<1> DEFINE S == PlanTask \ Placed
<1>1. Placed \subseteq PlanTask
  BY DEF Placed, PlanShapes
<1>2. S \in (SUBSET PlanTask) \ {{}}
  BY <1>1
<1>3. ASSUME NEW n \in S PROVE \E e \in planEdge : e[2] = n /\ e[1] \in S
  <2>1. indegree[n] # 0 /\ indegree[n] = Cardinality(Waiting(n, S))
    BY DEF Unplaced
  <2>2. Waiting(n, S) # {}
    BY <2>1, FS_EmptySet
  <2> QED BY <2>2 DEF Waiting
<1> HIDE DEF S
<1> QED BY <1>2, <1>3 DEF Acyclic

-----------------------------------------------------------------------------
LEMMA PlanInitInv == PlanInit => PlanInv
<1> SUFFICES ASSUME PlanInit PROVE PlanInv
  OBVIOUS
<1>1. planEdge \subseteq Edges /\ waves = <<>> /\ Placed = {}
  BY DEF PlanInit, Placed
<1>2. \A n \in PlanTask : indegree[n] = Cardinality(Waiting(n, PlanTask \ Placed)) /\ indegree[n] \in Nat
  BY <1>1, IntoCounts, WaitingIsFinite DEF PlanInit
<1>3. PlanShapes
  BY <1>1, <1>2 DEF PlanInit, PlanShapes
<1>4. Searched /\ Asked /\ InOrder /\ Answered
  BY <1>1 DEF PlanInit, Searched, Asking, Asked, InOrder, Answered
<1>5. Unplaced
  BY <1>1, <1>2, FS_EmptySet DEF PlanInit, Unplaced
<1> QED BY <1>3, <1>4, <1>5 DEF PlanInv

(* The waves and their counts are left as they are. *)
LEMMA LayersStay ==
  ASSUME PlanInv, UNCHANGED <<planEdge, layers>>, loop' = loop
  PROVE  Unplaced' /\ InOrder' /\ Placed' = Placed /\ (Acyclic' <=> Acyclic)
         /\ \A e : Implied(e)' <=> Implied(e)
<1>1. Placed' = Placed /\ (Acyclic' <=> Acyclic) /\ \A e : Implied(e)' <=> Implied(e)
  BY DEF Placed, Acyclic, Implied, layers
<1>2. Unplaced' /\ InOrder'
  BY <1>1 DEF PlanInv, Unplaced, InOrder, layers, Waiting
<1> QED BY <1>1, <1>2

LEMMA EdgeJoinsTasks ==
  ASSUME PlanShapes, NEW e \in planEdge
  PROVE  e[1] \in PlanTask /\ e[2] \in PlanTask /\ e[1] # e[2] /\ e # NoEdge
<1>1. e \in PlanTask \X PlanTask /\ e[1] # e[2]
  BY DEF PlanShapes, Edges
<1> QED BY <1>1 DEF NoEdge

(* A search that ends without an answer has found that there is none: what  *)
(* it has seen parts the ends of the edge.                                  *)
LEMMA SearchedInVain ==
  ASSUME PlanInv, frontier = {}, loop = "detours", edge # NoEdge  PROVE ~Implied(edge)
<1>1. /\ edge[1] \in seen /\ edge[2] \notin seen
      /\ \A n \in seen : Following(n) \subseteq seen
  BY DEF PlanInv, Searched, Asking, Source, Target
<1>2. \A f \in planEdge \ {edge} : f[1] \in seen => f[2] \in seen
  BY <1>1 DEF Following
<1>3. seen \in SUBSET PlanTask
  BY DEF PlanInv, PlanShapes
<1> QED BY <1>1, <1>2, <1>3 DEF Implied

LEMMA AskNextKeepsInv == ASSUME PlanInv, AskNext PROVE PlanInv'
<1>1. PICK e \in unasked : unasked' = unasked \ {e} /\ edge' = e /\ seen' = {}
                           /\ frontier' = {IF loop = "cycles" THEN e[2] ELSE e[1]}
  BY DEF AskNext
<1>2. UNCHANGED <<planEdge, answer, loop, layers>> /\ answer = "open" /\ frontier = {}
  BY DEF AskNext
<1>3. e \in planEdge /\ e[1] \in PlanTask /\ e[2] \in PlanTask /\ e[1] # e[2] /\ e # NoEdge
  BY <1>1, EdgeJoinsTasks DEF PlanInv, PlanShapes
<1>4. PlanShapes'
  BY <1>1, <1>2, <1>3 DEF PlanInv, PlanShapes, layers
<1>5. loop # "waves"
  BY <1>1 DEF PlanInv, Asked
<1>6. Searched'
  <2>1. frontier' = {Source'} /\ seen' = {} /\ Source' # Target' /\ Asking'
    BY <1>1, <1>2, <1>3, <1>5 DEF Asking, Source, Target
  <2> QED BY <2>1 DEF Searched, Leads
<1>7. Asked'
  <2>1. loop = "detours" => \A f \in planEdge : f \notin unasked => ~Implied(f)
    BY <1>2, SearchedInVain, EdgeJoinsTasks DEF PlanInv, Asked
  <2>2. \A f : Implied(f)' <=> Implied(f)
    BY <1>2, LayersStay
  <2> QED BY <1>1, <1>2, <1>5, <2>1, <2>2 DEF Asked
<1>8. Answered'
  BY <1>2 DEF Answered
<1> QED BY <1>2, <1>4, <1>6, <1>7, <1>8, LayersStay DEF PlanInv

LEMMA LookKeepsInv == ASSUME PlanInv, Look PROVE PlanInv'
<1>1. PICK n \in frontier :
        \/ n = Target /\ answer' = "refused" /\ UNCHANGED <<frontier, seen>>
        \/ /\ n # Target /\ answer' = answer
           /\ seen' = seen \cup {n}
           /\ frontier' = (frontier \ {n}) \cup (IF n \in seen THEN {} ELSE Following(n))
  BY DEF Look
<1>2. UNCHANGED <<planEdge, loop, unasked, edge, layers>> /\ answer = "open"
  BY DEF Look
<1>3. Asking /\ edge \in planEdge /\ n \in PlanTask /\ Leads(Source, n, planEdge \ {edge})
  BY <1>1 DEF PlanInv, PlanShapes, Searched, Asking
<1>4. /\ Source' = Source /\ Target' = Target /\ (Asking' <=> Asking)
      /\ \A m : Following(m)' = Following(m)
  BY <1>2 DEF Source, Target, Asking, Following
<1>5. Asked'
  BY <1>2, LayersStay DEF PlanInv, Asked
<1>6. CASE n = Target /\ answer' = "refused" /\ UNCHANGED <<frontier, seen>>
  <2>1. PlanShapes' /\ Searched'
    BY <1>2, <1>4, <1>6 DEF PlanInv, PlanShapes, Searched, layers
  <2>2. ~Acyclic \/ \E e \in planEdge : Implied(e)
    <3>1. CASE loop = "cycles"
      BY <1>3, <1>6, <3>1, WayBackIsCycle DEF PlanInv, PlanShapes, Source, Target
    <3>2. CASE loop # "cycles"
      BY <1>3, <1>6, <3>2 DEF Source, Target, Implied, Leads
    <3> QED BY <3>1, <3>2
  <2>3. Answered'
    BY <1>2, <1>6, <2>2, LayersStay DEF Answered
  <2> QED BY <1>2, <1>5, <2>1, <2>3, LayersStay DEF PlanInv
<1>7. CASE /\ n # Target /\ answer' = answer
           /\ seen' = seen \cup {n}
           /\ frontier' = (frontier \ {n}) \cup (IF n \in seen THEN {} ELSE Following(n))
  <2>1. \A m \in Following(n) : m \in PlanTask /\ Leads(Source, m, planEdge \ {edge})
    <3> SUFFICES ASSUME NEW f \in planEdge \ {edge}, f[1] = n
                 PROVE  f[2] \in PlanTask /\ Leads(Source, f[2], planEdge \ {edge})
      BY DEF Following
    <3>1. f[2] \in PlanTask
      BY EdgeJoinsTasks DEF PlanInv
    <3> QED BY <1>3, <3>1 DEF Leads
  <2>2. PlanShapes'
    BY <1>2, <1>3, <1>7, <2>1 DEF PlanInv, PlanShapes, layers
  <2>3. Searched'
    <3>1. /\ Source \in frontier \cup seen /\ Target \notin seen
          /\ \A m \in seen : Following(m) \subseteq frontier \cup seen
          /\ \A m \in frontier \cup seen : Leads(Source, m, planEdge \ {edge})
      BY <1>3 DEF PlanInv, Searched
    <3>2. Source \in frontier' \cup seen' /\ Target \notin seen'
      BY <1>7, <3>1
    <3>3. \A m \in seen' : Following(m) \subseteq frontier' \cup seen'
      BY <1>1, <1>7, <3>1
    <3>4. \A m \in frontier' \cup seen' : Leads(Source, m, planEdge \ {edge})
      BY <1>1, <1>3, <1>7, <2>1, <3>1
    <3>5. \A m : Leads(Source, m, planEdge \ {edge}) = Leads(Source, m, planEdge \ {edge})'
      BY <1>2, <1>4 DEF Leads
    <3> QED BY <1>3, <1>4, <3>2, <3>3, <3>4, <3>5 DEF Searched
  <2>4. Answered'
    BY <1>2, <1>7 DEF Answered
  <2> QED BY <1>2, <1>5, <2>2, <2>3, <2>4, LayersStay DEF PlanInv
<1> QED BY <1>1, <1>6, <1>7

LEMMA LoopEndsKeepsInv == ASSUME PlanInv, LoopEnds PROVE PlanInv'
<1>1. /\ answer = "open" /\ frontier = {} /\ unasked = {} /\ edge' = NoEdge
      /\ UNCHANGED <<planEdge, answer, frontier, indegree, waves, visited>>
      /\ seen' = {}
  BY DEF LoopEnds
<1>2. \/ loop = "cycles" /\ loop' = "detours" /\ unasked' = planEdge /\ current' = current
      \/ /\ loop = "detours" /\ loop' = "waves" /\ unasked' = unasked
         /\ current' = {n \in PlanTask : indegree[n] = 0}
  BY DEF LoopEnds
<1>3. /\ Placed' = Placed /\ (\A e : Implied(e)' <=> Implied(e))
      /\ \A n, from : Waiting(n, from)' = Waiting(n, from)
  BY <1>1 DEF Placed, Implied, Waiting
<1>4. waves = <<>> /\ Placed = {} /\ visited = 0
  BY <1>2 DEF PlanInv, Unplaced, Placed
<1>5. PlanShapes'
  BY <1>1, <1>2 DEF PlanInv, PlanShapes
<1>6. Searched'
  BY <1>1 DEF PlanInv, Searched, Asking
<1>7. Asked'
  <2>1. loop = "detours" => \A e \in planEdge : ~Implied(e)
    BY <1>1, SearchedInVain, EdgeJoinsTasks DEF PlanInv, Asked
  <2> QED BY <1>1, <1>2, <1>3, <2>1 DEF Asked
<1>8. Unplaced'
  BY <1>1, <1>2, <1>3, <1>4 DEF PlanInv, Unplaced
<1>9. InOrder' /\ Answered'
  BY <1>1, <1>2, <1>4 DEF InOrder, Answered
<1> QED BY <1>5, <1>6, <1>7, <1>8, <1>9 DEF PlanInv

LEMMA AnswerKeepsInv == ASSUME PlanInv, Answer PROVE PlanInv'
<1>1. /\ answer = "open" /\ loop = "waves" /\ current = {}
      /\ answer' = IF visited = Cardinality(PlanTask) THEN "accepted" ELSE "refused"
      /\ UNCHANGED <<planEdge, loop, search, layers>>
  BY DEF Answer
<1>2. PlanShapes' /\ Searched' /\ Asked'
  BY <1>1, LayersStay DEF PlanInv, PlanShapes, Searched, Asked, Asking, Source, Target, Following,
     Leads, search, layers
<1>3. Placed \subseteq PlanTask /\ visited = Cardinality(Placed)
  BY DEF PlanInv, PlanShapes, Unplaced, Placed
<1>4. visited = Cardinality(PlanTask) <=> Placed = PlanTask
  BY <1>3, PlanAssumption, FS_Subset
<1>5. Placed # PlanTask => ~Acyclic
  BY <1>1, LeftOutIsCycle DEF PlanInv
<1>6. Answered'
  BY <1>1, <1>4, <1>5, LayersStay DEF Answered, layers
<1> QED BY <1>1, <1>2, <1>6, LayersStay DEF PlanInv

LEMMA LayerKeepsInv == ASSUME PlanInv, Layer PROVE PlanInv'
<1>1. /\ answer = "open" /\ loop = "waves" /\ current # {}
      /\ waves' = Append(waves, current) /\ visited' = visited + Cardinality(current)
      /\ indegree' = [n \in PlanTask |-> indegree[n] - Into(n, current)]
      /\ current' = {n \in PlanTask : indegree'[n] = 0 /\ Into(n, current) > 0}
      /\ UNCHANGED <<planEdge, answer, loop, search>>
  BY DEF Layer
<1>2. /\ Placed \subseteq PlanTask /\ current \subseteq PlanTask /\ current \cap Placed = {}
      /\ visited = Cardinality(Placed)
      /\ \A n \in PlanTask : indegree[n] = Cardinality(Waiting(n, PlanTask \ Placed))
      /\ \A n \in PlanTask : indegree[n] = 0 <=> n \in Placed \cup current
  BY <1>1 DEF PlanInv, PlanShapes, Unplaced, Placed
<1>3. /\ waves \in Seq(SUBSET PlanTask) /\ Len(waves) \in Nat /\ DOMAIN waves = 1..Len(waves)
      /\ DOMAIN waves' = 1..Len(waves) + 1 /\ waves' \in Seq(SUBSET PlanTask)
      /\ Len(waves') = Len(waves) + 1
      /\ \A k \in DOMAIN waves : waves'[k] = waves[k]
      /\ waves'[Len(waves) + 1] = current
  BY <1>1, <1>2 DEF PlanInv, PlanShapes
<1>4. Placed' = Placed \cup current
  <2>1. \A k \in DOMAIN waves' : k \in DOMAIN waves \/ k = Len(waves) + 1
    BY <1>3
  <2>2. DOMAIN waves \subseteq DOMAIN waves' /\ Len(waves) + 1 \in DOMAIN waves'
    BY <1>3
  <2> QED BY <1>3, <2>1, <2>2 DEF Placed
<1>5. visited' = Cardinality(Placed') /\ visited' \in Nat
  <2>1. IsFiniteSet(Placed) /\ IsFiniteSet(current)
    BY <1>2, PlanAssumption, FS_Subset
  <2>2. Cardinality(Placed \cap current) = 0
    BY <1>2, FS_EmptySet
  <2>3. Cardinality(Placed) \in Nat /\ Cardinality(current) \in Nat
    BY <2>1, FS_CardinalityType
  <2>4. Cardinality(Placed \cup current) =
          Cardinality(Placed) + Cardinality(current) - Cardinality(Placed \cap current)
    BY <2>1, FS_Union
  <2>5. visited' = visited + Cardinality(current) /\ visited = Cardinality(Placed)
    BY <1>1, <1>2
  <2> QED BY <1>4, <2>2, <2>3, <2>4, <2>5
<1>6. \A n, from : Waiting(n, from)' = Waiting(n, from)
  BY <1>1 DEF Waiting
<1>7. ASSUME NEW n \in PlanTask
      PROVE  /\ indegree'[n] = indegree[n] - Into(n, current)
             /\ indegree'[n] = Cardinality(Waiting(n, PlanTask \ Placed'))
             /\ Into(n, current) \in Nat /\ indegree'[n] \in Nat /\ indegree[n] \in Nat
  <2> DEFINE A == Waiting(n, PlanTask \ Placed)
             B == Waiting(n, current)
  <2>1. Waiting(n, PlanTask \ Placed') = A \ B /\ A \cap B = B
    BY <1>2, <1>4 DEF Waiting
  <2>2. planEdge \subseteq Edges
    BY DEF PlanInv, PlanShapes
  <2>3. IsFiniteSet(A) /\ Cardinality(A) \in Nat /\ Cardinality(B) \in Nat
        /\ Cardinality(A \ B) \in Nat
    BY <2>1, <2>2, WaitingIsFinite
  <2>4. Into(n, current) = Cardinality(B) /\ indegree[n] = Cardinality(A)
    BY <1>2, IntoCounts
  <2>5. indegree'[n] = indegree[n] - Into(n, current)
    BY <1>1
  <2> HIDE DEF A, B
  <2>6. Cardinality(A \ B) = Cardinality(A) - Cardinality(A \cap B)
    BY <2>3, FS_Difference
  <2> QED BY <2>1, <2>3, <2>4, <2>5, <2>6
<1>8. PlanShapes'
  <2>1. indegree' \in [PlanTask -> Nat]
    BY <1>1, <1>7
  <2>2. current' \subseteq PlanTask
    BY <1>1
  <2> QED BY <1>1, <1>3, <1>5, <2>1, <2>2 DEF PlanInv, PlanShapes, search
<1>9. Searched' /\ Asked'
  BY <1>1 DEF PlanInv, Searched, Asked, Asking, Source, Target, Following, Leads, Implied, search
<1>10. Unplaced'
  <2>1. \A n \in PlanTask : indegree'[n] = Cardinality(Waiting(n, PlanTask \ Placed)')
    BY <1>6, <1>7
  <2>2. \A n \in PlanTask : indegree'[n] = 0 <=> n \in Placed' \cup current'
    <3> SUFFICES ASSUME NEW n \in PlanTask
                 PROVE  indegree'[n] = 0 <=> n \in Placed' \cup current'
      OBVIOUS
    <3>1. indegree[n] = 0 <=> n \in Placed'
      BY <1>2, <1>4
    <3>2. n \in current' <=> indegree'[n] = 0 /\ Into(n, current) > 0
      BY <1>1
    <3> QED BY <1>7, <3>1, <3>2
  <2>3. current' \cap Placed' = {}
    <3> SUFFICES ASSUME NEW n \in current', n \in Placed' PROVE FALSE
      OBVIOUS
    <3>1. n \in PlanTask /\ Into(n, current) > 0 /\ indegree'[n] = 0
      BY <1>1
    <3>2. indegree[n] = 0
      BY <1>2, <1>4, <3>1
    <3> QED BY <1>7, <3>1, <3>2
  <2> QED BY <1>1, <1>5, <2>1, <2>2, <2>3 DEF Unplaced
<1>11. InOrder'
  <2>1. \A n \in current : \A e \in planEdge : e[2] = n => e[1] \in Placed
    <3> SUFFICES ASSUME NEW e \in planEdge, e[2] \in current PROVE e[1] \in Placed
      OBVIOUS
    <3>1. e[1] \in PlanTask /\ e[2] \in PlanTask /\ planEdge \subseteq Edges
      BY EdgeJoinsTasks DEF PlanInv, PlanShapes
    <3>2. Cardinality(Waiting(e[2], PlanTask \ Placed)) = 0
      BY <1>2, <3>1
    <3>3. Waiting(e[2], PlanTask \ Placed) = {}
      BY <3>1, <3>2, WaitingIsFinite, FS_EmptySet
    <3> QED BY <3>1, <3>3 DEF Waiting
  <2>2. \A n \in current' : \E e \in planEdge : e[2] = n /\ e[1] \in current
    <3> SUFFICES ASSUME NEW n \in current' PROVE Waiting(n, current) # {}
      BY DEF Waiting
    <3>1. Into(n, current) > 0
      BY <1>1
    <3> QED BY <3>1, IntoCounts, FS_EmptySet
  <2>3. \A j, k \in DOMAIN waves' : j # k => waves'[j] \cap waves'[k] = {}
    <3>1. \A k \in DOMAIN waves : waves[k] \subseteq Placed
      BY DEF Placed
    <3>2. \A j, k \in DOMAIN waves : j # k => waves[j] \cap waves[k] = {}
      BY DEF PlanInv, InOrder
    <3> SUFFICES ASSUME NEW j \in DOMAIN waves', NEW k \in DOMAIN waves', j # k
                 PROVE  waves'[j] \cap waves'[k] = {}
      OBVIOUS
    <3>3. (j \in DOMAIN waves \/ j = Len(waves) + 1) /\ (k \in DOMAIN waves \/ k = Len(waves) + 1)
      BY <1>3
    <3> QED BY <1>2, <1>3, <3>1, <3>2, <3>3
  <2>4. ASSUME NEW k \in DOMAIN waves', NEW n \in waves'[k]
        PROVE  /\ \A e \in planEdge : e[2] = n => \E j \in DOMAIN waves' : j < k /\ e[1] \in waves'[j]
               /\ k > 1 => \E e \in planEdge : e[2] = n /\ e[1] \in waves'[k - 1]
    <3>1. CASE k \in DOMAIN waves
      <4>1. /\ \A e \in planEdge : e[2] = n => \E j \in DOMAIN waves : j < k /\ e[1] \in waves[j]
            /\ k > 1 => \E e \in planEdge : e[2] = n /\ e[1] \in waves[k - 1]
        BY <1>3, <2>4, <3>1 DEF PlanInv, InOrder
      <4>2. k > 1 => k - 1 \in DOMAIN waves
        BY <1>3, <3>1
      <4> QED BY <1>3, <4>1, <4>2
    <3>2. CASE k = Len(waves) + 1
      <4>1. n \in current
        BY <1>3, <2>4, <3>2
      <4>2. ASSUME NEW e \in planEdge, e[2] = n
            PROVE  \E j \in DOMAIN waves' : j < k /\ e[1] \in waves'[j]
        <5>1. PICK j \in DOMAIN waves : e[1] \in waves[j]
          BY <2>1, <4>1, <4>2 DEF Placed
        <5> QED BY <1>3, <3>2, <5>1
      <4>3. k > 1 => waves # <<>> /\ k - 1 = Len(waves) /\ Len(waves) \in DOMAIN waves
        BY <1>3, <3>2
      <4>4. k > 1 => \E e \in planEdge : e[2] = n /\ e[1] \in waves[Len(waves)]
        BY <4>1, <4>3 DEF PlanInv, InOrder
      <4> QED BY <1>3, <4>2, <4>3, <4>4
    <3> QED BY <1>3, <3>1, <3>2
  <2>5. \A n \in current' : \E e \in planEdge : e[2] = n /\ e[1] \in waves'[Len(waves')]
    BY <1>3, <2>2
  <2>6. planEdge' = planEdge
    BY <1>1
  <2> QED BY <2>3, <2>4, <2>5, <2>6, Zenon DEF InOrder
<1>12. Answered'
  BY <1>1 DEF PlanInv, Answered
<1> QED BY <1>8, <1>9, <1>10, <1>11, <1>12 DEF PlanInv

LEMMA PlanStepInv == PlanInv /\ [PlanNext]_planVars => PlanInv'
<1> SUFFICES ASSUME PlanInv, [PlanNext]_planVars PROVE PlanInv'
  OBVIOUS
<1>1. CASE UNCHANGED planVars
  BY <1>1, LayersStay DEF PlanInv, planVars, PlanShapes, Searched, Asked, Asking, Source, Target,
     Following, Leads, Answered, search, layers
<1> QED BY <1>1, AskNextKeepsInv, LookKeepsInv, LoopEndsKeepsInv, LayerKeepsInv, AnswerKeepsInv
        DEF PlanNext

LEMMA PlanInvIsRight == PlanInv => PlanIsRight
<1> SUFFICES ASSUME PlanInv, answer = "accepted"
             PROVE  /\ Acyclic /\ \A e \in planEdge : ~Implied(e)
                    /\ \A n \in PlanTask : \E k \in DOMAIN waves :
                         /\ InWave(n) = {k}
                         /\ \A e \in planEdge : e[2] = n => \E j \in InWave(e[1]) : j < k
                         /\ k > 1 => \E e \in planEdge : e[2] = n /\ e[1] \in waves[k - 1]
  BY DEF PlanInv, Answered, PlanIsRight
<1>1. Placed = PlanTask /\ \A e \in planEdge : ~Implied(e)
  BY DEF PlanInv, Answered, Asked
<1>2. Acyclic
  BY <1>1, InOrderIsAcyclic DEF PlanInv
<1>3. ASSUME NEW n \in PlanTask
      PROVE  \E k \in DOMAIN waves :
               /\ InWave(n) = {k}
               /\ \A e \in planEdge : e[2] = n => \E j \in InWave(e[1]) : j < k
               /\ k > 1 => \E e \in planEdge : e[2] = n /\ e[1] \in waves[k - 1]
  <2>1. PICK k \in DOMAIN waves : n \in waves[k]
    BY <1>1 DEF Placed
  <2>2. InWave(n) = {k}
    BY <2>1 DEF InWave, PlanInv, InOrder
  <2>3. /\ \A e \in planEdge : e[2] = n => \E j \in DOMAIN waves : j < k /\ e[1] \in waves[j]
        /\ k > 1 => \E e \in planEdge : e[2] = n /\ e[1] \in waves[k - 1]
    BY <2>1 DEF PlanInv, InOrder
  <2>4. \A m, j : j \in InWave(m) <=> j \in DOMAIN waves /\ m \in waves[j]
    BY DEF InWave
  <2> QED BY <2>2, <2>3, <2>4, Zenon
<1> QED BY <1>1, <1>2, <1>3

(* Whatever the size of a plan and the order of its tasks and edges, it is  *)
(* accepted exactly when it has no cycle and no implied edge, and its waves *)
(* are right (validateDependencyGraphPlan).                                 *)
THEOREM PlansAreJudgedRight == PlanSpec => []PlanIsRight
<1> QED BY PlanInitInv, PlanStepInv, PlanInvIsRight, PTL DEF PlanSpec
=============================================================================
