--------------------------- MODULE TaskQueueProofs ---------------------------
(***************************************************************************)
(* Proofs about TaskQueue, for any lanes, slots, agents, capacity and      *)
(* attempts, and any number of rows: its invariants, what its steps do, and *)
(* that it implements LaneExecutor.                                        *)
(***************************************************************************)
EXTENDS TaskQueue, FiniteSetTheorems, TLAPS

(* The inductive invariant.  What a step after a failure writes depends on  *)
(* what an earlier step decided, so Settled keeps the decision true while   *)
(* the retry is pending: the row is still open or still failed, and its     *)
(* attempt below the ceiling.  Children adds to OneRetryPerFailure that a   *)
(* row whose failure is still being settled has no retry yet.               *)

Settled ==
  \A t \in Task :
    /\ settling[t] = "tx" => status[t] \in Active
    /\ settling[t] \in {"handle", "insert"} => status[t] = "failed"
    /\ settling[t] \in {"tx", "insert"} => Eligible(t, reason[t])

Children ==
  \A n \in Task : IsRetry(n) =>
    /\ status[parent[n]] = "failed" /\ reason[parent[n]] \in Retryable
    /\ settling[parent[n]] = "none"
    /\ attempt[n] = attempt[parent[n]] + 1
    /\ \A m \in Task : parent[m] = parent[n] => m = n

IInv ==
  TypeOK /\ Settled /\ Children /\ LaneExclusive /\ PendingSlotUnique /\ AgentCapacity

-----------------------------------------------------------------------------
(* What keeps the parts of the invariant, whatever the step. *)

\* There are finitely many rows.
LEMMA TaskFinite == IsFiniteSet(Task)
  BY FS_Interval, BoundAssumption DEF Task

\* The retry of an eligible row stays within its ceiling.
LEMMA CeilingType ==
  ASSUME NEW why, NEW c \in Nat
  PROVE  RetryCeiling(why, c) \in Nat
  BY DEF RetryCeiling

\* A step that makes no row active keeps what is said of active rows.
LEMMA ActiveKept ==
  ASSUME TypeOK, LaneExclusive, AgentCapacity,
         \A t \in Task : status'[t] \in Active => status[t] \in Active /\ lane'[t] = lane[t]
  PROVE  LaneExclusive' /\ AgentCapacity'
<1>1. LaneExclusive'
  BY DEF LaneExclusive, In
<1>2. ASSUME NEW a \in Agent
      PROVE  Cardinality({t \in In(Active) : AgentOf[lane[t]] = a})' <= Cap
  <2> DEFINE A == {t \in In(Active) : AgentOf[lane[t]] = a}
             B == {t \in Task : status'[t] \in Active /\ AgentOf[lane'[t]] = a}
  <2>1. IsFiniteSet(A)
    <3>1. A \in SUBSET Task
      BY DEF In
    <3> QED BY <3>1, TaskFinite, FS_Subset
  <2>2. B \in SUBSET A
    BY DEF In
  <2>3. Cardinality(B) <= Cardinality(A) /\ Cardinality(A) \in Nat /\ Cardinality(B) \in Nat
    BY <2>1, <2>2, FS_Subset, FS_CardinalityType
  <2>4. Cardinality(A) <= Cap
    BY DEF AgentCapacity
  <2>5. {t \in In(Active) : AgentOf[lane[t]] = a}' = B
    BY DEF In
  <2> HIDE DEF A, B
  <2>6. Cardinality(B) <= Cap
    BY <2>3, <2>4, AgentAssumption
  <2> QED BY <2>5, <2>6
<1> QED BY <1>1, <1>2 DEF AgentCapacity

\* Which rows hold a slot, before and after a step.
LEMMA HoldingIs ==
  ASSUME NEW s \in Slot, NEW t \in Task
  PROVE  /\ t \in Holding(s) <=> status[t] \in Pending /\ SlotOf[lane[t]] = s
         /\ t \in Holding(s)' <=> status'[t] \in Pending /\ SlotOf[lane'[t]] = s
<1>1. s # NoSlot
  BY SlotAssumption
<1>2. Pending \subseteq Status \ {"none"}
  BY DEF Pending, Status, Active
<1> QED BY <1>1, <1>2 DEF Holding, InSlot, In

LEMMA HoldingTask ==
  ASSUME NEW s \in Slot
  PROVE  Holding(s) \subseteq Task /\ Holding(s)' \subseteq Task
  BY DEF Holding, InSlot, In

\* Uniqueness of slots, row by row.
LEMMA PendingPointwise ==
  PendingSlotUnique <=>
    \A t, u \in Task :
      status[t] \in Pending /\ status[u] \in Pending
      /\ SlotOf[lane[t]] \in Slot /\ SlotOf[lane[t]] = SlotOf[lane[u]] => t = u
  BY HoldingIs, HoldingTask DEF PendingSlotUnique

LEMMA PendingPointwiseNext ==
  PendingSlotUnique' <=>
    \A t, u \in Task :
      status'[t] \in Pending /\ status'[u] \in Pending
      /\ SlotOf[lane'[t]] \in Slot /\ SlotOf[lane'[t]] = SlotOf[lane'[u]] => t = u
  BY HoldingIs, HoldingTask DEF PendingSlotUnique

\* A step that brings no row into a slot keeps slots unique.
LEMMA PendingKept ==
  ASSUME PendingSlotUnique,
         \A t \in Task : status'[t] \in Pending => status[t] \in Pending /\ lane'[t] = lane[t]
  PROVE  PendingSlotUnique'
  BY PendingPointwise, PendingPointwiseNext

\* So does a step that brings row n into a slot nobody else holds afterwards.
LEMMA PendingJoined ==
  ASSUME PendingSlotUnique, NEW n \in Task,
         \A t \in Task \ {n} :
           status'[t] \in Pending =>
             /\ status[t] \in Pending /\ lane'[t] = lane[t]
             /\ SlotOf[lane'[n]] \in Slot => SlotOf[lane'[t]] # SlotOf[lane'[n]]
  PROVE  PendingSlotUnique'
  BY PendingPointwise, PendingPointwiseNext

\* A step that leaves alone every row whose failure is being settled.
LEMMA SettledKept ==
  ASSUME Settled,
         \A t \in Task : settling'[t] # "none" =>
           /\ settling'[t] = settling[t] /\ status'[t] = status[t] /\ reason'[t] = reason[t]
           /\ attempt'[t] = attempt[t] /\ ceiling'[t] = ceiling[t]
  PROVE  Settled'
  BY DEF Settled, Eligible, RetryCeiling

\* A step that inserts no retry, changes no failed row and reopens no failure.
LEMMA ChildrenKept ==
  ASSUME TypeOK, Children,
         parent' = parent, attempt' = attempt,
         \A t \in Task : status[t] = "failed" =>
           /\ status'[t] = "failed" /\ reason'[t] = reason[t]
           /\ settling[t] = "none" => settling'[t] = "none"
  PROVE  Children'
  BY DEF Children, IsRetry, TypeOK

-----------------------------------------------------------------------------
(* Steps that insert no row. *)

\* Settled is left for the caller when a failure is being settled.
LEMMA NoRowInserted ==
  ASSUME IInv, TypeOK', Settled', UNCHANGED row,
         \A t \in Task :
           /\ status'[t] \in Active => status[t] \in Active
           /\ status'[t] \in Pending => status[t] \in Pending
           /\ status[t] = "failed" =>
                /\ status'[t] = "failed" /\ reason'[t] = reason[t]
                /\ settling[t] = "none" => settling'[t] = "none"
  PROVE  IInv'
<1>1. lane' = lane /\ parent' = parent /\ attempt' = attempt
  BY DEF row
<1>2. LaneExclusive' /\ AgentCapacity'
  BY <1>1, ActiveKept DEF IInv
<1>3. PendingSlotUnique'
  BY <1>1, PendingKept DEF IInv
<1>4. Children'
  BY <1>1, ChildrenKept DEF IInv
<1> QED BY <1>2, <1>3, <1>4 DEF IInv

\* One open row moves on, to a status that holds no more than its last one.
LEMMA MoveStep ==
  ASSUME IInv, NEW t \in Task, NEW x \in Status,
         status[t] \in {"queued", "deferred"} \cup Active, t \notin Locked,
         status' = [status EXCEPT ![t] = x],
         x \in Active => status[t] \in Active,
         x \in Pending => status[t] \in Pending,
         UNCHANGED <<row, reason, settling, rerunning, poll, health>>
  PROVE  IInv'
<1>1. settling[t] = "none"
  BY DEF IInv, TypeOK, Settled, Locked, Active
<1>2. TypeOK'
  BY DEF IInv, TypeOK, row
<1>3. Settled'
  BY <1>1, SettledKept DEF IInv, TypeOK, row
<1>4. \A u \in Task :
        /\ status'[u] \in Active => status[u] \in Active
        /\ status'[u] \in Pending => status[u] \in Pending
        /\ status[u] = "failed" => status'[u] = "failed"
  BY DEF IInv, TypeOK, Active
<1> QED BY <1>2, <1>3, <1>4, NoRowInserted

\* What a daemon reports, a requeue and a cancellation.
LEMMA MovesKeep ==
  ASSUME IInv, NEW t \in Task,
         Requeue(t) \/ StartTask(t) \/ MarkWaitingLocalDirectory(t)
           \/ CompleteTask(t) \/ CancelTask(t)
  PROVE  IInv'
<1>1. CASE Requeue(t)
  BY <1>1, MoveStep DEF Requeue, Status, Active, Pending
<1>2. CASE StartTask(t)
  BY <1>2, MoveStep DEF StartTask, Status, Active, Pending
<1>3. CASE MarkWaitingLocalDirectory(t)
  BY <1>3, MoveStep DEF MarkWaitingLocalDirectory, Status, Active, Pending
<1>4. CASE CompleteTask(t)
  BY <1>4, MoveStep DEF CompleteTask, Status, Terminal, Active, Pending
<1>5. CASE CancelTask(t)
  BY <1>5, MoveStep DEF CancelTask, Status, Terminal, Active, Pending
<1> QED BY <1>1, <1>2, <1>3, <1>4, <1>5

\* A set of open rows, none of them in a terminal transaction, is cancelled,
\* or the statement fails.
LEMMA CancelStep ==
  ASSUME IInv, NEW S \in SUBSET Task,
         \A t \in S : status[t] \in {"queued", "deferred"} \cup Active /\ t \notin Locked,
         \/ status' = [t \in Task |-> IF t \in S THEN "cancelled" ELSE status[t]]
         \/ UNCHANGED status,
         UNCHANGED <<row, reason, settling, health>>,
         rerunning' \in [Slot -> {"idle", "enqueue", "reclear", "reenqueue"}],
         poll' \in {"idle", "promote", "claim"}
  PROVE  IInv'
<1>1. \A t \in S : settling[t] = "none"
  BY DEF IInv, TypeOK, Settled, Locked, Active
<1>2. TypeOK'
  BY DEF IInv, TypeOK, row, Status, Terminal
<1>3. Settled'
  BY <1>1, SettledKept DEF IInv, TypeOK, row
<1>4. \A u \in Task :
        /\ status'[u] \in Active => status[u] \in Active
        /\ status'[u] \in Pending => status[u] \in Pending
        /\ status[u] = "failed" => status'[u] = "failed"
  BY DEF IInv, TypeOK, Active, Pending
<1> QED BY <1>2, <1>3, <1>4, NoRowInserted

LEMMA CancelSupersededKeeps ==
  ASSUME IInv, CancelSuperseded
  PROVE  IInv'
<1>1. \A t \in Superseded : t \in Task /\ status[t] = "deferred" /\ t \notin Locked
  BY DEF Superseded, In, Locked, IInv, Settled, Active
<1>2. Superseded \in SUBSET Task
  BY <1>1
<1> QED BY <1>1, <1>2, CancelStep DEF CancelSuperseded, IInv, TypeOK

LEMMA RerunClearKeeps ==
  ASSUME IInv, NEW s \in Slot, RerunClear(s)
  PROVE  IInv'
<1> DEFINE cleared == {t \in InSlot(s) : status[t] \in {"queued", "dispatched", "deferred"}}
<1>1. \A t \in cleared : /\ t \in Task /\ t \notin Locked
                         /\ status[t] \in {"queued", "deferred"} \cup Active
  <2> TAKE t \in cleared
  <2>1. t \in Task /\ SlotOf[lane[t]] = s /\ status[t] \in {"queued", "dispatched", "deferred"}
    BY DEF InSlot, In
  <2>2. CASE status[t] = "dispatched"
    <3>1. t \in Holding(s)
      BY <2>1, <2>2, HoldingIs DEF Pending
    <3> QED BY <2>1, <2>2, <3>1 DEF RerunClear, MustWait, Active
  <2>3. CASE status[t] # "dispatched"
    BY <2>1, <2>3 DEF Locked, IInv, Settled, Active
  <2> QED BY <2>2, <2>3
<1>2. /\ UNCHANGED <<row, reason, settling, health>>
      /\ rerunning' \in [Slot -> {"idle", "enqueue", "reclear", "reenqueue"}]
      /\ poll' \in {"idle", "promote", "claim"}
  BY DEF RerunClear, IInv, TypeOK
<1>3. \/ status' = [t \in Task |-> IF t \in cleared THEN "cancelled" ELSE status[t]]
      \/ UNCHANGED status
  BY DEF RerunClear
<1>4. cleared \in SUBSET Task
  BY <1>1
<1> HIDE DEF cleared
<1> QED BY <1>1, <1>2, <1>3, <1>4, CancelStep

\* A failure is recorded and its transaction stays open, or it commits at once.
LEMMA FailTaskKeeps ==
  ASSUME IInv, NEW t \in Task, NEW why \in Reported, FailTask(t, why)
  PROVE  IInv'
<1>1. why \in Reason
  BY ReportedAssumption
<1>2. settling[t] = "none"
  BY DEF FailTask, IInv, TypeOK, Settled, Locked, Active
<1>3. TypeOK'
  BY <1>1 DEF FailTask, IInv, TypeOK, row, Status, Terminal
<1>4. Settled'
  <2> SUFFICES ASSUME NEW u \in Task
               PROVE  /\ settling'[u] = "tx" => status'[u] \in Active
                      /\ settling'[u] \in {"handle", "insert"} => status'[u] = "failed"
                      /\ settling'[u] \in {"tx", "insert"} => Eligible(u, reason[u])'
    BY DEF Settled
  <2>1. CASE u = t
    BY <1>2, <2>1 DEF FailTask, IInv, TypeOK, row, Eligible, RetryCeiling
  <2>2. CASE u # t
    BY <2>2 DEF FailTask, IInv, TypeOK, Settled, row, Eligible, RetryCeiling
  <2> QED BY <2>1, <2>2
<1>5. \A u \in Task :
        /\ status'[u] \in Active => status[u] \in Active
        /\ status'[u] \in Pending => status[u] \in Pending
        /\ status[u] = "failed" => /\ status'[u] = "failed" /\ reason'[u] = reason[u]
                                   /\ settling[u] = "none" => settling'[u] = "none"
  BY DEF FailTask, IInv, TypeOK, Active, Pending
<1>6. UNCHANGED row
  BY DEF FailTask
<1> QED BY <1>3, <1>4, <1>5, <1>6, NoRowInserted

\* The transaction rolls back, or the server goes down with all it had open.
LEMMA RollbackKeeps ==
  ASSUME IInv, (\E t \in Task : AbortFailTask(t)) \/ ServerCrash
  PROVE  IInv'
<1>1. UNCHANGED <<status, row>>
  BY DEF AbortFailTask, ServerCrash
<1>2. TypeOK'
  BY <1>1 DEF AbortFailTask, ServerCrash, IInv, TypeOK, row
<1>3. \A t \in Task : settling'[t] # "none" =>
        settling'[t] = settling[t] /\ reason'[t] = reason[t]
  BY DEF AbortFailTask, ServerCrash, IInv, TypeOK
<1>4. Settled'
  BY <1>1, <1>3, SettledKept DEF row, IInv
<1>5. \A t \in Task : status[t] = "failed" =>
        reason'[t] = reason[t] /\ (settling[t] = "none" => settling'[t] = "none")
  BY DEF AbortFailTask, ServerCrash, Locked, IInv, TypeOK, Settled, Active
<1> QED BY <1>1, <1>2, <1>4, <1>5, NoRowInserted

\* A set of open rows fails, each of them left to HandleFailedTasks.
LEMMA FailInBulkKeeps ==
  ASSUME IInv, NEW S \in SUBSET Task, NEW why \in Reason, FailInBulk(S, why),
         \A t \in S : status[t] \in {"queued", "deferred"} \cup Active
  PROVE  IInv'
<1>1. UNCHANGED row
  BY DEF FailInBulk
<1>2. TypeOK'
  BY DEF FailInBulk, IInv, TypeOK, row, Status, Terminal
<1>3. Settled'
  <2> SUFFICES ASSUME NEW u \in Task
               PROVE  /\ settling'[u] = "tx" => status'[u] \in Active
                      /\ settling'[u] \in {"handle", "insert"} => status'[u] = "failed"
                      /\ settling'[u] \in {"tx", "insert"} => Eligible(u, reason[u])'
    BY DEF Settled
  <2>1. CASE u \in S
    BY <2>1 DEF FailInBulk
  <2>2. CASE u \notin S
    BY <2>2 DEF FailInBulk, IInv, Settled, row, Eligible, RetryCeiling
  <2> QED BY <2>1, <2>2
<1>4. \A u \in Task :
        /\ status'[u] \in Active => status[u] \in Active
        /\ status'[u] \in Pending => status[u] \in Pending
        /\ status[u] = "failed" => /\ status'[u] = "failed" /\ reason'[u] = reason[u]
                                   /\ settling[u] = "none" => settling'[u] = "none"
  BY DEF FailInBulk, Active, Pending
<1> QED BY <1>1, <1>2, <1>3, <1>4, NoRowInserted

LEMMA SweepKeeps ==
  ASSUME IInv, Sweep
  PROVE  IInv'
<1>1. \E S \in SUBSET Task, why \in Reason :
        FailInBulk(S, why) /\ \A t \in S : status[t] \in {"queued", "deferred"} \cup Active
  <2>1. CASE FailTasksForOfflineRuntimes
    BY <2>1 DEF FailTasksForOfflineRuntimes, In, Reason, Retryable
  <2>2. CASE FailStaleTasks
    BY <2>2 DEF FailStaleTasks, In, Reason, Retryable, Active
  <2>3. CASE ExpireStaleQueuedTasks
    BY <2>3 DEF ExpireStaleQueuedTasks, In, Reason
  <2>4. CASE FailExpiredRuntimeReconnectRetries
    BY <2>4 DEF FailExpiredRuntimeReconnectRetries, In, Reason
  <2>5. CASE RecoverOrphanedTasks
    BY <2>5 DEF RecoverOrphanedTasks, In, Reason, Retryable
  <2> QED BY <2>1, <2>2, <2>3, <2>4, <2>5 DEF Sweep
<1> QED BY <1>1, FailInBulkKeeps

\* HandleFailedTask decides on a retry, and so far nobody else has made one.
LEMMA HandleFailedTaskKeeps ==
  ASSUME IInv, NEW t \in Task, HandleFailedTask(t)
  PROVE  IInv'
<1>1. UNCHANGED <<status, row, reason>> /\ UNCHANGED row
  BY DEF HandleFailedTask
<1>2. PICK taken \in BOOLEAN :
        settling' = [settling EXCEPT ![t] =
          IF Eligible(t, reason[t]) /\ ~taken THEN "insert" ELSE "none"]
  BY DEF HandleFailedTask, Taken
<1>3. TypeOK'
  BY <1>1, <1>2 DEF HandleFailedTask, IInv, TypeOK, row
<1>4. Settled'
  <2>1. status[t] = "failed"
    BY DEF HandleFailedTask, IInv, Settled
  <2> QED BY <1>1, <1>2, <2>1 DEF IInv, TypeOK, Settled, row, Eligible, RetryCeiling
<1>5. \A u \in Task : settling[u] = "none" => settling'[u] = "none"
  BY <1>2 DEF HandleFailedTask, IInv, TypeOK
<1> QED BY <1>1, <1>3, <1>4, <1>5, NoRowInserted

LEMMA RuntimeHealthKeeps ==
  ASSUME IInv, RuntimeHealth
  PROVE  IInv'
<1>1. UNCHANGED <<status, row, reason, settling, rerunning, poll>> /\ UNCHANGED row
  BY DEF RuntimeHealth
<1>2. TypeOK'
  BY <1>1 DEF RuntimeHealth, Heartbeat, FallSilent, GraceElapses, IInv, TypeOK, row
<1>3. Settled'
  BY <1>1, SettledKept DEF IInv, row
<1> QED BY <1>1, <1>2, <1>3, NoRowInserted

-----------------------------------------------------------------------------
(* The steps of a claim request that let rows in. *)

\* Of each slot at most one row is promoted, and only into a free slot.
LEMMA PromoteDueDeferredKeeps ==
  ASSUME IInv, PromoteDueDeferred
  PROVE  IInv'
<1>1. PICK due \in SUBSET In({"deferred"}) :
        status' = [t \in Task |-> IF t \in Promotable(due) THEN "queued" ELSE status[t]]
  BY DEF PromoteDueDeferred
<1>2. UNCHANGED <<lane, attempt, ceiling, parent, reason, settling, rerunning, health>>
  BY DEF PromoteDueDeferred, row
<1>3. \A t \in Promotable(due) : t \in Task /\ status[t] = "deferred"
  BY DEF Promotable, In
<1>4. TypeOK'
  BY <1>1, <1>2 DEF PromoteDueDeferred, IInv, TypeOK, Status
<1>5. Settled'
  BY <1>1, <1>2, <1>3, SettledKept DEF IInv, TypeOK, Settled, Active
<1>6. Children'
  BY <1>1, <1>2, <1>3, ChildrenKept DEF IInv
<1>7. LaneExclusive' /\ AgentCapacity'
  BY <1>1, <1>2, ActiveKept DEF IInv, Active
<1>8. PendingSlotUnique'
  <2> SUFFICES ASSUME NEW t \in Task, NEW u \in Task,
                      status'[t] \in Pending, status'[u] \in Pending,
                      SlotOf[lane[t]] \in Slot, SlotOf[lane[t]] = SlotOf[lane[u]]
               PROVE  t = u
    BY <1>2, PendingPointwiseNext
  <2>1. \A v \in Task : v \notin Promotable(due) => status'[v] = status[v]
    BY <1>1
  <2>2. \A v \in Promotable(due) : Holding(SlotOf[lane[v]]) \ {v} = {}
    BY DEF Promotable, Taken
  <2>3. ASSUME NEW v \in Promotable(due), NEW w \in Task, w \notin Promotable(due),
               status'[w] \in Pending, SlotOf[lane[v]] \in Slot,
               SlotOf[lane[w]] = SlotOf[lane[v]]
        PROVE  FALSE
    <3>1. w \in Holding(SlotOf[lane[v]])
      BY <2>1, <2>3, HoldingIs
    <3> QED BY <2>2, <2>3, <3>1
  <2>4. CASE t \notin Promotable(due) /\ u \notin Promotable(due)
    BY <2>1, <2>4, PendingPointwise DEF IInv
  <2>5. CASE t \in Promotable(due) /\ u \in Promotable(due)
    <3>1. t <= u /\ u <= t
      BY <2>5, SlotAssumption DEF Promotable
    <3> QED BY <3>1, BoundAssumption DEF Task
  <2> QED BY <2>3, <2>4, <2>5
<1> QED BY <1>4, <1>5, <1>6, <1>7, <1>8 DEF IInv

\* A claimed row finds its lane idle and its agent below the cap.
LEMMA ClaimKeeps ==
  ASSUME IInv, NEW a \in Agent, Claim(a),
         poll' \in {"idle", "promote", "claim"},
         UNCHANGED <<row, reason, settling, rerunning, health>>
  PROVE  IInv'
<1>1. PICK t \in Claimable(a) : status' = [status EXCEPT ![t] = "dispatched"]
  BY DEF Claim
<1>2. t \in Task /\ status[t] = "queued" /\ AgentOf[lane[t]] = a /\ ~LaneBusy(lane[t])
  BY DEF Claimable, In
<1>3. UNCHANGED <<lane, attempt, ceiling, parent, reason, settling, rerunning, health>>
  BY DEF row
<1>4. TypeOK'
  BY <1>1, <1>2, <1>3 DEF IInv, TypeOK, Status, Active
<1>5. Settled'
  BY <1>1, <1>2, <1>3, SettledKept DEF IInv, TypeOK, Settled, Active
<1>6. Children'
  BY <1>1, <1>2, <1>3, ChildrenKept DEF IInv, TypeOK
<1>7. PendingSlotUnique'
  BY <1>1, <1>2, <1>3, PendingKept DEF IInv, TypeOK, Pending
<1>8. In(Active)' = In(Active) \cup {t} /\ t \notin In(Active)
  BY <1>1, <1>2 DEF In, Active, IInv, TypeOK
<1>9. LaneExclusive'
  BY <1>2, <1>3, <1>8 DEF LaneExclusive, LaneBusy, IInv
<1>10. ASSUME NEW b \in Agent
       PROVE  Cardinality({u \in In(Active) : AgentOf[lane[u]] = b})' <= Cap
  <2> DEFINE A == {u \in In(Active) : AgentOf[lane[u]] = b}
  <2>1. IsFiniteSet(A)
    <3>1. A \in SUBSET Task
      BY DEF In
    <3> QED BY <3>1, TaskFinite, FS_Subset
  <2>2. Cardinality(A) <= Cap /\ Cardinality(A) \in Nat
    BY <2>1, FS_CardinalityType DEF IInv, AgentCapacity
  <2>3. CASE b = a
    <3>1. A' = A \cup {t} /\ t \notin A
      BY <1>2, <1>3, <1>8, <2>3
    <3>2. Cardinality(A) < Cap
      BY <2>3 DEF Claim, CountRunningTasks
    <3> HIDE DEF A
    <3>3. Cardinality(A \cup {t}) = Cardinality(A) + 1
      BY <2>1, <3>1, FS_AddElement
    <3>4. Cardinality(A') <= Cap
      BY <2>2, <3>1, <3>2, <3>3, AgentAssumption
    <3> QED BY <3>4 DEF A
  <2>4. CASE b # a
    <3>1. A' = A
      BY <1>2, <1>3, <1>8, <2>4
    <3> QED BY <2>2, <3>1
  <2> QED BY <2>3, <2>4
<1> QED BY <1>4, <1>5, <1>6, <1>7, <1>9, <1>10 DEF IInv, AgentCapacity

LEMMA ClaimTaskKeeps ==
  ASSUME IInv, ClaimTask
  PROVE  IInv'
<1>1. poll' \in {"idle", "promote", "claim"}
      /\ UNCHANGED <<row, reason, settling, rerunning, health>>
  BY DEF ClaimTask
<1>2. CASE \E a \in Agent : Claim(a)
  BY <1>1, <1>2, ClaimKeeps
<1>3. CASE UNCHANGED status
  <2>1. TypeOK'
    BY <1>1, <1>3 DEF IInv, TypeOK, row
  <2>2. Settled'
    BY <1>1, <1>3, SettledKept DEF IInv, row
  <2> QED BY <1>1, <1>3, <2>1, <2>2, NoRowInserted
<1> QED BY <1>2, <1>3 DEF ClaimTask

-----------------------------------------------------------------------------
(* Steps that insert a row. *)

\* The row that is inserted has no past: nothing is being settled for it and
\* it is nobody's failed parent.
LEMMA NewRowBlank ==
  ASSUME IInv, NEW n \in NewRow
  PROVE  n \in Task /\ status[n] = "none" /\ settling[n] = "none"
  BY DEF NewRow, IInv, TypeOK, Settled, Active

\* What an insert writes.
LEMMA InsertIs ==
  ASSUME IInv, NEW n \in Task, NEW from, from \in [Task -> Status],
         NEW s, NEW l, NEW a, NEW c, NEW p, Insert(n, from, s, l, a, c, p)
  PROVE  /\ status'[n] = s /\ lane'[n] = l /\ attempt'[n] = a
         /\ ceiling'[n] = c /\ parent'[n] = p
         /\ \A u \in Task \ {n} :
              /\ status'[u] = from[u] /\ lane'[u] = lane[u] /\ attempt'[u] = attempt[u]
              /\ ceiling'[u] = ceiling[u] /\ parent'[u] = parent[u]
  BY DEF Insert, IInv, TypeOK

\* A row that is queued in a slot which no row but those of "but" holds, while
\* these leave it, or a row that is deferred.
LEMMA InsertedInFreeSlot ==
  ASSUME PendingSlotUnique, NEW n \in Task, NEW but,
         status'[n] \in Pending => ~Taken(SlotOf[lane'[n]], but),
         \A u \in Task \ {n} :
           /\ lane'[u] = lane[u]
           /\ status'[u] \in Pending => status[u] \in Pending /\ u \notin but
  PROVE  PendingSlotUnique'
<1>1. CASE status'[n] \in Pending
  <2>1. ASSUME NEW u \in Task \ {n}, status'[u] \in Pending, SlotOf[lane'[n]] \in Slot,
               SlotOf[lane'[u]] = SlotOf[lane'[n]]
        PROVE  FALSE
    <3>1. u \in Holding(SlotOf[lane'[n]])
      BY <2>1, HoldingIs
    <3> QED BY <1>1, <2>1, <3>1 DEF Taken
  <2> QED BY <2>1, PendingJoined
<1>2. CASE status'[n] \notin Pending
  <2>1. \A u \in Task : status'[u] \in Pending => status[u] \in Pending /\ lane'[u] = lane[u]
    BY <1>2
  <2> QED BY <2>1, PendingKept
<1> QED BY <1>1, <1>2

\* Enqueue and RerunEnqueue: a fresh row, its slot free.
LEMMA FreshRowKeeps ==
  ASSUME IInv, NEW l \in Lane, NEW n \in NewRow, ~Taken(SlotOf[l], {}),
         Insert(n, status, "queued", l, 1, MaxAttempts, 0),
         UNCHANGED <<reason, settling, poll, health>>,
         rerunning' \in [Slot -> {"idle", "enqueue", "reclear", "reenqueue"}]
  PROVE  IInv'
<1>1. n \in Task /\ status[n] = "none" /\ settling[n] = "none"
  BY NewRowBlank
<1>2. /\ status'[n] = "queued" /\ lane'[n] = l /\ parent'[n] = 0
      /\ \A u \in Task \ {n} :
           /\ status'[u] = status[u] /\ lane'[u] = lane[u] /\ attempt'[u] = attempt[u]
           /\ ceiling'[u] = ceiling[u] /\ parent'[u] = parent[u]
  <2>1. status \in [Task -> Status]
    BY DEF IInv, TypeOK
  <2> QED BY <1>1, <2>1, InsertIs
<1>3. TypeOK'
  BY <1>1, BoundAssumption DEF Insert, IInv, TypeOK, Status
<1>4. Settled'
  BY <1>1, <1>2, SettledKept DEF IInv
<1>5. LaneExclusive' /\ AgentCapacity'
  BY <1>2, ActiveKept DEF IInv, Active
<1>6. PendingSlotUnique'
  BY <1>1, <1>2, InsertedInFreeSlot DEF IInv
<1>7. Children'
  <2> SUFFICES ASSUME NEW m \in Task, parent'[m] # 0
               PROVE  /\ status'[parent'[m]] = "failed" /\ reason[parent'[m]] \in Retryable
                      /\ settling[parent'[m]] = "none"
                      /\ attempt'[m] = attempt'[parent'[m]] + 1
                      /\ \A k \in Task : parent'[k] = parent'[m] => k = m
    BY DEF Children, IsRetry
  <2>1. m # n /\ parent'[m] = parent[m] /\ attempt'[m] = attempt[m]
    BY <1>2
  <2>2. parent[m] \in Task /\ parent[m] # n
    BY <1>1, <2>1 DEF IInv, TypeOK, Children, IsRetry
  <2> QED BY <1>1, <1>2, <2>1, <2>2 DEF IInv, Children, IsRetry
<1> QED BY <1>3, <1>4, <1>5, <1>6, <1>7 DEF IInv

LEMMA EnqueueKeeps ==
  ASSUME IInv, NEW l \in Lane, Enqueue(l)
  PROVE  IInv'
<1>1. PICK n \in NewRow : Insert(n, status, "queued", l, 1, MaxAttempts, 0)
  BY DEF Enqueue
<1>2. rerunning' \in [Slot -> {"idle", "enqueue", "reclear", "reenqueue"}]
  BY DEF Enqueue, IInv, TypeOK
<1> QED BY <1>1, <1>2, FreshRowKeeps DEF Enqueue

LEMMA RerunEnqueueKeeps ==
  ASSUME IInv, NEW s \in Slot, RerunEnqueue(s)
  PROVE  IInv'
<1>1. rerunning' \in [Slot -> {"idle", "enqueue", "reclear", "reenqueue"}]
      /\ UNCHANGED <<reason, settling, poll, health>>
  BY DEF RerunEnqueue, IInv, TypeOK
<1>2. CASE Taken(s, {})
  <2>1. UNCHANGED <<status, row>> /\ UNCHANGED row
    BY <1>2 DEF RerunEnqueue
  <2>2. TypeOK'
    BY <1>1, <2>1 DEF IInv, TypeOK, row
  <2>3. Settled'
    BY <1>1, <2>1, SettledKept DEF IInv, row
  <2> QED BY <1>1, <2>1, <2>2, <2>3, NoRowInserted
<1>3. CASE ~Taken(s, {})
  <2>1. PICK n \in NewRow : Insert(n, status, "queued", MainLane[s], 1, MaxAttempts, 0)
    BY <1>3 DEF RerunEnqueue
  <2>2. MainLane[s] \in Lane /\ SlotOf[MainLane[s]] = s
    BY SlotAssumption
  <2> QED BY <1>1, <1>3, <2>1, <2>2, FreshRowKeeps
<1> QED BY <1>2, <1>3

\* CreateRetryTask, for a row whose failure is being settled: it has no retry
\* yet, and the attempt it failed at is below the ceiling.
LEMMA CreateRetryKeeps ==
  ASSUME IInv, NEW t \in Task, settling[t] \in {"tx", "insert"},
         CreateRetry(t, [status EXCEPT ![t] = "failed"]),
         settling' = [settling EXCEPT ![t] = "none"],
         UNCHANGED <<reason, rerunning, poll, health>>
  PROVE  IInv'
<1> DEFINE from == [status EXCEPT ![t] = "failed"]
           st == IF Deferred(reason[t], attempt[t]) THEN "deferred" ELSE "queued"
           c  == RetryCeiling(reason[t], ceiling[t])
<1>1. /\ status[t] \in Active \cup {"failed"}
      /\ reason[t] \in Retryable /\ attempt[t] < c
  BY DEF IInv, Settled, Eligible
<1>2. from \in [Task -> Status] /\ c \in Nat /\ attempt[t] \in Nat
  BY CeilingType DEF IInv, TypeOK, Status, Terminal
<1>3. CASE st = "queued" /\ Taken(SlotOf[lane[t]], {t})
  <2>1. status' = from /\ UNCHANGED row
    BY <1>3 DEF CreateRetry
  <2>2. TypeOK'
    BY <1>2, <2>1 DEF IInv, TypeOK, row
  <2>3. Settled'
    BY <2>1, SettledKept DEF IInv, TypeOK, row
  <2>4. \A u \in Task :
          /\ status'[u] \in Active => status[u] \in Active
          /\ status'[u] \in Pending => status[u] \in Pending
          /\ status[u] = "failed" => status'[u] = "failed"
          /\ settling[u] = "none" => settling'[u] = "none"
    BY <2>1 DEF IInv, TypeOK, Active, Pending
  <2> QED BY <2>1, <2>2, <2>3, <2>4, NoRowInserted
<1>4. CASE ~(st = "queued" /\ Taken(SlotOf[lane[t]], {t}))
  <2>1. PICK n \in NewRow : Insert(n, from, st, lane[t], attempt[t] + 1, c, t)
    BY <1>4 DEF CreateRetry
  <2>2. n \in Task /\ status[n] = "none" /\ settling[n] = "none" /\ n # t
    BY <1>1, NewRowBlank DEF Active
  <2> HIDE DEF c, st, from
  <2>3. /\ status'[n] = st /\ lane'[n] = lane[t] /\ attempt'[n] = attempt[t] + 1
        /\ ceiling'[n] = c /\ parent'[n] = t
        /\ \A u \in Task \ {n} :
             /\ status'[u] = from[u] /\ lane'[u] = lane[u] /\ attempt'[u] = attempt[u]
             /\ ceiling'[u] = ceiling[u] /\ parent'[u] = parent[u]
    BY <1>2, <2>1, <2>2, InsertIs
  <2>4. from[t] = "failed" /\ \A u \in Task \ {t} : from[u] = status[u]
    BY DEF from, IInv, TypeOK
  <2>5. st \in {"queued", "deferred"}
    BY DEF st
  <2>6. TypeOK'
    <3>1. /\ status' \in [Task -> Status] /\ lane' \in [Task -> Lane]
          /\ attempt' \in [Task -> Nat] /\ ceiling' \in [Task -> Nat]
          /\ parent' \in [Task -> Task \cup {0}]
      BY <1>2, <2>1, <2>2, <2>5 DEF Insert, IInv, TypeOK, Status
    <3>2. \A u \in Task : attempt'[u] <= ceiling'[u]
      <4>1. attempt[t] + 1 <= c
        BY <1>1, <1>2
      <4> QED BY <2>3, <4>1 DEF IInv, TypeOK
    <3> QED BY <3>1, <3>2 DEF IInv, TypeOK
  <2>7. Settled'
    BY <2>2, <2>3, <2>4, SettledKept DEF IInv, TypeOK
  <2>8. LaneExclusive' /\ AgentCapacity'
    BY <2>3, <2>4, <2>5, ActiveKept DEF IInv, Active
  <2>9. PendingSlotUnique'
    <3>1. status'[n] \in Pending => ~Taken(SlotOf[lane'[n]], {t})
      BY <1>4, <2>3, <2>5 DEF Pending
    <3>2. \A u \in Task \ {n} :
            /\ lane'[u] = lane[u]
            /\ status'[u] \in Pending => status[u] \in Pending /\ u \notin {t}
      BY <2>3, <2>4 DEF Pending
    <3> QED BY <2>2, <3>1, <3>2, InsertedInFreeSlot DEF IInv
  <2>10. Children'
    <3> SUFFICES ASSUME NEW m \in Task, parent'[m] # 0
                 PROVE  /\ status'[parent'[m]] = "failed" /\ reason[parent'[m]] \in Retryable
                        /\ settling'[parent'[m]] = "none"
                        /\ attempt'[m] = attempt'[parent'[m]] + 1
                        /\ \A k \in Task : parent'[k] = parent'[m] => k = m
      BY DEF Children, IsRetry
    <3>1. \A k \in Task : parent[k] # t /\ parent[k] # n
      BY <2>2, BoundAssumption DEF IInv, Children, IsRetry, Task
    <3>2. CASE m = n
      BY <1>1, <2>2, <2>3, <2>4, <3>1, <3>2 DEF IInv, TypeOK
    <3>3. CASE m # n
      <4>1. parent'[m] = parent[m] /\ parent[m] \in Task \ {n, t}
        BY <2>3, <3>1, <3>3 DEF IInv, TypeOK
      <4> QED BY <2>2, <2>3, <2>4, <3>1, <3>3, <4>1 DEF IInv, TypeOK, Children, IsRetry
    <3> QED BY <3>2, <3>3
  <2> QED BY <2>6, <2>7, <2>8, <2>9, <2>10 DEF IInv
<1> QED BY <1>3, <1>4

LEMMA CommitFailTaskKeeps ==
  ASSUME IInv, NEW t \in Task, CommitFailTask(t)
  PROVE  IInv'
  BY CreateRetryKeeps DEF CommitFailTask

LEMMA MaybeRetryFailedTaskKeeps ==
  ASSUME IInv, NEW t \in Task, MaybeRetryFailedTask(t)
  PROVE  IInv'
<1>1. status = [status EXCEPT ![t] = "failed"]
  BY DEF MaybeRetryFailedTask, IInv, TypeOK, Settled
<1>2. CASE CreateRetry(t, status)
  <2>1. CreateRetry(t, [status EXCEPT ![t] = "failed"])
    BY <1>1, <1>2
  <2> QED BY <2>1, CreateRetryKeeps DEF MaybeRetryFailedTask
<1>3. CASE UNCHANGED <<status, row>>
  <2>1. UNCHANGED row
    BY <1>3
  <2>2. TypeOK'
    BY <1>3 DEF MaybeRetryFailedTask, IInv, TypeOK, row
  <2>3. Settled'
    BY <1>3, SettledKept DEF MaybeRetryFailedTask, IInv, TypeOK, row
  <2>4. \A u \in Task : settling[u] = "none" => settling'[u] = "none"
    BY DEF MaybeRetryFailedTask, IInv, TypeOK
  <2> QED BY <1>3, <2>1, <2>2, <2>3, <2>4, NoRowInserted DEF MaybeRetryFailedTask
<1> QED BY <1>2, <1>3 DEF MaybeRetryFailedTask

-----------------------------------------------------------------------------
(* The invariant. *)

LEMMA InvInit ==
  ASSUME Init
  PROVE  IInv
<1>1. \A t \in Task : status[t] = "none" /\ settling[t] = "none" /\ parent[t] = 0
  BY DEF Init
<1>2. TypeOK
  <2>1. (CHOOSE l \in Lane : TRUE) \in Lane
    BY LaneAssumption
  <2> QED BY <2>1 DEF Init, TypeOK, Status
<1>3. Settled /\ Children
  BY <1>1 DEF Settled, Children, IsRetry
<1>4. In(Active) = {}
  BY <1>1 DEF In, Active
<1>5. LaneExclusive /\ AgentCapacity
  <2>1. \A a \in Agent : {t \in In(Active) : AgentOf[lane[t]] = a} = {}
    BY <1>4
  <2> QED BY <1>4, <2>1, FS_EmptySet, AgentAssumption DEF LaneExclusive, AgentCapacity
<1>6. PendingSlotUnique
  BY <1>1, PendingPointwise DEF Pending
<1> QED BY <1>2, <1>3, <1>5, <1>6 DEF IInv

LEMMA InvStutter ==
  ASSUME IInv, UNCHANGED vars
  PROVE  IInv'
<1>1. /\ UNCHANGED <<status, lane, attempt, ceiling, parent>>
      /\ UNCHANGED <<reason, settling, rerunning, poll, health>> /\ UNCHANGED row
  BY DEF vars, row
<1>2. TypeOK'
  BY <1>1 DEF IInv, TypeOK
<1>3. Settled'
  BY <1>1, SettledKept DEF IInv
<1> QED BY <1>1, <1>2, <1>3, NoRowInserted

LEMMA InvNext ==
  ASSUME IInv, [Next]_vars
  PROVE  IInv'
<1>1. CASE \E l \in Lane : Enqueue(l)
  BY <1>1, EnqueueKeeps
<1>2. CASE CancelSuperseded
  BY <1>2, CancelSupersededKeeps
<1>3. CASE PromoteDueDeferred
  BY <1>3, PromoteDueDeferredKeeps
<1>4. CASE ClaimTask
  BY <1>4, ClaimTaskKeeps
<1>5. ASSUME NEW t \in Task,
             Requeue(t) \/ Report(t) \/ CancelTask(t)
               \/ HandleFailedTask(t) \/ MaybeRetryFailedTask(t)
      PROVE  IInv'
  BY <1>5, MovesKeep, FailTaskKeeps, CommitFailTaskKeeps, RollbackKeeps,
     HandleFailedTaskKeeps, MaybeRetryFailedTaskKeeps DEF Report
<1>6. CASE Sweep
  BY <1>6, SweepKeeps
<1>7. CASE \E s \in Slot : RerunClear(s) \/ RerunEnqueue(s)
  BY <1>7, RerunClearKeeps, RerunEnqueueKeeps
<1>8. CASE RuntimeHealth
  BY <1>8, RuntimeHealthKeeps
<1>9. CASE ServerCrash
  BY <1>9, RollbackKeeps
<1>10. CASE UNCHANGED vars
  BY <1>10, InvStutter
<1> QED BY <1>1, <1>2, <1>3, <1>4, <1>5, <1>6, <1>7, <1>8, <1>9, <1>10 DEF Next

THEOREM Invariant == Spec => []IInv
<1>1. Init => IInv
  BY InvInit
<1>2. IInv /\ [Next]_vars => IInv'
  BY InvNext
<1> QED BY <1>1, <1>2, PTL DEF Spec

-----------------------------------------------------------------------------
(* What follows for every behaviour. *)

\* Every value the statements write is of its column's type; in particular no
\* row is ever inserted beyond its ceiling of attempts.
THEOREM TypeCorrect == Spec => []TypeOK
<1>1. IInv => TypeOK
  BY DEF IInv
<1> QED BY <1>1, Invariant, PTL

\* ClaimAgentTask's NOT EXISTS keeps every lane to one active row, for any
\* number of lanes, agents and rows.
THEOREM LanesExclusive == Spec => []LaneExclusive
<1>1. IInv => LaneExclusive
  BY DEF IInv
<1> QED BY <1>1, Invariant, PTL

\* The guards of enqueue, promotion, retry and rerun keep every slot to one
\* pending row: the unique index never answers a requeue, claim or promotion.
THEOREM SlotsUnique == Spec => []PendingSlotUnique
<1>1. IInv => PendingSlotUnique
  BY DEF IInv
<1> QED BY <1>1, Invariant, PTL

\* No agent runs more rows than its max_concurrent_tasks.
THEOREM CapacityKept == Spec => []AgentCapacity
<1>1. IInv => AgentCapacity
  BY DEF IInv
<1> QED BY <1>1, Invariant, PTL

\* A failure is retried at most once, whoever records it, in any interleaving
\* of reports, sweeps, orphan recovery, reruns and server crashes.
THEOREM RetriedOnce == Spec => []OneRetryPerFailure
<1>1. IInv => OneRetryPerFailure
  BY DEF IInv, Children, OneRetryPerFailure
<1> QED BY <1>1, Invariant, PTL

\* What a step leaves of the terminal rows.
TerminalKept ==
  \A t \in In(Terminal) : status'[t] = status[t] /\ reason'[t] = reason[t]

\* Statuses that are not terminal, and the two ends of a settlement.
LEMMA TerminalIs ==
  ASSUME IInv, NEW t \in In(Terminal)
  PROVE  /\ t \in Task /\ status[t] \in Terminal /\ t \notin Locked
         /\ status[t] \notin {"none", "queued", "deferred"} \cup Active
  BY DEF IInv, Settled, In, Locked, Terminal, Active

\* The insert of a retry.
LEMMA CreateRetryTerminal ==
  ASSUME IInv, NEW t \in Task, NEW from, from \in [Task -> Status], CreateRetry(t, from),
         \A u \in In(Terminal) : from[u] = status[u]
  PROVE  \A u \in In(Terminal) : status'[u] = status[u]
<1>1. CASE status' = from
  BY <1>1
<1>2. CASE \E n \in NewRow : \E s, l, a, c : Insert(n, from, s, l, a, c, t)
  <2>1. PICK n \in NewRow : \E s, l, a, c : Insert(n, from, s, l, a, c, t)
    BY <1>2
  <2>2. n \in Task /\ status[n] = "none"
    BY NewRowBlank
  <2>3. \A u \in Task \ {n} : status'[u] = from[u]
    BY <2>1, <2>2 DEF Insert
  <2> QED BY <2>2, <2>3, TerminalIs
<1> QED BY <1>1, <1>2 DEF CreateRetry

LEMMA TerminalStep ==
  ASSUME IInv, [Next]_vars
  PROVE  TerminalKept
<1> USE TerminalIs DEF TerminalKept
<1>1. status \in [Task -> Status] /\ reason \in [Task -> Reason \cup {"none"}]
  BY DEF IInv, TypeOK
<1>2. CASE \/ \E l \in Lane : Enqueue(l)
           \/ \E s \in Slot : RerunEnqueue(s)
  <2>1. UNCHANGED reason
    BY <1>2 DEF Enqueue, RerunEnqueue
  <2>2. \/ UNCHANGED status
        \/ \E n \in NewRow : status' = [status EXCEPT ![n] = "queued"]
    BY <1>2 DEF Enqueue, RerunEnqueue, Insert
  <2> QED BY <1>1, <2>1, <2>2, NewRowBlank
<1>3. CASE \/ CancelSuperseded \/ PromoteDueDeferred
           \/ \E s \in Slot : RerunClear(s)
  <2>1. UNCHANGED reason
    BY <1>3 DEF CancelSuperseded, PromoteDueDeferred, RerunClear
  <2>2. CASE CancelSuperseded
    BY <2>1, <2>2 DEF CancelSuperseded, Superseded, In
  <2>3. CASE PromoteDueDeferred
    BY <2>1, <2>3 DEF PromoteDueDeferred, Promotable, In
  <2>4. CASE \E s \in Slot : RerunClear(s)
    BY <2>1, <2>4 DEF RerunClear, Active, In
  <2> QED BY <1>3, <2>2, <2>3, <2>4
<1>4. CASE ClaimTask
  <2>1. \/ UNCHANGED status
        \/ \E t \in In({"queued"}) : status' = [status EXCEPT ![t] = "dispatched"]
    BY <1>4 DEF ClaimTask, Claim, Claimable
  <2> QED BY <1>1, <1>4, <2>1 DEF ClaimTask, In
<1>5. ASSUME NEW t \in Task,
             Requeue(t) \/ StartTask(t) \/ MarkWaitingLocalDirectory(t)
               \/ CompleteTask(t) \/ CancelTask(t)
      PROVE  TerminalKept
  BY <1>1, <1>5
  DEF Requeue, StartTask, MarkWaitingLocalDirectory, CompleteTask, CancelTask, Active
<1>6. ASSUME NEW t \in Task, NEW why \in Reported, FailTask(t, why)
      PROVE  TerminalKept
  BY <1>1, <1>6 DEF FailTask
<1>7. ASSUME NEW t \in Task, CommitFailTask(t)
      PROVE  TerminalKept
  <2>1. status[t] \in Active
    BY <1>7 DEF CommitFailTask, IInv, Settled
  <2>2. \A u \in In(Terminal) : [status EXCEPT ![t] = "failed"][u] = status[u]
    BY <1>1, <2>1
  <2>3. [status EXCEPT ![t] = "failed"] \in [Task -> Status]
    BY <1>1 DEF Status, Terminal
  <2> QED BY <1>7, <2>2, <2>3, CreateRetryTerminal DEF CommitFailTask
<1>8. ASSUME NEW t \in Task, MaybeRetryFailedTask(t)
      PROVE  TerminalKept
  BY <1>1, <1>8, CreateRetryTerminal DEF MaybeRetryFailedTask
<1>9. ASSUME NEW t \in Task, AbortFailTask(t) \/ HandleFailedTask(t)
      PROVE  TerminalKept
  BY <1>1, <1>9 DEF AbortFailTask, HandleFailedTask, Locked
<1>10. CASE Sweep
  BY <1>10 DEF Sweep, FailTasksForOfflineRuntimes, FailStaleTasks, ExpireStaleQueuedTasks,
     FailExpiredRuntimeReconnectRetries, RecoverOrphanedTasks, FailInBulk, In, Active
<1>11. CASE RuntimeHealth \/ ServerCrash
  BY <1>11 DEF RuntimeHealth, ServerCrash, In
<1>12. CASE UNCHANGED vars
  BY <1>12 DEF vars
<1> QED BY <1>2, <1>3, <1>4, <1>5, <1>6, <1>7, <1>8, <1>9, <1>10, <1>11, <1>12
        DEF Next, Report

\* A terminal row is final: late starts, reports, sweeps, cancels, requeues
\* and retries all miss it, in every behaviour.
THEOREM TerminalIsFinal == Spec => TerminalFinal
<1>1. IInv /\ [Next]_vars => [TerminalKept]_vars
  BY TerminalStep
<1> QED BY <1>1, Invariant, PTL DEF Spec, TerminalFinal, TerminalKept

\* What a step that dispatches row t says of the retries in the same chat.
RetryAhead ==
  \A t, r \in Task :
    /\ status[t] = "queued" /\ status'[t] = "dispatched"
    /\ status[r] = "queued" /\ IsRetry(r)
    /\ lane[t] = lane[r] /\ SlotOf[lane[t]] = NoSlot
    => IsRetry(t)

\* Only a claim dispatches a queued row.
LEMMA OnlyClaimDispatches ==
  ASSUME IInv, [Next]_vars, NEW t \in Task, status[t] = "queued", status'[t] = "dispatched"
  PROVE  ClaimTask
<1>1. status \in [Task -> Status]
  BY DEF IInv, TypeOK
<1>2. t \notin NewRow /\ settling[t] = "none"
  BY DEF NewRow, IInv, TypeOK, Settled, Active
<1>3. ASSUME NEW u \in Task, NEW from, from \in [Task -> Status], CreateRetry(u, from),
             from[t] \in {"queued", "failed"}
      PROVE  FALSE
  <2>1. CASE status' = from
    BY <1>3, <2>1
  <2>2. CASE \E n \in NewRow : \E s, l, a, c : Insert(n, from, s, l, a, c, u)
    <3>1. status'[t] = from[t]
      BY <1>2, <1>3, <2>2 DEF Insert, NewRow
    <3> QED BY <1>3, <3>1
  <2> QED BY <1>3, <2>1, <2>2 DEF CreateRetry
<1>4. ASSUME \/ \E l \in Lane : Enqueue(l)
             \/ \E s \in Slot : RerunEnqueue(s)
      PROVE  FALSE
  BY <1>1, <1>2, <1>4 DEF Enqueue, RerunEnqueue, Insert, NewRow
<1>5. ASSUME \/ CancelSuperseded \/ PromoteDueDeferred
             \/ \E s \in Slot : RerunClear(s)
      PROVE  FALSE
  BY <1>5 DEF CancelSuperseded, PromoteDueDeferred, RerunClear
<1>6. ASSUME NEW u \in Task,
             Requeue(u) \/ StartTask(u) \/ MarkWaitingLocalDirectory(u)
               \/ CompleteTask(u) \/ CancelTask(u)
      PROVE  FALSE
  BY <1>1, <1>6
  DEF Requeue, StartTask, MarkWaitingLocalDirectory, CompleteTask, CancelTask
<1>7. ASSUME NEW u \in Task, NEW why \in Reported, FailTask(u, why)
      PROVE  FALSE
  BY <1>1, <1>7 DEF FailTask
<1>8. ASSUME NEW u \in Task, CommitFailTask(u)
      PROVE  FALSE
  <2>1. /\ [status EXCEPT ![u] = "failed"] \in [Task -> Status]
        /\ [status EXCEPT ![u] = "failed"][t] \in {"queued", "failed"}
    BY <1>1 DEF Status, Terminal
  <2> QED BY <1>3, <1>8, <2>1 DEF CommitFailTask
<1>9. ASSUME NEW u \in Task, MaybeRetryFailedTask(u)
      PROVE  FALSE
  BY <1>1, <1>3, <1>9 DEF MaybeRetryFailedTask
<1>10. ASSUME NEW u \in Task, AbortFailTask(u) \/ HandleFailedTask(u)
       PROVE  FALSE
  BY <1>10 DEF AbortFailTask, HandleFailedTask
<1>11. ASSUME Sweep
       PROVE  FALSE
  BY <1>11 DEF Sweep, FailTasksForOfflineRuntimes, FailStaleTasks, ExpireStaleQueuedTasks,
     FailExpiredRuntimeReconnectRetries, RecoverOrphanedTasks, FailInBulk
<1>12. ASSUME RuntimeHealth \/ ServerCrash \/ UNCHANGED vars
       PROVE  FALSE
  BY <1>12 DEF RuntimeHealth, ServerCrash, vars
<1> QED BY <1>4, <1>5, <1>6, <1>7, <1>8, <1>9, <1>10, <1>11, <1>12 DEF Next, Report

LEMMA RetryAheadStep ==
  ASSUME IInv, [Next]_vars
  PROVE  RetryAhead
<1> SUFFICES ASSUME NEW t \in Task, NEW r \in Task,
                    status[t] = "queued", status'[t] = "dispatched",
                    status[r] = "queued", IsRetry(r), ~IsRetry(t),
                    lane[t] = lane[r], SlotOf[lane[t]] = NoSlot
             PROVE  FALSE
  BY DEF RetryAhead
<1>1. ClaimTask
  BY OnlyClaimDispatches
<1>2. PICK a \in Agent : Claim(a)
  BY <1>1 DEF ClaimTask
<1>3. PICK x \in Claimable(a) :
        /\ \A u \in Claimable(a) \ {x} : Ahead(x, u)
        /\ status' = [status EXCEPT ![x] = "dispatched"]
  BY <1>2 DEF Claim
<1>4. x = t
  BY <1>3 DEF IInv, TypeOK
<1>5. r \in Claimable(a) \ {t}
  BY <1>3, <1>4 DEF Claimable, In, LaneBusy
<1>6. Ahead(t, r)
  BY <1>3, <1>4, <1>5
<1> QED BY <1>6 DEF Ahead

\* A chat's retried turn is dispatched before the turns queued after it, for
\* any number of rows, lanes and agents.
THEOREM RetriesGoFirst == Spec => RetryBeforeNewerTurn
<1>1. IInv /\ [Next]_vars => [RetryAhead]_vars
  BY RetryAheadStep
<1> QED BY <1>1, Invariant, PTL DEF Spec, RetryBeforeNewerTurn, RetryAhead

-----------------------------------------------------------------------------
(* TaskQueue implements LaneExecutor.                                       *)

(* Every step but a claim and a requeue is, for the lanes, a Finish of the  *)
(* rows it makes terminal: no row becomes active, and an active one stays   *)
(* in its lane and stays active or becomes terminal.                        *)

ActiveEnd ==
  \A t \in Task :
    /\ status'[t] \in Active => status[t] \in Active
    /\ status[t] \in Active => status'[t] \in Active \cup Terminal /\ lane'[t] = lane[t]

\* The rows of a lane, and those of an agent.
LEMMA RunningInIs ==
  ASSUME NEW l \in Lane
  PROVE  /\ RunningIn[l] = {t \in Task : status[t] \in Active /\ lane[t] = l}
         /\ RunningIn'[l] = {t \in Task : status'[t] \in Active /\ lane'[t] = l}
  BY DEF RunningIn, In

LEMMA RunningForIs ==
  ASSUME TypeOK, NEW a
  PROVE  Lanes!RunningFor(a) = {t \in In(Active) : AgentOf[lane[t]] = a}
<1>1. \A t \in Task : lane[t] \in Lane
  BY DEF TypeOK
<1> QED BY <1>1 DEF Lanes!RunningFor, RunningIn, In

LEMMA EndIsFinish ==
  ASSUME IInv, ActiveEnd, TerminalKept
  PROVE  \E S \in SUBSET Task : Lanes!Finish(S)
<1> DEFINE S == {t \in Task : status[t] \notin Terminal /\ status'[t] \in Terminal}
<1>1. S \cap In(Terminal) = {}
  BY DEF In
<1>2. In(Terminal)' = In(Terminal) \cup S
  BY DEF In, TerminalKept
<1>3. RunningIn' = [l \in Lane |-> RunningIn[l] \ S]
  <2>1. ASSUME NEW l \in Lane
        PROVE  RunningIn'[l] = RunningIn[l] \ S
    <3>1. ASSUME NEW t \in Task
          PROVE  status'[t] \in Active /\ lane'[t] = l
                   <=> status[t] \in Active /\ lane[t] = l /\ t \notin S
      BY DEF ActiveEnd, Active, Terminal
    <3> QED BY <3>1, RunningInIs
  <2>2. RunningIn' = [l \in Lane |-> RunningIn'[l]]
    BY DEF RunningIn
  <2> HIDE DEF S
  <2> QED BY <2>1, <2>2
<1>4. Lanes!Finish(S)
  BY <1>1, <1>2, <1>3 DEF Lanes!Finish
<1> QED BY <1>4

\* A requeue gives the lane up, a claim takes an idle one.
LEMMA RequeueIsReturn ==
  ASSUME IInv, NEW t \in Task, Requeue(t)
  PROVE  Lanes!Return(t)
<1>1. /\ status \in [Task -> Status] /\ lane' = lane
      /\ status[t] = "dispatched" /\ status' = [status EXCEPT ![t] = "queued"]
  BY DEF Requeue, row, IInv, TypeOK
<1>2. In(Terminal)' = In(Terminal)
  BY <1>1 DEF In, Terminal
<1>3. RunningIn' = [l \in Lane |-> RunningIn[l] \ {t}]
  <2>1. ASSUME NEW l \in Lane
        PROVE  RunningIn'[l] = RunningIn[l] \ {t}
    BY <1>1, RunningInIs DEF Active
  <2>2. RunningIn' = [l \in Lane |-> RunningIn'[l]]
    BY DEF RunningIn
  <2> QED BY <2>1, <2>2
<1> QED BY <1>2, <1>3 DEF Lanes!Return

LEMMA ClaimIsStart ==
  ASSUME IInv, NEW a \in Agent, Claim(a), UNCHANGED row
  PROVE  \E l \in Lane, t \in Task : Lanes!Start(l, t)
<1>1. PICK t \in Claimable(a) : status' = [status EXCEPT ![t] = "dispatched"]
  BY DEF Claim
<1>2. /\ t \in Task /\ status[t] = "queued" /\ AgentOf[lane[t]] = a
      /\ \A u \in Task : status[u] \in Active => lane[u] # lane[t]
  BY DEF Claimable, LaneBusy, In
<1>3. /\ status \in [Task -> Status] /\ lane \in [Task -> Lane] /\ lane' = lane
  BY DEF IInv, TypeOK, row
<1>4. In(Terminal)' = In(Terminal) /\ t \notin In(Terminal)
  BY <1>1, <1>2, <1>3 DEF In, Terminal
<1>5. lane[t] \in Lane /\ RunningIn[lane[t]] = {}
  BY <1>2, <1>3, RunningInIs
<1>6. \A m \in Lane : t \notin RunningIn[m]
  BY <1>2, RunningInIs DEF Active
<1>7. Cardinality(Lanes!RunningFor(AgentOf[lane[t]])) < Cap
  BY <1>2, RunningForIs DEF IInv, Claim, CountRunningTasks
<1>8. Lanes!Cardinality(Lanes!RunningFor(AgentOf[lane[t]])) < Cap
  BY <1>7 DEF Lanes!Cardinality, Cardinality
<1>9. RunningIn' = [RunningIn EXCEPT ![lane[t]] = {t}]
  <2>1. ASSUME NEW l \in Lane
        PROVE  RunningIn'[l] = IF l = lane[t] THEN {t} ELSE RunningIn[l]
    <3>1. CASE l = lane[t]
      BY <1>1, <1>2, <1>3, <3>1, RunningInIs DEF Active
    <3>2. CASE l # lane[t]
      <4>1. ASSUME NEW u \in Task
            PROVE  status'[u] \in Active /\ lane'[u] = l <=> status[u] \in Active /\ lane[u] = l
        BY <1>1, <1>2, <1>3, <3>2 DEF Active
      <4>2. RunningIn'[l] = RunningIn[l]
        BY <4>1, RunningInIs
      <4> QED BY <3>2, <4>2
    <3> QED BY <3>1, <3>2
  <2>2. RunningIn' = [l \in Lane |-> RunningIn'[l]] /\ RunningIn = [l \in Lane |-> RunningIn[l]]
    BY DEF RunningIn
  <2> QED BY <2>1, <2>2
<1>10. Lanes!Start(lane[t], t)
  BY <1>2, <1>4, <1>5, <1>6, <1>8, <1>9 DEF Lanes!Start
<1> QED BY <1>2, <1>5, <1>10

-----------------------------------------------------------------------------
(* The steps that end rows or leave the lanes alone. *)

\* The insert of a retry, where "from" has at most ended rows.
LEMMA CreateRetryEnds ==
  ASSUME IInv, NEW t \in Task, NEW from, from \in [Task -> Status], CreateRetry(t, from),
         \A u \in Task :
           /\ from[u] \in Active => status[u] \in Active
           /\ status[u] \in Active => from[u] \in Active \cup Terminal
  PROVE  ActiveEnd
<1>1. CASE status' = from /\ UNCHANGED row
  BY <1>1 DEF ActiveEnd, row
<1>2. CASE \E n \in NewRow : \E s \in {"queued", "deferred"} : \E l, a, c :
             Insert(n, from, s, l, a, c, t)
  <2>1. PICK n \in NewRow : \E s \in {"queued", "deferred"} : \E l, a, c :
               Insert(n, from, s, l, a, c, t)
    BY <1>2
  <2>2. n \in Task /\ status[n] = "none"
    BY NewRowBlank
  <2>3. /\ status'[n] \in {"queued", "deferred"}
        /\ \A u \in Task \ {n} : status'[u] = from[u] /\ lane'[u] = lane[u]
    BY <2>1, <2>2 DEF Insert, IInv, TypeOK
  <2> QED BY <2>2, <2>3 DEF ActiveEnd, Active
<1> QED BY <1>1, <1>2 DEF CreateRetry

LEMMA InsertEnds ==
  ASSUME IInv,
         \/ \E l \in Lane : Enqueue(l)
         \/ \E s \in Slot : RerunEnqueue(s)
  PROVE  ActiveEnd
<1>1. \/ UNCHANGED <<status, row>>
      \/ \E n \in NewRow, l \in Lane : Insert(n, status, "queued", l, 1, MaxAttempts, 0)
  BY SlotAssumption DEF Enqueue, RerunEnqueue
<1>2. CASE UNCHANGED <<status, row>>
  BY <1>2 DEF ActiveEnd, row
<1>3. CASE \E n \in NewRow, l \in Lane : Insert(n, status, "queued", l, 1, MaxAttempts, 0)
  <2>1. PICK n \in NewRow, l \in Lane : Insert(n, status, "queued", l, 1, MaxAttempts, 0)
    BY <1>3
  <2>2. n \in Task /\ status[n] = "none"
    BY NewRowBlank
  <2>3. /\ status'[n] = "queued"
        /\ \A u \in Task \ {n} : status'[u] = status[u] /\ lane'[u] = lane[u]
    BY <2>1, <2>2 DEF Insert, IInv, TypeOK
  <2> QED BY <2>2, <2>3 DEF ActiveEnd, Active
<1> QED BY <1>1, <1>2, <1>3

\* Whatever a step is, a claim, a requeue or one that ends rows.
LEMMA StepEnds ==
  ASSUME IInv, [Next]_vars,
         ~(ClaimTask /\ ~UNCHANGED status), \A t \in Task : ~Requeue(t)
  PROVE  ActiveEnd
<1>1. status \in [Task -> Status]
  BY DEF IInv, TypeOK
<1>2. CASE \/ \E l \in Lane : Enqueue(l)
           \/ \E s \in Slot : RerunEnqueue(s)
  BY <1>2, InsertEnds
<1>3. CASE CancelSuperseded
  BY <1>3 DEF CancelSuperseded, Superseded, In, ActiveEnd, Active, Terminal, row
<1>4. CASE PromoteDueDeferred
  BY <1>4 DEF PromoteDueDeferred, Promotable, In, ActiveEnd, Active, row
<1>5. CASE \E s \in Slot : RerunClear(s)
  BY <1>5 DEF RerunClear, ActiveEnd, Active, Terminal, row
<1>6. CASE ClaimTask
  BY <1>6 DEF ClaimTask, ActiveEnd, row
<1>7. ASSUME NEW t \in Task,
             StartTask(t) \/ MarkWaitingLocalDirectory(t) \/ CompleteTask(t) \/ CancelTask(t)
      PROVE  ActiveEnd
  BY <1>1, <1>7 DEF StartTask, MarkWaitingLocalDirectory, CompleteTask, CancelTask,
     ActiveEnd, Active, Terminal, row
<1>8. ASSUME NEW t \in Task, NEW why \in Reported, FailTask(t, why)
      PROVE  ActiveEnd
  BY <1>1, <1>8 DEF FailTask, ActiveEnd, Active, Terminal, row
<1>9. ASSUME NEW t \in Task, CommitFailTask(t)
      PROVE  ActiveEnd
  <2>1. /\ [status EXCEPT ![t] = "failed"] \in [Task -> Status]
        /\ \A u \in Task :
             /\ [status EXCEPT ![t] = "failed"][u] \in Active => status[u] \in Active
             /\ status[u] \in Active => [status EXCEPT ![t] = "failed"][u] \in Active \cup Terminal
    BY <1>1 DEF Status, Terminal, Active
  <2> QED BY <1>9, <2>1, CreateRetryEnds DEF CommitFailTask
<1>10. ASSUME NEW t \in Task, MaybeRetryFailedTask(t)
       PROVE  ActiveEnd
  <2>1. CASE CreateRetry(t, status)
    BY <1>1, <2>1, CreateRetryEnds
  <2>2. CASE UNCHANGED <<status, row>>
    BY <2>2 DEF ActiveEnd, row
  <2> QED BY <1>10, <2>1, <2>2 DEF MaybeRetryFailedTask
<1>11. ASSUME NEW t \in Task, AbortFailTask(t) \/ HandleFailedTask(t)
       PROVE  ActiveEnd
  BY <1>11 DEF AbortFailTask, HandleFailedTask, ActiveEnd, row
<1>12. CASE Sweep
  <2>1. \E S \in SUBSET Task : \E why \in Reason : FailInBulk(S, why)
    BY <1>12 DEF Sweep, FailTasksForOfflineRuntimes, FailStaleTasks, ExpireStaleQueuedTasks,
       FailExpiredRuntimeReconnectRetries, RecoverOrphanedTasks, In, Reason, Retryable
  <2> QED BY <2>1 DEF FailInBulk, ActiveEnd, Active, Terminal, row
<1>13. CASE RuntimeHealth \/ ServerCrash \/ UNCHANGED vars
  BY <1>13 DEF RuntimeHealth, ServerCrash, vars, ActiveEnd, row
<1> QED BY <1>2, <1>3, <1>4, <1>5, <1>6, <1>7, <1>8, <1>9, <1>10, <1>11, <1>12, <1>13
        DEF Next, Report

-----------------------------------------------------------------------------
(* The refinement. *)

LEMMA LanesInit ==
  ASSUME Init
  PROVE  Lanes!Init
<1>1. \A t \in Task : status[t] = "none"
  BY DEF Init
<1> QED BY <1>1 DEF Lanes!Init, RunningIn, In, Active, Terminal

LEMMA LanesNext ==
  ASSUME IInv, [Next]_vars
  PROVE  [Lanes!Next]_(Lanes!vars)
<1>1. CASE ClaimTask /\ ~UNCHANGED status
  <2>1. \E a \in Agent : Claim(a) /\ UNCHANGED row
    BY <1>1 DEF ClaimTask
  <2> QED BY <2>1, ClaimIsStart DEF Lanes!Next
<1>2. CASE \E t \in Task : Requeue(t)
  BY <1>2, RequeueIsReturn DEF Lanes!Next
<1>3. CASE ~(ClaimTask /\ ~UNCHANGED status) /\ \A t \in Task : ~Requeue(t)
  <2>1. ActiveEnd
    BY <1>3, StepEnds
  <2>2. TerminalKept
    BY TerminalStep
  <2> QED BY <2>1, <2>2, EndIsFinish DEF Lanes!Next
<1> QED BY <1>1, <1>2, <1>3

\* The queue implements serial executors: every behaviour of its statements is,
\* lane by lane, one of LaneExecutor.
THEOREM QueueImplementsLanes == Spec => LanesAreSerial
<1>1. Init => Lanes!Init
  BY LanesInit
<1>2. IInv /\ [Next]_vars => [Lanes!Next]_(Lanes!vars)
  BY LanesNext
<1> QED BY <1>1, <1>2, Invariant, PTL DEF Spec, LanesAreSerial, Lanes!Spec
=============================================================================
