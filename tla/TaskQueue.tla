----------------------------- MODULE TaskQueue -----------------------------
(***************************************************************************)
(* The server's task queue: the rows of agent_task_queue that one runtime  *)
(* executes, every statement of pkg/db/queries/agent.sql that moves a row  *)
(* from one status to another, and the requests of service/task.go that    *)
(* issue them.  A statement or a transaction is one step; what a request   *)
(* reads before its transaction, or does after it, is a step of its own.   *)
(*                                                                         *)
(* The two partial unique indexes are NOT assumed where the code does not  *)
(* handle their violation: LaneExclusive and PendingSlotUnique say that    *)
(* the guards of the statements suffice, so that no claim, requeue or      *)
(* promotion is ever answered with a duplicate key.                        *)
(***************************************************************************)
EXTENDS Naturals, FiniteSets

CONSTANTS
  Lane,        \* execution lanes: main and side threads of an issue, chats
  Slot,        \* (issue, agent) pairs
  NoSlot,      \* the slot of a chat lane, whose rows carry no issue
  SlotOf,      \* SlotOf[l]: the slot of lane l's rows
  MainLane,    \* MainLane[s]: the lane a rerun of slot s is queued in
  Agent,
  AgentOf,     \* AgentOf[l]: the agent that runs lane l
  Cap,         \* agent.max_concurrent_tasks
  MaxAttempts, \* the max_attempts of a fresh row
  Reported,    \* the failure reasons a daemon reports
  MaxTask      \* bound on the rows ever inserted

Task == 1 .. MaxTask   \* row ids, in the order of created_at

ASSUME SlotAssumption ==
  /\ NoSlot \notin Slot
  /\ SlotOf \in [Lane -> Slot \cup {NoSlot}]
  /\ MainLane \in [Slot -> Lane]
  /\ \A s \in Slot : SlotOf[MainLane[s]] = s
ASSUME LaneAssumption == Lane # {}
ASSUME AgentAssumption == AgentOf \in [Lane -> Agent] /\ Cap \in Nat
ASSUME SameAgentAssumption ==
  \A l, m \in Lane : SlotOf[l] = SlotOf[m] /\ SlotOf[l] # NoSlot => AgentOf[l] = AgentOf[m]
ASSUME BoundAssumption == MaxAttempts \in Nat \ {0} /\ MaxTask \in Nat

Active   == {"dispatched", "running", "waiting"}  \* hold the lane and capacity
Pending  == {"queued", "dispatched"}              \* hold the slot
Terminal == {"completed", "failed", "cancelled"}
Status   == {"none", "queued", "deferred"} \cup Active \cup Terminal

\* failure_reason, up to how retries treat it: runtime_offline; timeout and
\* runtime_recovery ("infra"); provider_network; everything not retryable.
Retryable == {"offline", "infra", "network"}
Reason    == Retryable \cup {"fatal"}

ASSUME ReportedAssumption == Reported \subseteq Reason

VARIABLES
  status, lane, attempt,
  ceiling,   \* max_attempts
  parent,    \* retry_of_task_id, 0 when the row is not a retry
  reason,    \* failure_reason
  settling,  \* how far the work that follows a failure has come
  rerunning, \* where each slot's RerunIssue request stands
  poll,      \* where the claim request of the runtime's daemon stands
  health     \* the runtime: online and fresh, offline (or not heard of), or
             \* lost (offline for longer than the reconnect grace)

row  == <<lane, attempt, ceiling, parent>>
vars == <<status, row, reason, settling, rerunning, poll, health>>

TypeOK ==
  /\ status \in [Task -> Status]
  /\ lane \in [Task -> Lane]
  /\ attempt \in [Task -> Nat] /\ ceiling \in [Task -> Nat]
  /\ \A t \in Task : attempt[t] <= ceiling[t]
  /\ parent \in [Task -> Task \cup {0}]
  /\ reason \in [Task -> Reason \cup {"none"}]
  /\ settling \in [Task -> {"none", "tx", "handle", "insert"}]
  /\ rerunning \in [Slot -> {"idle", "enqueue", "reclear", "reenqueue"}]
  /\ poll \in {"idle", "promote", "claim"}
  /\ health \in {"online", "offline", "lost"}

Init ==
  /\ status = [t \in Task |-> "none"]
  /\ lane = [t \in Task |-> CHOOSE l \in Lane : TRUE]
  /\ attempt = [t \in Task |-> 0] /\ ceiling = [t \in Task |-> 0]
  /\ parent = [t \in Task |-> 0]
  /\ reason = [t \in Task |-> "none"]
  /\ settling = [t \in Task |-> "none"]
  /\ rerunning = [s \in Slot |-> "idle"]
  /\ poll = "idle" /\ health = "online"

-----------------------------------------------------------------------------
(* Rows, lanes and slots. *)

In(S)      == {t \in Task : status[t] \in S}
InSlot(s)  == {t \in In(Status \ {"none"}) : SlotOf[lane[t]] = s}
Locked     == {t \in Task : settling[t] = "tx"}   \* rows of an open terminal transaction
IsRetry(t) == parent[t] # 0

\* The row that is inserted next, if the bound leaves room for one.
NewRow == {t \in Task : status[t] = "none" /\ \A u \in Task : u < t => status[u] # "none"}

\* The rows that hold slot s; a row without an issue holds none.
Holding(s) == IF s = NoSlot THEN {} ELSE {u \in InSlot(s) : status[u] \in Pending}

\* Some row other than those of "but" holds slot s.
Taken(s, but) == Holding(s) \ but # {}

\* An insert into slot s waits for open transactions on rows that hold it.
MustWait(s, but) == (Holding(s) \ but) \cap Locked # {}

Insert(n, from, s, l, a, c, p) ==
  /\ status'  = [from EXCEPT ![n] = s]
  /\ lane'    = [lane EXCEPT ![n] = l]
  /\ attempt' = [attempt EXCEPT ![n] = a]
  /\ ceiling' = [ceiling EXCEPT ![n] = c]
  /\ parent'  = [parent EXCEPT ![n] = p]

\* A user's message, assignment or automation queues a fresh row, unless the
\* pending slot is taken.
Enqueue(l) ==
  /\ ~Taken(SlotOf[l], {})
  /\ \E n \in NewRow : Insert(n, status, "queued", l, 1, MaxAttempts, 0)
  /\ UNCHANGED <<reason, settling, rerunning, poll, health>>

-----------------------------------------------------------------------------
(* The claim request: cancel superseded retries, promote, claim. *)

\* CancelSupersededDeferredRetriesForRuntimes: any active or queued row of the
\* same issue and agent supersedes a deferred retry.
Superseded ==
  {r \in In({"deferred"}) :
     /\ IsRetry(r) /\ SlotOf[lane[r]] # NoSlot
     /\ \E u \in InSlot(SlotOf[lane[r]]) \ {r} : status[u] \in {"queued"} \cup Active}

CancelSuperseded ==
  /\ poll = "idle"
  /\ \/ status' = [t \in Task |-> IF t \in Superseded THEN "cancelled" ELSE status[t]]
     \/ UNCHANGED status   \* an error is logged, the claim goes on
  /\ poll' = "promote"
  /\ UNCHANGED <<row, reason, settling, rerunning, health>>

\* Mutation: every due row is promoted, whoever holds its slot.
PromotableUnfenced(due) == due

\* PromoteDueDeferredTasksForRuntime: of the rows whose fire_at has come, those
\* whose slot is free, and of these the oldest of each slot.
Promotable(due) ==
  LET open == {t \in due : ~Taken(SlotOf[lane[t]], {t})}
  IN  {t \in open : \A u \in open :
         SlotOf[lane[u]] = SlotOf[lane[t]] /\ SlotOf[lane[t]] # NoSlot => t <= u}

PromoteDueDeferred ==
  /\ poll = "promote"
  /\ \E due \in SUBSET In({"deferred"}) :
       /\ health # "online" => due = {}
       /\ status' = [t \in Task |-> IF t \in Promotable(due) THEN "queued" ELSE status[t]]
  /\ poll' = "claim"
  /\ UNCHANGED <<row, reason, settling, rerunning, health>>

\* Mutation: a retry keeps the priority of the row that failed.
AheadByAge(t, u) == t < u

\* ORDER BY priority DESC, created_at: a chat retry is raised above fresh rows.
Ahead(t, u) ==
  LET raised(v) == IsRetry(v) /\ SlotOf[lane[v]] = NoSlot
  IN  \/ raised(t) /\ ~raised(u)
      \/ raised(t) = raised(u) /\ t < u

\* Mutation: a row that waits for a local directory leaves its lane free.
LaneBusyUnlessWaiting(l) == \E u \in In({"dispatched", "running"}) : lane[u] = l

LaneBusy(l) == \E u \in In(Active) : lane[u] = l

\* Mutation: the rows that wait for a local directory are not counted.
CountWithoutWaiters(a) ==
  Cardinality({t \in In({"dispatched", "running"}) : AgentOf[lane[t]] = a})

CountRunningTasks(a) == Cardinality({t \in In(Active) : AgentOf[lane[t]] = a})

Claimable(a) ==
  {t \in In({"queued"}) : AgentOf[lane[t]] = a /\ ~LaneBusy(lane[t])}

\* claimTask: under the agent's row lock, the capacity check and ClaimAgentTask.
Claim(a) ==
  /\ health = "online"
  /\ CountRunningTasks(a) < Cap
  /\ \E t \in Claimable(a) :
       /\ \A u \in Claimable(a) \ {t} : Ahead(t, u)
       /\ status' = [status EXCEPT ![t] = "dispatched"]

\* One claim, or none: no agent has room, or the request gives up on an error.
ClaimTask ==
  /\ poll = "claim"
  /\ (\E a \in Agent : Claim(a)) \/ UNCHANGED status
  /\ poll' = "idle"
  /\ UNCHANGED <<row, reason, settling, rerunning, health>>

\* RequeueAgentTaskAfterClaimFailure: the claim was never delivered.
Requeue(t) ==
  /\ status[t] = "dispatched" /\ t \notin Locked
  /\ status' = [status EXCEPT ![t] = "queued"]
  /\ UNCHANGED <<row, reason, settling, rerunning, poll, health>>

-----------------------------------------------------------------------------
(* What the daemon reports. *)

\* Mutation: the UPDATE has lost its status condition.
StartAnyTask(t) ==
  /\ status[t] # "none" /\ t \notin Locked
  /\ status' = [status EXCEPT ![t] = "running"]
  /\ UNCHANGED <<row, reason, settling, rerunning, poll, health>>

StartTask(t) ==
  /\ status[t] \in {"dispatched", "waiting"} /\ t \notin Locked
  /\ status' = [status EXCEPT ![t] = "running"]
  /\ UNCHANGED <<row, reason, settling, rerunning, poll, health>>

MarkWaitingLocalDirectory(t) ==
  /\ status[t] = "dispatched" /\ t \notin Locked
  /\ status' = [status EXCEPT ![t] = "waiting"]
  /\ UNCHANGED <<row, reason, settling, rerunning, poll, health>>

CompleteTask(t) ==
  /\ status[t] = "running" /\ t \notin Locked
  /\ status' = [status EXCEPT ![t] = "completed"]
  /\ UNCHANGED <<row, reason, settling, rerunning, poll, health>>

\* retryAttemptCeiling and retryEligible.
RetryCeiling(why, c) == IF why = "network" /\ c \in 2 .. 3 THEN 3 ELSE c

\* Mutation: a failure is retried for as long as its reason allows a retry.
EligibleAtAnyAttempt(t, why) == why \in Retryable

Eligible(t, why) == why \in Retryable /\ attempt[t] < RetryCeiling(why, ceiling[t])

\* retryDelayForAttempt: which retries wait in deferred.
Deferred(why, failed) == why = "offline" \/ (why = "network" /\ failed >= 2)

\* FailTask.  The row is locked while the transaction is open.  It commits at
\* once when no retry is due or hasRunnableSuccessor sees the slot taken;
\* otherwise the insert of the retry is still to come.
FailTask(t, why) ==
  /\ status[t] \in Active /\ t \notin Locked
  /\ reason' = [reason EXCEPT ![t] = why]
  /\ IF Eligible(t, why) /\ ~Taken(SlotOf[lane[t]], {t})
     THEN settling' = [settling EXCEPT ![t] = "tx"] /\ UNCHANGED status
     ELSE status' = [status EXCEPT ![t] = "failed"] /\ UNCHANGED settling
  /\ UNCHANGED <<row, rerunning, poll, health>>

\* Mutation: the retry takes over the lane of the row that failed.
CreateRetryInPlace(t, from) ==
  \E n \in NewRow :
    Insert(n, from, "dispatched", lane[t], attempt[t] + 1, RetryCeiling(reason[t], ceiling[t]), t)

\* CreateRetryTask: nothing is written when the slot was taken meanwhile.
CreateRetry(t, from) ==
  LET why == reason[t]
      s   == SlotOf[lane[t]]
      st  == IF Deferred(why, attempt[t]) THEN "deferred" ELSE "queued"
  IN  IF st = "queued" /\ Taken(s, {t})
      THEN ~MustWait(s, {t}) /\ status' = from /\ UNCHANGED row
      ELSE \E n \in NewRow :
             Insert(n, from, st, lane[t], attempt[t] + 1, RetryCeiling(why, ceiling[t]), t)

\* Mutation: the failed row is handed to HandleFailedTasks as well.
CommitAndHandleFailTask(t) ==
  /\ settling[t] = "tx"
  /\ settling' = [settling EXCEPT ![t] = "handle"]
  /\ CreateRetry(t, [status EXCEPT ![t] = "failed"])
  /\ UNCHANGED <<reason, rerunning, poll, health>>

CommitFailTask(t) ==
  /\ settling[t] = "tx"
  /\ settling' = [settling EXCEPT ![t] = "none"]
  /\ CreateRetry(t, [status EXCEPT ![t] = "failed"])
  /\ UNCHANGED <<reason, rerunning, poll, health>>

\* Another statement of the transaction fails: all of it rolls back.
AbortFailTask(t) ==
  /\ settling[t] = "tx"
  /\ settling' = [settling EXCEPT ![t] = "none"]
  /\ reason' = [reason EXCEPT ![t] = "none"]
  /\ UNCHANGED <<status, row, rerunning, poll, health>>

-----------------------------------------------------------------------------
(* The sweepers and orphan recovery: rows fail in bulk, in one transaction, *)
(* and HandleFailedTasks follows row by row.                                *)

FailInBulk(S, why) ==
  /\ S # {} /\ S \cap Locked = {}
  /\ status'   = [t \in Task |-> IF t \in S THEN "failed" ELSE status[t]]
  /\ reason'   = [t \in Task |-> IF t \in S THEN why ELSE reason[t]]
  /\ settling' = [t \in Task |-> IF t \in S THEN "handle" ELSE settling[t]]
  /\ UNCHANGED <<row, rerunning, poll, health>>

FailTasksForOfflineRuntimes ==
  /\ health = "lost"
  /\ \E S \in SUBSET In(Active) : FailInBulk(S, "offline")

\* The dispatched branch needs a lapsed prepare lease and a runtime that is
\* healthy or past the grace; the running branch a runtime past the grace.
FailStaleTasks ==
  /\ health \in {"online", "lost"}
  /\ \E S \in SUBSET In({"dispatched"} \cup IF health = "lost" THEN {"running"} ELSE {}) :
       FailInBulk(S, "infra")

\* ExpireStaleQueuedTasks spares the retries that wait for their runtime.
WaitsForRuntime(t) == IsRetry(t) /\ reason[parent[t]] = "offline"

ExpireStaleQueuedTasks ==
  /\ health = "lost"
  /\ \E S \in SUBSET {t \in In({"queued"}) : ~WaitsForRuntime(t)} : FailInBulk(S, "fatal")

FailExpiredRuntimeReconnectRetries ==
  /\ health # "online"
  /\ \E S \in SUBSET {t \in In({"deferred"}) : WaitsForRuntime(t)} : FailInBulk(S, "fatal")

\* A restarted daemon gives up every row it holds no persisted result of.
RecoverOrphanedTasks ==
  \E S \in SUBSET In(Active) : FailInBulk(S, "infra")

\* MaybeRetryFailedTask up to hasRunnableSuccessor, which sees the slot free
\* when its query fails ...
HandleFailedTask(t) ==
  /\ settling[t] = "handle"
  /\ \E taken \in {Taken(SlotOf[lane[t]], {t}), FALSE} :
       settling' = [settling EXCEPT ![t] =
         IF Eligible(t, reason[t]) /\ ~taken THEN "insert" ELSE "none"]
  /\ UNCHANGED <<status, row, reason, rerunning, poll, health>>

\* ... and the transaction that inserts the retry; an error is only logged.
MaybeRetryFailedTask(t) ==
  /\ settling[t] = "insert"
  /\ settling' = [settling EXCEPT ![t] = "none"]
  /\ CreateRetry(t, status) \/ UNCHANGED <<status, row>>
  /\ UNCHANGED <<reason, rerunning, poll, health>>

-----------------------------------------------------------------------------
(* Users. *)

\* CancelAgentTask, from every status that is not terminal.
CancelTask(t) ==
  /\ status[t] \in {"queued", "deferred"} \cup Active /\ t \notin Locked
  /\ status' = [status EXCEPT ![t] = "cancelled"]
  /\ UNCHANGED <<row, reason, settling, rerunning, poll, health>>

\* clearPendingSlot, before the rerun is queued and again after a collision.
RerunClear(s) ==
  /\ rerunning[s] \in {"idle", "reclear"}
  /\ ~MustWait(s, {})
  /\ LET cleared == {t \in InSlot(s) : status[t] \in {"queued", "dispatched", "deferred"}}
     IN  \/ status' = [t \in Task |-> IF t \in cleared THEN "cancelled" ELSE status[t]]
         \/ UNCHANGED status   \* an error is logged, the rerun goes on
  /\ rerunning' = [rerunning EXCEPT ![s] = IF @ = "idle" THEN "enqueue" ELSE "reenqueue"]
  /\ UNCHANGED <<row, reason, settling, poll, health>>

\* enqueueRerunTask: a collision is answered with one more clear, then given up.
RerunEnqueue(s) ==
  /\ rerunning[s] \in {"enqueue", "reenqueue"}
  /\ ~MustWait(s, {})
  /\ IF Taken(s, {})
     THEN /\ rerunning' = [rerunning EXCEPT ![s] = IF @ = "enqueue" THEN "reclear" ELSE "idle"]
          /\ UNCHANGED <<status, row>>
     ELSE /\ rerunning' = [rerunning EXCEPT ![s] = "idle"]
          /\ \E n \in NewRow : Insert(n, status, "queued", MainLane[s], 1, MaxAttempts, 0)
  /\ UNCHANGED <<reason, settling, poll, health>>

-----------------------------------------------------------------------------
(* The runtime's heartbeat, and the server's crash. *)

Heartbeat    == health # "online"  /\ health' = "online"
FallSilent   == health = "online"  /\ health' = "offline"
GraceElapses == health = "offline" /\ health' = "lost"

RuntimeHealth ==
  /\ Heartbeat \/ FallSilent \/ GraceElapses
  /\ UNCHANGED <<status, row, reason, settling, rerunning, poll>>

\* Open transactions roll back, requests and post-failure work are forgotten.
ServerCrash ==
  /\ reason' = [t \in Task |-> IF t \in Locked THEN "none" ELSE reason[t]]
  /\ settling' = [t \in Task |-> "none"]
  /\ rerunning' = [s \in Slot |-> "idle"]
  /\ poll' = "idle"
  /\ UNCHANGED <<status, row, health>>

Report(t) ==
  \/ StartTask(t) \/ MarkWaitingLocalDirectory(t) \/ CompleteTask(t)
  \/ \E why \in Reported : FailTask(t, why)
  \/ CommitFailTask(t) \/ AbortFailTask(t)

Sweep ==
  \/ FailTasksForOfflineRuntimes \/ FailStaleTasks \/ ExpireStaleQueuedTasks
  \/ FailExpiredRuntimeReconnectRetries \/ RecoverOrphanedTasks

Next ==
  \/ \E l \in Lane : Enqueue(l)
  \/ CancelSuperseded \/ PromoteDueDeferred \/ ClaimTask
  \/ \E t \in Task : Requeue(t) \/ Report(t) \/ CancelTask(t)
                     \/ HandleFailedTask(t) \/ MaybeRetryFailedTask(t)
  \/ Sweep
  \/ \E s \in Slot : RerunClear(s) \/ RerunEnqueue(s)
  \/ RuntimeHealth \/ ServerCrash

Spec == Init /\ [][Next]_vars

-----------------------------------------------------------------------------
(* Properties. *)

\* At most one row of a lane is dispatched, running or waiting for a local
\* directory: ClaimAgentTask's NOT EXISTS suffices, no claim or start ever
\* meets idx_agent_task_queue_execution_lane_active_unique.
LaneExclusive ==
  \A t, u \in In(Active) : lane[t] = lane[u] => t = u

\* At most one queued or dispatched row per (issue, agent): promotion, requeue
\* and retries never meet idx_one_pending_task_per_issue_agent_v2.
PendingSlotUnique ==
  \A s \in Slot : \A t, u \in Holding(s) : t = u

\* No interleaving of claims, waits and starts runs more of an agent's rows
\* than max_concurrent_tasks (the reason CountRunningTasks counts waiters).
AgentCapacity ==
  \A a \in Agent : Cardinality({t \in In(Active) : AgentOf[lane[t]] = a}) <= Cap

\* A failure is retried at most once, whichever of FailTask, a sweeper and
\* orphan recovery records it, only after the row has failed, with the next
\* attempt number.
OneRetryPerFailure ==
  \A n \in Task : IsRetry(n) =>
    /\ status[parent[n]] = "failed" /\ reason[parent[n]] \in Retryable
    /\ attempt[n] = attempt[parent[n]] + 1
    /\ \A m \in Task : parent[m] = parent[n] => m = n

\* Once terminal, a row never changes status again and never loses its reason:
\* late starts, reports, sweeps, cancels and requeues all miss.
TerminalFinal ==
  [][\A t \in In(Terminal) : status'[t] = status[t] /\ reason'[t] = reason[t]]_vars

\* A chat turn that is retried goes ahead of the turns queued after it: no
\* fresh row of a chat lane is dispatched while a retry of it is queued
\* (GREATEST(priority, 3) in CreateRetryTask).
RetryBeforeNewerTurn ==
  [][\A t, r \in Task :
       /\ status[t] = "queued" /\ status'[t] = "dispatched"
       /\ status[r] = "queued" /\ IsRetry(r)
       /\ lane[t] = lane[r] /\ SlotOf[lane[t]] = NoSlot
       => IsRetry(t)]_vars

\* agent.sql, 2577: CancelSupersededDeferredRetries "cancels deferred
\* auto-retry rows that a NEWER active task has already superseded": what it
\* cancels a retry for is at least newer than the failed run the retry repeats.
OnlyNewerSupersedes ==
  [][\A r \in In({"deferred"}) :
       poll = "idle" /\ poll' = "promote" /\ status'[r] = "cancelled"
       => \E u \in InSlot(SlotOf[lane[r]]) :
            u > parent[r] /\ u # r /\ status[u] \in {"queued"} \cup Active]_vars

-----------------------------------------------------------------------------
(* The queue implements serial executors. *)

RunningIn == [l \in Lane |-> {t \in In(Active) : lane[t] = l}]

Lanes == INSTANCE LaneExecutor WITH running <- RunningIn, over <- In(Terminal)

\* Whatever the requests, sweepers, users and crashes do, the rows move through
\* their lanes as through serial executors: one claim starts one row in an idle
\* lane, no step hands a lane from one row to the next, and none reopens a row.
LanesAreSerial == Lanes!Spec
=============================================================================
