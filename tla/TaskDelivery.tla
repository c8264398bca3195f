---------------------------- MODULE TaskDelivery ----------------------------
(***************************************************************************)
(* How a claimed task travels to one daemon and its result travels back:   *)
(* the claim generations (fences) of the row, the claim response, the      *)
(* execution, the durable outbox of terminal reports, the sender and the   *)
(* receipts, orphan recovery, and the barrier that pauses claims.          *)
(* Responses and acknowledgements get lost, the daemon crashes between any *)
(* two steps, users cancel and the server's sweepers fail rows meanwhile.  *)
(***************************************************************************)
EXTENDS Naturals, FiniteSets

CONSTANTS
  Task,      \* rows queued for the runtime of this daemon
  Slots,     \* max_concurrent_tasks of the daemon
  MaxFence,  \* bound on the claim generations of one row
  MaxFault   \* bound on crashes, lost messages, partitions and I/O errors

ASSUME SlotsAssumption == Slots \in Nat \ {0}
ASSUME BoundAssumption == MaxFence \in Nat \ {0} /\ MaxFault \in Nat

Fence    == 1 .. MaxFence
Claim    == [task : Task, fence : Fence]
Phase    == {"received", "prepare", "run", "report"}
Exec     == [task : Task, fence : Fence, phase : Phase]
Report   == [task : Task, fence : Fence, kind : {"complete", "fail"}]
Active   == {"dispatched", "running"}
Terminal == {"completed", "failed", "cancelled"}
NoReport == [task |-> "none"]

VARIABLES
  \* the server
  status,    \* of each row
  issued,    \* generations each row has been given so far
  fence,     \* TaskClaimFence: the row's current generation, 0 while queued
  lease,     \* rows whose prepare lease has not lapsed
  receipts,  \* reports accepted, with the rows' final states
  \* the network
  handing,   \* claim responses under way to the daemon
  \* the daemon
  ready,     \* FALSE while the process is down
  execs,     \* executions in handleTask
  outbox,    \* reports on disk and not acknowledged
  settling,  \* the rejected complete report the sender is about to settle
  barrier,   \* why tryEnterClaim refuses
  faults     \* faults so far

rows   == <<status, issued, fence, lease>>
daemon == <<ready, execs, outbox, settling, barrier>>
vars   == <<rows, receipts, handing, daemon, faults>>

TypeOK ==
  /\ status \in [Task -> {"queued"} \cup Active \cup Terminal]
  /\ issued \in [Task -> 0 .. MaxFence]
  /\ fence \in [Task -> 0 .. MaxFence]
  /\ \A t \in Task : fence[t] <= issued[t] /\ (status[t] \in Active => fence[t] # 0)
  /\ lease \subseteq Task
  /\ receipts \subseteq [report : Report, status : {"completed", "failed"}]
  /\ handing \subseteq Claim
  /\ ready \in BOOLEAN
  /\ execs \subseteq Exec
  /\ outbox \subseteq Report
  /\ settling \in outbox \cup {NoReport}
  /\ barrier \subseteq {"persistence", "recovery", "delivery"}
  /\ faults \in 0 .. MaxFault

Init ==
  /\ status = [t \in Task |-> "queued"]
  /\ issued = [t \in Task |-> 0] /\ fence = [t \in Task |-> 0]
  /\ lease = {} /\ receipts = {} /\ handing = {}
  /\ ready = TRUE /\ execs = {} /\ outbox = {} /\ settling = NoReport
  /\ barrier = {} /\ faults = 0

Fault == faults < MaxFault /\ faults' = faults + 1

-----------------------------------------------------------------------------
(* Claiming. *)

\* tryEnterClaim, and a free slot acquired before the claim is sent.
MayClaim ==
  ready /\ barrier = {} /\ Cardinality(handing) + Cardinality(execs) < Slots

\* A claim or a reclaim stamps dispatched_at, which is the new generation.
Dispatch(t) ==
  /\ MayClaim /\ issued[t] < MaxFence
  /\ issued' = [issued EXCEPT ![t] = @ + 1]
  /\ fence' = [fence EXCEPT ![t] = issued[t] + 1]
  /\ status' = [status EXCEPT ![t] = "dispatched"]
  /\ lease' = lease \cup {t}
  /\ handing' = handing \cup {[task |-> t, fence |-> issued[t] + 1]}
  /\ UNCHANGED <<receipts, daemon, faults>>

ClaimTask(t) == status[t] = "queued" /\ Dispatch(t)

\* ReclaimStaleDispatchedTask: a dispatched row nobody keeps alive any more.
ReclaimStaleDispatched(t) == status[t] = "dispatched" /\ t \notin lease /\ Dispatch(t)

\* The response arrives and handleTask starts.
DeliverClaim(c) ==
  /\ c \in handing
  /\ handing' = handing \ {c}
  /\ execs' = execs \cup {[task |-> c.task, fence |-> c.fence, phase |-> "received"]}
  /\ UNCHANGED <<rows, receipts, ready, outbox, settling, barrier, faults>>

LoseClaim(c) ==
  /\ c \in handing /\ Fault
  /\ handing' = handing \ {c}
  /\ UNCHANGED <<rows, receipts, daemon>>

\* Mutation: the claim is taken back without comparing status and dispatched_at.
RequeueAnyClaim(c) ==
  /\ c \in handing /\ Fault
  /\ handing' = handing \ {c}
  /\ fence' = [fence EXCEPT ![c.task] = 0]
  /\ UNCHANGED <<status, issued, lease, receipts, daemon>>

\* The server could not finalize the claim, no byte was sent: the row is given
\* back if it still is of this generation.
RequeueAfterClaimFailure(c) ==
  /\ c \in handing /\ Fault
  /\ handing' = handing \ {c}
  /\ IF status[c.task] = "dispatched" /\ fence[c.task] = c.fence
     THEN /\ status' = [status EXCEPT ![c.task] = "queued"]
          /\ fence' = [fence EXCEPT ![c.task] = 0]
          /\ lease' = lease \ {c.task}
     ELSE UNCHANGED <<status, fence, lease>>
  /\ UNCHANGED <<issued, receipts, daemon>>

\* The prepare lease runs out ...
Preparing(t) == {e \in execs : e.task = t /\ e.phase = "prepare"}

LeaseLapses(t) ==
  /\ t \in lease /\ Preparing(t) = {}
  /\ lease' = lease \ {t}
  /\ UNCHANGED <<status, issued, fence, receipts, handing, daemon, faults>>

\* ... although an execution prepares, which is cut off from the server.
LeaseCutOff(t) ==
  /\ t \in lease /\ Preparing(t) # {} /\ Fault
  /\ lease' = lease \ {t}
  /\ UNCHANGED <<status, issued, fence, receipts, handing, daemon>>

\* ExtendAgentTaskPrepareLease names the row, not its generation.
ExtendLease(e) ==
  /\ e \in execs /\ e.phase = "prepare" /\ status[e.task] = "dispatched"
  /\ lease' = lease \cup {e.task}
  /\ UNCHANGED <<status, issued, fence, receipts, handing, daemon, faults>>

-----------------------------------------------------------------------------
(* Executing. *)

ToPhase(e, p) == (execs \ {e}) \cup {[e EXCEPT !.phase = p]}

\* Store.Save: the result of e is on disk.
Save(e, kind) ==
  /\ execs' = execs \ {e}
  /\ outbox' = outbox \cup {[task |-> e.task, fence |-> e.fence, kind |-> kind]}
  /\ UNCHANGED <<ready, settling, barrier>>

\* reportTerminalTask: when the file cannot be written, claims are paused.
ReportTerminalTask(e, kind) ==
  \/ Save(e, kind) /\ UNCHANGED faults
  \/ /\ Fault
     /\ execs' = execs \ {e}
     /\ barrier' = barrier \cup {"persistence"}
     /\ UNCHANGED <<ready, outbox, settling>>

\* ClaimEnvRoot: a live execution of the same task refuses the root.
Busy(e) == \E x \in execs \ {e} : x.task = e.task /\ x.phase # "received"

ClaimEnvRoot(e) ==
  /\ e \in execs /\ e.phase = "received"
  /\ IF Busy(e)
     THEN ReportTerminalTask(e, "fail")
     ELSE /\ execs' = ToPhase(e, "prepare")
          /\ UNCHANGED <<ready, outbox, settling, barrier, faults>>
  /\ UNCHANGED <<rows, receipts, handing>>

\* StartTask names the row, not its generation.  A 400 or a lost reply makes
\* the execution report a failure.
StartTask(e) ==
  /\ e \in execs /\ e.phase = "prepare"
  /\ \/ /\ status[e.task] = "dispatched"
        /\ status' = [status EXCEPT ![e.task] = "running"]
        /\ \/ /\ execs' = ToPhase(e, "run")
              /\ UNCHANGED <<ready, outbox, settling, barrier, faults>>
           \/ Fault /\ Save(e, "fail")
     \/ /\ status[e.task] # "dispatched"
        /\ ReportTerminalTask(e, "fail") /\ UNCHANGED status
  /\ UNCHANGED <<issued, fence, lease, receipts, handing>>

\* Preparation or the agent fails.
ExecutionFails(e) ==
  /\ e \in execs /\ e.phase \in {"prepare", "run"}
  /\ ReportTerminalTask(e, "fail")
  /\ UNCHANGED <<rows, receipts, handing>>

\* The agent has finished and the final status check found the row open ...
AgentFinishes(e) ==
  /\ e \in execs /\ e.phase = "run" /\ status[e.task] \notin Terminal
  /\ execs' = ToPhase(e, "report")
  /\ UNCHANGED <<rows, receipts, handing, ready, outbox, settling, barrier, faults>>

\* ... and reportTaskResult saves it.
ReportTaskResult(e) ==
  /\ e \in execs /\ e.phase = "report"
  /\ ReportTerminalTask(e, "complete")
  /\ UNCHANGED <<rows, receipts, handing>>

\* watchTaskCancellation, or the final check: the row is closed, the result
\* is discarded.
NoticeTerminal(e) ==
  /\ e \in execs /\ e.phase \in {"prepare", "run"} /\ status[e.task] \in Terminal
  /\ execs' = execs \ {e}
  /\ UNCHANGED <<rows, receipts, handing, ready, outbox, settling, barrier, faults>>

-----------------------------------------------------------------------------
(* Reporting: Sender.Flush and the server's terminal transaction. *)

\* Mutation: the generation is not compared.
NeverStale(r) == FALSE

\* checkTerminalReport and the status condition of the UPDATE that follows it.
Stale(r)    == fence[r.task] # r.fence
Receipts(r) == {x \in receipts : x.report.task = r.task /\ x.report.fence = r.fence}
Replay(r)   == ~Stale(r) /\ \E x \in Receipts(r) : x.report = r
Open(r)     == status[r.task] \in (IF r.kind = "complete" THEN {"running"} ELSE Active)
Accepted(r) == ~Stale(r) /\ Receipts(r) = {} /\ Open(r)
Rejected(r) == ~Replay(r) /\ ~Accepted(r)

\* The row, and the receipt in the same transaction.
Outcome(r) == IF r.kind = "complete" THEN "completed" ELSE "failed"

Commit(r) ==
  IF Accepted(r)
  THEN /\ status' = [status EXCEPT ![r.task] = Outcome(r)]
       /\ receipts' = receipts \cup {[report |-> r, status |-> Outcome(r)]}
  ELSE UNCHANGED <<status, receipts>>

\* Store.Confirm once the acknowledgement arrives; without it the report stays.
Send(r) ==
  /\ ready /\ r \in outbox /\ settling = NoReport /\ ~Rejected(r)
  /\ Commit(r)
  /\ \/ outbox' = outbox \ {r} /\ UNCHANGED faults
     \/ Fault /\ UNCHANGED outbox
  /\ UNCHANGED <<issued, fence, lease, handing, ready, execs, settling, barrier>>

\* Mutation: only a stale claim is taken for a permanent rejection.
RejectionOfStaleClaim(r) ==
  /\ ready /\ r \in outbox /\ settling = NoReport /\ Stale(r)
  /\ IF r.kind = "fail"
     THEN barrier' = barrier \cup {"delivery"} /\ UNCHANGED settling
     ELSE settling' = r /\ UNCHANGED barrier
  /\ UNCHANGED <<rows, receipts, handing, ready, execs, outbox, faults>>

\* A 409.  A failure report stays and claims are blocked; for a complete report
\* the handler goes on to fail the task.
PermanentRejection(r) ==
  /\ ready /\ r \in outbox /\ settling = NoReport /\ Rejected(r)
  /\ IF r.kind = "fail"
     THEN barrier' = barrier \cup {"delivery"} /\ UNCHANGED settling
     ELSE settling' = r /\ UNCHANGED barrier
  /\ UNCHANGED <<rows, receipts, handing, ready, execs, outbox, faults>>

\* Mutation: the rejected report is set aside, the task is not failed.
FallbackSetsAside ==
  /\ settling # NoReport
  /\ settling' = NoReport
  /\ outbox' = outbox \ {settling}
  /\ UNCHANGED <<rows, receipts, handing, ready, execs, barrier, faults>>

\* FailTaskWithProvenance carries no fence: it fails the row whatever its
\* generation, and succeeds on a closed row.  On an error claims are blocked.
FallbackFailure ==
  /\ settling # NoReport
  /\ settling' = NoReport
  /\ LET t == settling.task
     IN  \/ /\ status[t] # "queued"
            /\ status' = [status EXCEPT ![t] = IF @ \in Active THEN "failed" ELSE @]
            /\ outbox' = outbox \ {settling}   \* Store.Reject keeps a copy aside
            /\ UNCHANGED <<barrier, faults>>
         \/ /\ IF status[t] = "queued" THEN UNCHANGED faults ELSE Fault
            /\ barrier' = barrier \cup {"delivery"}
            /\ UNCHANGED <<status, outbox>>
  /\ UNCHANGED <<issued, fence, lease, receipts, handing, ready, execs>>

-----------------------------------------------------------------------------
(* Crash, restart and orphan recovery. *)

DaemonCrash ==
  /\ ready /\ Fault
  /\ ready' = FALSE
  /\ handing' = {} /\ execs' = {} /\ settling' = NoReport /\ barrier' = {}
  /\ UNCHANGED <<rows, receipts, outbox>>

\* Mutation: the pending reports are not sent along.
PreservedNone == {}

\* RecoverOrphanedTasksForRuntime with the outbox as the pending claims: only
\* a report of the row's current generation preserves it.
Preserved == {t \in Task : \E r \in outbox : r.task = t /\ r.fence = fence[t]}

RecoverOrphans ==
  /\ status' = [t \in Task |->
       IF status[t] \in Active /\ t \notin Preserved THEN "failed" ELSE status[t]]
  /\ UNCHANGED <<issued, fence, lease, receipts, handing, execs, outbox, settling, faults>>

\* Registration ends with orphan recovery, before the sender and the poller.
Restart ==
  /\ ~ready /\ ready' = TRUE
  /\ RecoverOrphans
  /\ UNCHANGED barrier

\* Recovery for a workspace that has just been joined fails ...
JoinRecoveryFails ==
  /\ ready /\ Fault
  /\ barrier' = barrier \cup {"recovery"}
  /\ UNCHANGED <<rows, receipts, handing, ready, execs, outbox, settling>>

\* ... and the next sync repeats it for every tracked runtime, this one too.
RecoverTrackedOrphans ==
  /\ ready /\ "recovery" \in barrier
  /\ RecoverOrphans
  /\ barrier' = barrier \ {"recovery"}
  /\ UNCHANGED ready

-----------------------------------------------------------------------------
(* Users and sweepers. *)

CancelTask(t) ==
  /\ status[t] \notin Terminal
  /\ status' = [status EXCEPT ![t] = "cancelled"]
  /\ UNCHANGED <<issued, fence, lease, receipts, handing, daemon, faults>>


\* FailStaleTasks: a dispatched row whose lease has lapsed for too long.
FailStaleTask(t) ==
  /\ status[t] = "dispatched" /\ t \notin lease
  /\ status' = [status EXCEPT ![t] = "failed"]
  /\ UNCHANGED <<issued, fence, lease, receipts, handing, daemon, faults>>

\* FailTasksForOfflineRuntimes: the daemon is down, or cut off, for longer than
\* the reconnect grace.
FailOfflineTask(t) ==
  /\ status[t] \in Active
  /\ IF ready THEN Fault ELSE UNCHANGED faults
  /\ status' = [status EXCEPT ![t] = "failed"]
  /\ UNCHANGED <<issued, fence, lease, receipts, handing, daemon>>

Row(t) ==
  \/ ClaimTask(t) \/ ReclaimStaleDispatched(t) \/ LeaseLapses(t) \/ LeaseCutOff(t)
  \/ CancelTask(t) \/ FailStaleTask(t) \/ FailOfflineTask(t)

Hand(c) == DeliverClaim(c) \/ LoseClaim(c) \/ RequeueAfterClaimFailure(c)
Run(e)  ==
  \/ ClaimEnvRoot(e) \/ StartTask(e) \/ ExecutionFails(e)
  \/ AgentFinishes(e) \/ ReportTaskResult(e) \/ NoticeTerminal(e)
Deliver(r) == Send(r) \/ PermanentRejection(r)

Next ==
  \/ \E t \in Task : Row(t)
  \/ \E c \in handing : Hand(c)
  \/ \E e \in execs : Run(e) \/ ExtendLease(e)
  \/ \E r \in outbox : Deliver(r)
  \/ FallbackFailure \/ DaemonCrash \/ Restart
  \/ JoinRecoveryFails \/ RecoverTrackedOrphans

Spec == Init /\ [][Next]_vars

\* The daemon is restarted, its goroutines run, agents end (AgentTimeout), the
\* sender retries for ever, an unextended lease lapses and the sweeper runs.
Fairness ==
  /\ WF_vars(Restart) /\ WF_vars(RecoverTrackedOrphans) /\ WF_vars(FallbackFailure)
  /\ \A c \in Claim : WF_vars(DeliverClaim(c))
  /\ \A e \in Exec : WF_vars(Run(e))
  /\ \A r \in Report : WF_vars(Deliver(r))
  /\ \A t \in Task : WF_vars(LeaseLapses(t)) /\ WF_vars(FailStaleTask(t))

FairSpec == Spec /\ Fairness

-----------------------------------------------------------------------------
(* Properties. *)

\* While the daemon is up, a running row is never forgotten: an execution runs
\* for it or a report of it is on disk, whatever was reclaimed, lost, rejected
\* or recovered before.  (A report that could not be written pauses claims.)
NoRunningRowForgotten ==
  \A t \in Task : status[t] = "running" /\ ready =>
    \/ \E e \in execs : e.task = t /\ e.phase \in {"run", "report"}
    \/ \E r \in outbox : r.task = t
    \/ "persistence" \in barrier

\* A report of a superseded claim never completes the claim that superseded it.
StaleClaimNeverCompletes ==
  [][\A t \in Task : status[t] # "completed" /\ status'[t] = "completed" =>
       [task |-> t, fence |-> fence[t], kind |-> "complete"] \in outbox]_vars

\* A finished result on disk is the row's outcome: until it is accepted only
\* the server's own sweepers may fail the row, never the daemon's recovery
\* after a restart or the settlement of another report.
SavedResultOnlySwept ==
  [][\A r \in outbox :
       r.kind = "complete" /\ ~Stale(r) /\ status[r.task] = "running"
       /\ status'[r.task] = "failed" => UNCHANGED daemon]_vars

\* The sender gets rid of every report on disk, over any number of crashes and
\* lost acknowledgements, or it blocks new claims for an operator.
SavedReportSettles ==
  \A r \in Report : r \in outbox ~> (r \notin outbox \/ "delivery" \in barrier)


\* terminal_report.go, 50-53: a rejected failure report "blocks new claims for
\* operator recovery; silently renaming it would strand the running task".
\* So there is a task to strand when claims are blocked.
BlockedForOpenTask ==
  [][barrier = {} /\ "delivery" \in barrier' =>
       \E r \in outbox : status[r.task] \in Active]_vars

\* agent.sql, 1642: recovery fails what "the prior incarnation of this runtime
\* owned", so not a row whose agent runs in this one.
RecoveryLeavesLiveRunsAlone ==
  [][\A e \in execs :
       e.phase = "run" /\ ready /\ "recovery" \in barrier /\ barrier' = {} =>
         status'[e.task] = status[e.task]]_vars
=============================================================================
