---------------------------- MODULE CronScheduler ----------------------------
(***************************************************************************)
(* The database-backed scheduler (internal/scheduler) for one job and one  *)
(* scope: the rows of sys_cron_executions, one per plan, and the replicas  *)
(* that tick the job.  A replica reads the database clock once per tick,   *)
(* closes lapsed leases, plans, and then claims and runs one plan after    *)
(* another with that same clock value; leases lapse under replicas that    *)
(* are still alive, replicas crash, and statements fail.                   *)
(*                                                                         *)
(* Plan p is the bucket that starts at time p * job.cadence.  The lease token  *)
(* of a row is its attempt number: each claim makes a new one.             *)
(***************************************************************************)
EXTENDS Integers

CONSTANTS
  Runner,       \* replicas
  Jobs,         \* the JobSpecs considered: how they plan, Cadence, AllowStaleReentry
  Window, PlansPerTick, StaleTimeout, Backoff, MaxAttempts,
  MaxTime,      \* bound on the clock
  MaxPlan,      \* bound on the plans that fit in it
  MaxFault      \* bound on crashes and failed statements

Mode == {"latest_only", "every_plan", "automation"}

ASSUME JobsAssumption ==
  Jobs \subseteq [mode : Mode, cadence : Nat \ {0}, reentry : BOOLEAN]
ASSUME TimesAssumption ==
  /\ PlansPerTick \in Nat \ {0} /\ MaxAttempts \in Nat \ {0}
  /\ Window \in Nat /\ StaleTimeout \in Nat \ {0} /\ Backoff \in Nat
ASSUME BoundAssumption ==
  /\ MaxTime \in Nat /\ MaxFault \in Nat /\ MaxPlan \in Nat
  /\ \A j \in Jobs : MaxTime \div j.cadence <= MaxPlan

Time == 0 .. MaxTime
Plan == 0 .. MaxPlan

VARIABLES
  job,     \* the JobSpec
  now,     \* the database clock
  status, attempt,   \* of each plan's row; status "none": no row
  stale,   \* stale_after, 0 unless the row is RUNNING: nothing else reads it
  retry,   \* next_retry_at, 0 for NULL, which means at once
  pc,      \* where each replica stands in its tick
  tick,    \* the clock value its tick works with
  next, last,        \* the plans it has still to try
  token,   \* the attempt whose handler it runs
  faults

row  == <<status, attempt, stale, retry>>
proc == <<pc, tick, next, last, token>>
vars == <<job, now, row, proc, faults>>

TypeOK ==
  /\ job \in Jobs /\ now \in Time /\ faults \in 0 .. MaxFault
  /\ status \in [Plan -> {"none", "RUNNING", "SUCCESS", "FAILED"}]
  /\ attempt \in [Plan -> 0 .. MaxAttempts]
  /\ \A p \in Plan : status[p] = "none" <=> attempt[p] = 0
  /\ stale \in [Plan -> Nat] /\ retry \in [Plan -> Nat]
  /\ pc \in [Runner -> {"idle", "sweep", "plan", "claim", "run"}]
  /\ \A r \in Runner : tick[r] \in Time /\ tick[r] <= now
  /\ next \in [Runner -> Nat] /\ last \in [Runner -> Nat]
  /\ token \in [Runner -> 0 .. MaxAttempts]
  /\ \A r \in Runner : pc[r] \in {"claim", "run"} => next[r] \in Plan /\ next[r] <= last[r]

Init ==
  /\ job \in Jobs /\ now = 0 /\ faults = 0
  /\ status = [p \in Plan |-> "none"] /\ attempt = [p \in Plan |-> 0]
  /\ stale = [p \in Plan |-> 0] /\ retry = [p \in Plan |-> 0]
  /\ pc = [r \in Runner |-> "idle"] /\ tick = [r \in Runner |-> 0]
  /\ next = [r \in Runner |-> 0] /\ last = [r \in Runner |-> 0]
  /\ token = [r \in Runner |-> 0]

\* A fault, while the clock still has room for what it leaves to lapse.
Fault == faults < MaxFault /\ now + StaleTimeout < MaxTime /\ faults' = faults + 1

\* The tick of r is over.
Forget(r) ==
  /\ pc'   = [pc EXCEPT ![r] = "idle"]
  /\ tick' = [tick EXCEPT ![r] = 0]
  /\ next' = [next EXCEPT ![r] = 0] /\ last' = [last EXCEPT ![r] = 0]
  /\ token' = [token EXCEPT ![r] = 0]

AdvanceClock ==
  /\ now < MaxTime
  /\ now' = now + 1
  /\ UNCHANGED <<job, row, proc, faults>>

-----------------------------------------------------------------------------
(* Planning. *)

\* RunOnce: the tick's one reading of the clock.
RunOnce(r) ==
  /\ pc[r] = "idle"
  /\ pc' = [pc EXCEPT ![r] = "sweep"]
  /\ tick' = [tick EXCEPT ![r] = now]
  /\ UNCHANGED <<job, now, row, next, last, token, faults>>

\* Mutation: a lease lapses one clock tick early.
LapsedAtExpiry(p, t) == status[p] = "RUNNING" /\ stale[p] <= t

Lapsed(p, t) == status[p] = "RUNNING" /\ stale[p] < t

\* Mutation: the leases of reentrant jobs are left to the next claim.
CloseUnlessReentrant(t) == IF job.reentry THEN {} ELSE {p \in Plan : Lapsed(p, t)}

\* markStaleAsFailed closes lapsed leases whatever AllowStaleReentry says.
Close(t) == {p \in Plan : Lapsed(p, t)}

MarkStaleAsFailed(r) ==
  /\ pc[r] = "sweep"
  /\ pc' = [pc EXCEPT ![r] = "plan"]
  /\ \/ /\ status' = [p \in Plan |-> IF p \in Close(tick[r]) THEN "FAILED" ELSE status[p]]
        /\ stale' = [p \in Plan |-> IF p \in Close(tick[r]) THEN 0 ELSE stale[p]]
        /\ UNCHANGED faults
     \/ Fault /\ UNCHANGED <<status, stale>>   \* logged, the tick goes on
  /\ UNCHANGED <<job, now, attempt, retry, tick, next, last, token>>

\* latestPlan: the row of the newest plan, whatever its status.
Stored == {p \in Plan : status[p] # "none"}
Newest == CHOOSE p \in Stored : \A q \in Stored : q <= p

RetryEligible(p, t) ==
  status[p] = "FAILED" /\ attempt[p] < MaxAttempts /\ retry[p] <= t

\* Mutation: the planner always moves on from the newest row.
ResumePastNewest(t) ==
  IF Stored = {} THEN t \div job.cadence ELSE Newest + 1

\* Where planning resumes: at the newest row while it can be retried, else
\* behind it; without history at the bucket of now.
Resume(t) ==
  IF Stored = {} THEN t \div job.cadence
  ELSE IF RetryEligible(Newest, t) THEN Newest
  ELSE Newest + 1

AtLeast(x, y) == IF x < y THEN y ELSE x
AtMost(x, y)  == IF x > y THEN y ELSE x

\* The first and the last plan of a tick; none when the first is the later.
\* An automation's missed occurrences collapse to the most recent one.
FirstPlan(t) ==
  CASE job.mode = "latest_only" -> t \div job.cadence
    [] job.mode = "every_plan"  -> AtLeast(Resume(t), (t - Window + job.cadence - 1) \div job.cadence)
    [] job.mode = "automation"  ->
         IF Stored # {} /\ Resume(t) = Newest THEN Newest ELSE AtLeast(Resume(t), t \div job.cadence)

LastPlan(t) ==
  CASE job.mode = "every_plan" -> AtMost(t \div job.cadence, FirstPlan(t) + PlansPerTick - 1)
    [] job.mode = "automation" -> IF Stored # {} /\ Resume(t) = Newest THEN Newest ELSE t \div job.cadence
    [] OTHER -> t \div job.cadence

PlansForTick(r) ==
  /\ pc[r] = "plan"
  /\ LET a == FirstPlan(tick[r])
         b == LastPlan(tick[r])
     IN  \/ /\ a <= b
            /\ pc' = [pc EXCEPT ![r] = "claim"]
            /\ next' = [next EXCEPT ![r] = a] /\ last' = [last EXCEPT ![r] = b]
            /\ UNCHANGED <<tick, token, faults>>
         \/ /\ IF a <= b THEN Fault ELSE UNCHANGED faults
            /\ Forget(r)
  /\ UNCHANGED <<job, now, row>>

-----------------------------------------------------------------------------
(* Claiming and running. *)

\* On to the next plan of the tick, or to the next tick.
Continue(r) ==
  \/ /\ next[r] < last[r]
     /\ pc' = [pc EXCEPT ![r] = "claim"]
     /\ next' = [next EXCEPT ![r] = @ + 1]
     /\ token' = [token EXCEPT ![r] = 0]
     /\ UNCHANGED <<tick, last>>
  \/ next[r] = last[r] /\ Forget(r)

\* Mutation: the UPDATE does not compare attempt with max_attempts.
FreeOfAttempts(p, t) ==
  \/ status[p] = "none"
  \/ status[p] = "FAILED" /\ retry[p] <= t
  \/ job.reentry /\ Lapsed(p, t)

\* Fresh insert, or in the same round trip the retry of a FAILED row or the
\* theft of a lapsed lease.
Free(p, t) ==
  \/ status[p] = "none"
  \/ RetryEligible(p, t)
  \/ job.reentry /\ Lapsed(p, t) /\ attempt[p] < MaxAttempts

\* Mutation: a steal leaves the attempt, and with it the token, as it was.
StolenAttempt(p) == IF status[p] = "RUNNING" THEN attempt[p] ELSE attempt[p] + 1

NewAttempt(p) == attempt[p] + 1

\* tryClaim: the lease is counted from the tick's clock value, not from now.
TryClaim(r) ==
  /\ pc[r] = "claim"
  /\ LET p == next[r]
         t == tick[r]
     IN  \/ /\ Free(p, t)
            /\ status'  = [status EXCEPT ![p] = "RUNNING"]
            /\ attempt' = [attempt EXCEPT ![p] = NewAttempt(p)]
            /\ stale'   = [stale EXCEPT ![p] = t + StaleTimeout]
            /\ retry'   = [retry EXCEPT ![p] = 0]
            /\ token'   = [token EXCEPT ![r] = NewAttempt(p)]
            /\ pc'      = [pc EXCEPT ![r] = "run"]
            /\ UNCHANGED <<tick, next, last, faults>>
         \/ /\ IF Free(p, t) THEN Fault ELSE UNCHANGED faults
            /\ Continue(r)
            /\ UNCHANGED row
  /\ UNCHANGED <<job, now>>

\* Mutation: the lease is found by its row alone.
HoldsAnyLease(r) == pc[r] = "run" /\ status[next[r]] # "none"

\* The condition on id, lease_token and status of every write of a runner.
Holds(r) ==
  /\ pc[r] = "run"
  /\ status[next[r]] = "RUNNING" /\ attempt[next[r]] = token[r]

\* The heartbeat of a handler that runs; on a lost lease it only logs.
Heartbeat(r) ==
  /\ Holds(r)
  /\ stale' = [stale EXCEPT ![next[r]] = now + StaleTimeout]
  /\ UNCHANGED <<job, now, status, attempt, retry, proc, faults>>

\* The handler returns, fails, panics or is cancelled, and the terminal state
\* is written if the lease is still held; a failed write is only logged.
RunClaimed(r) ==
  /\ pc[r] = "run"
  /\ LET p == next[r]
     IN  \/ /\ Holds(r)
            /\ \/ /\ status' = [status EXCEPT ![p] = "SUCCESS"]
                  /\ UNCHANGED retry
               \/ /\ status' = [status EXCEPT ![p] = "FAILED"]
                  /\ retry' = [retry EXCEPT ![p] =
                       IF token[r] < MaxAttempts THEN now + Backoff ELSE 0]
            /\ stale' = [stale EXCEPT ![p] = 0]
            /\ UNCHANGED faults
         \/ /\ IF Holds(r) THEN Fault ELSE UNCHANGED faults
            /\ UNCHANGED <<status, stale, retry>>
  /\ Continue(r)
  /\ UNCHANGED <<job, now, attempt>>

\* A replica dies and is replaced.
Crash(r) ==
  /\ pc[r] # "idle" /\ Fault
  /\ Forget(r)
  /\ UNCHANGED <<job, now, row>>

Tick(r) ==
  \/ RunOnce(r) \/ MarkStaleAsFailed(r) \/ PlansForTick(r) \/ TryClaim(r) \/ RunClaimed(r)

Next ==
  \/ AdvanceClock
  \/ \E r \in Runner : Tick(r) \/ Heartbeat(r) \/ Crash(r)

Spec == Init /\ [][Next]_vars

\* Time passes, replicas tick for ever and RunTimeout ends every handler.
Fairness == WF_vars(AdvanceClock) /\ \A r \in Runner : WF_vars(Tick(r))

FairSpec == Spec /\ Fairness

-----------------------------------------------------------------------------
(* Properties. *)

\* Handler, spec.go 90-92: it is called once per claim.  No two replicas ever
\* run the same attempt of a plan.
OneRunnerPerAttempt ==
  \A r, s \in Runner :
    pc[r] = "run" /\ pc[s] = "run" /\ next[r] = next[s] /\ token[r] = token[s] => r = s

\* A plan that has succeeded, or has used up its attempts, is settled: no late
\* handler, sweep, steal or retry touches its row again.
SettledForGood ==
  [][\A p \in Plan :
       status[p] = "SUCCESS" \/ (status[p] = "FAILED" /\ attempt[p] = MaxAttempts)
       => status'[p] = status[p] /\ attempt'[p] = attempt[p]]_vars

\* A replica whose handler runs loses its lease only after StaleTimeout has
\* passed since its last heartbeat.
LeaseLostOnlyWhenLapsed ==
  [][\A r \in Runner :
       Holds(r) /\ pc'[r] = "run"
       /\ (status'[next[r]] # "RUNNING" \/ attempt'[next[r]] # token[r])
       => stale[next[r]] < now]_vars

\* A lease whose holder has died is closed, whether or not its plan is ever
\* planned again (manager.go, 147-160).
AbandonedLeaseCloses ==
  \A p \in Plan : status[p] = "RUNNING" ~> status[p] # "RUNNING"

\* A lapsed lease that the sweep closed in a job that must not be re-entered:
\* spec.go, 144-147, leaves its plan to manual repair.
LeftToRepair(p) == ~job.reentry /\ status[p] = "FAILED" /\ retry[p] = 0

\* A failed plan whose retry is due, because its handler failed or because the
\* job may be re-entered, is retried unless a newer plan has overtaken it.
\* Nothing is asked for plans that are left to repair (see ClosedPlanIsFree).
DuePlanRetried ==
  \A p \in Plan :
    RetryEligible(p, now) /\ ~LeftToRepair(p)
      ~> ~RetryEligible(p, now) \/ \E q \in Stored : q > p

\* What the code does with those plans too, against spec.go, 144-147: the sweep
\* leaves next_retry_at NULL and the attempts below their ceiling, so the very
\* next claim of the plan, at any clock reading, runs it again unrepaired.
ClosedPlanIsFree ==
  [][\A r \in Runner, p \in Plan :
       MarkStaleAsFailed(r) /\ status[p] = "RUNNING" /\ status'[p] = "FAILED"
       /\ attempt[p] < MaxAttempts
       => \A t \in Time : Free(p, t)']_vars

\* spec.go, 33-36: every_plan "claims every missed plan_time" and is for jobs
\* "where each plan bucket has independent business meaning"; manager.go,
\* 238-246, means to keep a FAILED row from being stranded.
EveryPlanRetried ==
  \A p \in Plan : RetryEligible(p, now) ~> ~RetryEligible(p, now)
=============================================================================
