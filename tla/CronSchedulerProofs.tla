------------------------- MODULE CronSchedulerProofs -------------------------
(***************************************************************************)
(* What holds of the scheduler for any number of replicas, plans, attempts *)
(* and faults, and for any of the jobs: each attempt of a plan has one     *)
(* runner, settled plans stay settled, and only lapsed leases are lost.    *)
(***************************************************************************)
EXTENDS CronScheduler, WellFoundedInduction, TLAPS

(* The plans of a tick are plans the clock has reached. *)
PlansInReach == \A r \in Runner : pc[r] \in {"claim", "run"} => last[r] \in Plan

(* A running replica's token is an attempt its row has reached. *)
TokensIssued == \A r \in Runner : pc[r] = "run" => token[r] \in 1 .. attempt[next[r]]

CronInv == TypeOK /\ PlansInReach /\ TokensIssued /\ OneRunnerPerAttempt

(* Only a failed row waits for a retry, and a claim clears what it waited for. *)
RunningHasNoRetry == \A p \in Plan : status[p] = "RUNNING" => retry[p] = 0

-----------------------------------------------------------------------------
(* Numbers. *)

LEMMA Smallest ==
  ASSUME NEW T \in SUBSET Nat, T # {}
  PROVE  \E x \in T : \A y \in T : x <= y
<1> DEFINE R == {ss \in Nat \X Nat : ss[1] < ss[2]}
<1>1. IsWellFoundedOn(R, Nat)
  BY NatLessThanWellFounded DEF OpToRel
<1>2. \A x, y \in Nat : y < x => <<y, x>> \in R
  OBVIOUS
<1> HIDE DEF R
<1>3. PICK x \in T : \A y \in T : ~(<<y, x>> \in R)
  BY <1>1, WFMin, Zenon
<1>4. \A y \in T : x <= y
  <2> SUFFICES ASSUME NEW y \in T PROVE x <= y
    OBVIOUS
  <2>1. ~(y < x)
    BY <1>2, <1>3
  <2> QED BY <2>1
<1> QED BY <1>4

LEMMA Largest ==
  ASSUME NEW n \in Nat, NEW T \in SUBSET (0 .. n), T # {}
  PROVE  \E x \in T : \A y \in T : y <= x
<1> DEFINE U == {m \in Nat : \E x \in T : m = n - x}
<1>1. U \in SUBSET Nat
  OBVIOUS
<1>2. \A x \in T : n - x \in U
  OBVIOUS
<1>3. U # {}
  BY <1>2
<1> HIDE DEF U
<1>4. PICK u \in U : \A y \in U : u <= y
  BY <1>1, <1>3, Smallest
<1>5. PICK x \in T : u = n - x
  BY <1>4 DEF U
<1>6. \A y \in T : y <= x
  BY <1>2, <1>4, <1>5
<1> QED BY <1>6

(* The bucket of a time the clock has reached is one of the plans. *)
LEMMA BucketIsPlan ==
  ASSUME NEW j \in Jobs, NEW t \in Time
  PROVE  t \div j.cadence \in Plan
<1> DEFINE c == j.cadence
<1>1. c \in Nat \ {0} /\ MaxTime \in Nat /\ MaxPlan \in Nat /\ MaxTime \div c <= MaxPlan
  BY JobsAssumption, BoundAssumption
<1> HIDE DEF c
<1>2. t \in Nat /\ t <= MaxTime
  BY <1>1 DEF Time
<1>3. t \div c \in Nat /\ t \div c <= MaxTime \div c /\ MaxTime \div c \in Nat
  BY <1>1, <1>2
<1>4. t \div c \in Plan
  BY <1>1, <1>3 DEF Plan
<1> QED BY <1>4 DEF c

LEMMA NewestIsPlan ==
  ASSUME TypeOK, Stored # {}
  PROVE  Newest \in Plan /\ status[Newest] # "none"
<1>1. Stored \in SUBSET (0 .. MaxPlan) /\ MaxPlan \in Nat
  BY BoundAssumption DEF Stored, Plan
<1>2. \E p \in Stored : \A q \in Stored : q <= p
  BY <1>1, Largest
<1> QED BY <1>2 DEF Newest, Stored

(* What a tick plans: plans, from the first to the last. *)
LEMMA PlansOfTick ==
  ASSUME TypeOK, NEW t \in Time, FirstPlan(t) <= LastPlan(t)
  PROVE  FirstPlan(t) \in Plan /\ LastPlan(t) \in Plan
<1> DEFINE bucket == t \div job.cadence
           far == (t - Window + job.cadence - 1) \div job.cadence
<1>1. job \in Jobs /\ job.mode \in Mode /\ job.cadence \in Nat \ {0}
  BY JobsAssumption DEF TypeOK
<1>2. bucket \in Plan
  BY <1>1, BucketIsPlan
<1>3. far \in Int
  <2>1. t - Window + job.cadence - 1 \in Int
    BY <1>1, TimesAssumption, BoundAssumption DEF Time
  <2> QED BY <2>1, <1>1
<1>4. Resume(t) \in Nat
  BY <1>2, NewestIsPlan, BoundAssumption DEF Resume, Plan
<1>5. \A n \in Plan : n \in Nat /\ n <= MaxPlan /\ MaxPlan \in Nat
  BY BoundAssumption DEF Plan
<1>6. PlansPerTick \in Nat \ {0}
  BY TimesAssumption
<1> HIDE DEF bucket, far
<1>7. CASE job.mode = "latest_only"
  BY <1>2, <1>7 DEF FirstPlan, LastPlan, bucket
<1>8. CASE job.mode = "every_plan"
  <2>1. FirstPlan(t) = AtLeast(Resume(t), far) /\ LastPlan(t) = AtMost(bucket, FirstPlan(t) + PlansPerTick - 1)
    BY <1>8 DEF FirstPlan, LastPlan, bucket, far
  <2>2. FirstPlan(t) \in Nat
    BY <2>1, <1>3, <1>4 DEF AtLeast
  <2>3. LastPlan(t) \in Int /\ LastPlan(t) <= bucket
    BY <2>1, <2>2, <1>2, <1>5, <1>6 DEF AtMost
  <2> QED BY <2>2, <2>3, <1>2, <1>5 DEF Plan
<1>9. CASE job.mode = "automation"
  <2>1. CASE Stored # {} /\ Resume(t) = Newest
    BY <2>1, <1>9, NewestIsPlan DEF FirstPlan, LastPlan
  <2>2. CASE ~(Stored # {} /\ Resume(t) = Newest)
    <3>1. FirstPlan(t) = AtLeast(Resume(t), bucket) /\ LastPlan(t) = bucket
      BY <2>2, <1>9 DEF FirstPlan, LastPlan, bucket
    <3>2. FirstPlan(t) \in Nat
      BY <3>1, <1>2, <1>4, <1>5 DEF AtLeast
    <3> QED BY <3>1, <3>2, <1>2, <1>5 DEF Plan
  <2> QED BY <2>1, <2>2
<1> QED BY <1>1, <1>7, <1>8, <1>9 DEF Mode

-----------------------------------------------------------------------------
(* The invariant. *)

LEMMA CronInvInit == Init => CronInv
<1> SUFFICES ASSUME Init PROVE CronInv
  OBVIOUS
<1>1. TypeOK
  BY BoundAssumption, TimesAssumption DEF Init, TypeOK, Time
<1> QED BY <1>1 DEF Init, CronInv, PlansInReach, TokensIssued, OneRunnerPerAttempt

LEMMA AdvanceClockKeepsInv == ASSUME CronInv, AdvanceClock PROVE CronInv'
<1>1. now \in Nat /\ now' = now + 1 /\ now' \in Time
  BY BoundAssumption DEF CronInv, AdvanceClock, TypeOK, Time
<1>2. \A r \in Runner : tick[r] \in Time /\ tick[r] <= now'
  BY <1>1, BoundAssumption DEF CronInv, TypeOK, Time
<1>3. TypeOK'
  BY <1>1, <1>2 DEF CronInv, AdvanceClock, TypeOK, row, proc
<1> QED BY <1>3 DEF CronInv, AdvanceClock, PlansInReach, TokensIssued, OneRunnerPerAttempt, row, proc

(* The end of a tick disturbs nothing, whatever became of the row. *)
LEMMA ForgetKeepsInv ==
  ASSUME CronInv, NEW r \in Runner, Forget(r), UNCHANGED <<job, now, row>>, faults' \in 0 .. MaxFault
  PROVE  CronInv'
<1>0. 0 \in Time /\ 0 <= now /\ 0 \in 0 .. MaxAttempts
  BY BoundAssumption, TimesAssumption DEF CronInv, TypeOK, Time
<1>1. TypeOK'
  BY <1>0 DEF CronInv, Forget, TypeOK, row
<1>2. PlansInReach' /\ TokensIssued' /\ OneRunnerPerAttempt'
  BY DEF CronInv, Forget, TypeOK, PlansInReach, TokensIssued, OneRunnerPerAttempt, row
<1> QED BY <1>1, <1>2 DEF CronInv

LEMMA FaultCounted == TypeOK /\ Fault => faults' \in 0 .. MaxFault
BY BoundAssumption DEF TypeOK, Fault

LEMMA RunOnceKeepsInv == ASSUME CronInv, NEW r \in Runner, RunOnce(r) PROVE CronInv'
<1>1. TypeOK'
  BY BoundAssumption DEF CronInv, RunOnce, TypeOK, Time, row
<1>2. PlansInReach' /\ TokensIssued' /\ OneRunnerPerAttempt'
  BY DEF CronInv, RunOnce, TypeOK, PlansInReach, TokensIssued, OneRunnerPerAttempt, row
<1> QED BY <1>1, <1>2 DEF CronInv

LEMMA MarkStaleAsFailedKeepsInv ==
  ASSUME CronInv, NEW r \in Runner, MarkStaleAsFailed(r) PROVE CronInv'
<1>1. faults' \in 0 .. MaxFault
  BY FaultCounted DEF CronInv, TypeOK, MarkStaleAsFailed
<1>2. TypeOK'
  BY <1>1 DEF CronInv, MarkStaleAsFailed, TypeOK, Close, Lapsed
<1>3. PlansInReach' /\ TokensIssued' /\ OneRunnerPerAttempt'
  BY DEF CronInv, MarkStaleAsFailed, TypeOK, PlansInReach, TokensIssued, OneRunnerPerAttempt
<1> QED BY <1>2, <1>3 DEF CronInv

LEMMA PlansForTickKeepsInv ==
  ASSUME CronInv, NEW r \in Runner, PlansForTick(r) PROVE CronInv'
<1> DEFINE a == FirstPlan(tick[r])
           b == LastPlan(tick[r])
<1>1. CASE Forget(r) /\ UNCHANGED <<job, now, row>> /\ (Fault \/ UNCHANGED faults)
  BY <1>1, FaultCounted, ForgetKeepsInv DEF CronInv, TypeOK
<1>2. CASE /\ pc[r] = "plan" /\ a <= b /\ pc' = [pc EXCEPT ![r] = "claim"]
           /\ next' = [next EXCEPT ![r] = a] /\ last' = [last EXCEPT ![r] = b]
           /\ UNCHANGED <<tick, token, faults, job, now, row>>
  <2>1. a \in Plan /\ b \in Plan /\ a <= b
    BY <1>2, PlansOfTick DEF CronInv, TypeOK
  <2>2. a \in Nat /\ b \in Nat
    BY <2>1, BoundAssumption DEF Plan
  <2>3. TypeOK'
    <3> HIDE DEF a, b
    <3> QED BY <1>2, <2>1, <2>2 DEF CronInv, TypeOK, row
  <2>4. PlansInReach' /\ TokensIssued' /\ OneRunnerPerAttempt'
    <3> HIDE DEF a, b
    <3> QED BY <1>2, <2>1 DEF CronInv, TypeOK, PlansInReach, TokensIssued, OneRunnerPerAttempt, row
  <2> QED BY <2>3, <2>4 DEF CronInv
<1> QED BY <1>1, <1>2 DEF PlansForTick

(* The step to the next plan of a tick disturbs nothing either. *)
LEMMA ContinueKeepsInv ==
  ASSUME CronInv, NEW r \in Runner, pc[r] \in {"claim", "run"}, Continue(r),
         UNCHANGED <<job, now, row>>, faults' \in 0 .. MaxFault
  PROVE  CronInv'
<1>1. CASE Forget(r)
  BY <1>1, ForgetKeepsInv
<1>2. CASE /\ next[r] < last[r] /\ pc' = [pc EXCEPT ![r] = "claim"]
           /\ next' = [next EXCEPT ![r] = @ + 1] /\ token' = [token EXCEPT ![r] = 0]
           /\ UNCHANGED <<tick, last>>
  <2>1. next[r] + 1 \in Plan /\ next[r] + 1 <= last[r] /\ next[r] + 1 \in Nat
    <3>1. next[r] \in Plan /\ last[r] \in Plan
      BY DEF CronInv, TypeOK, PlansInReach
    <3> QED BY <1>2, <3>1, BoundAssumption DEF Plan
  <2>2. TypeOK'
    BY <1>2, <2>1, TimesAssumption DEF CronInv, TypeOK, row
  <2>3. PlansInReach' /\ TokensIssued' /\ OneRunnerPerAttempt'
    BY <1>2 DEF CronInv, TypeOK, PlansInReach, TokensIssued, OneRunnerPerAttempt, row
  <2> QED BY <2>2, <2>3 DEF CronInv
<1> QED BY <1>1, <1>2 DEF Continue

LEMMA TryClaimKeepsInv == ASSUME CronInv, NEW r \in Runner, TryClaim(r) PROVE CronInv'
<1> DEFINE p == next[r]
           t == tick[r]
<1>1. CASE /\ pc[r] = "claim" /\ Continue(r) /\ UNCHANGED <<job, now, row>>
           /\ Fault \/ UNCHANGED faults
  BY <1>1, FaultCounted, ContinueKeepsInv DEF CronInv, TypeOK
<1>2. CASE /\ pc[r] = "claim" /\ Free(p, t)
           /\ status'  = [status EXCEPT ![p] = "RUNNING"]
           /\ attempt' = [attempt EXCEPT ![p] = NewAttempt(p)]
           /\ stale'   = [stale EXCEPT ![p] = t + StaleTimeout]
           /\ retry'   = [retry EXCEPT ![p] = 0]
           /\ token'   = [token EXCEPT ![r] = NewAttempt(p)]
           /\ pc'      = [pc EXCEPT ![r] = "run"]
           /\ UNCHANGED <<tick, next, last, faults, job, now>>
  <2>1. p \in Plan /\ t \in Nat
    BY <1>2, BoundAssumption DEF CronInv, TypeOK, Time
  <2>2. NewAttempt(p) \in 1 .. MaxAttempts /\ NewAttempt(p) = attempt[p] + 1 /\ attempt[p] \in Nat
    BY <1>2, <2>1, TimesAssumption DEF CronInv, TypeOK, Free, RetryEligible, NewAttempt
  <2>3. t + StaleTimeout \in Nat /\ NewAttempt(p) \in 0 .. MaxAttempts /\ NewAttempt(p) # 0
    BY <2>1, <2>2, TimesAssumption
  <2>4. TypeOK'
    BY <1>2, <2>1, <2>3 DEF CronInv, TypeOK
  <2>5. PlansInReach'
    BY <1>2 DEF CronInv, TypeOK, PlansInReach
  <2>6. TokensIssued'
    BY <1>2, <2>1, <2>2 DEF CronInv, TypeOK, TokensIssued
  <2>7. OneRunnerPerAttempt'
    BY <1>2, <2>1, <2>2 DEF CronInv, TypeOK, TokensIssued, OneRunnerPerAttempt
  <2> QED BY <2>4, <2>5, <2>6, <2>7 DEF CronInv
<1> QED BY <1>1, <1>2 DEF TryClaim

LEMMA HeartbeatKeepsInv == ASSUME CronInv, NEW r \in Runner, Heartbeat(r) PROVE CronInv'
<1>1. now + StaleTimeout \in Nat
  BY TimesAssumption, BoundAssumption DEF CronInv, TypeOK, Time
<1>2. TypeOK'
  BY <1>1 DEF CronInv, Heartbeat, Holds, TypeOK, proc
<1> QED BY <1>2 DEF CronInv, Heartbeat, PlansInReach, TokensIssued, OneRunnerPerAttempt, proc

(* The terminal write of a runner, before it goes on. *)
LEMMA RunClaimedKeepsInv == ASSUME CronInv, NEW r \in Runner, RunClaimed(r) PROVE CronInv'
<1> DEFINE p == next[r]
<1>1. faults' \in 0 .. MaxFault
  BY FaultCounted DEF CronInv, TypeOK, RunClaimed
<1>2. /\ pc[r] = "run" /\ Continue(r) /\ UNCHANGED <<job, now, attempt>>
      /\ p \in Plan /\ next[r] <= last[r] /\ last[r] \in Plan
  BY DEF RunClaimed, CronInv, TypeOK, PlansInReach
<1>3. /\ status' \in [Plan -> {"none", "RUNNING", "SUCCESS", "FAILED"}]
      /\ \A q \in Plan : status'[q] = "none" <=> attempt[q] = 0
      /\ stale' \in [Plan -> Nat] /\ retry' \in [Plan -> Nat]
  BY <1>2, TimesAssumption, BoundAssumption DEF RunClaimed, Holds, CronInv, TypeOK, Time
<1>4. CASE Forget(r)
  <2>1. TypeOK'
    BY <1>1, <1>2, <1>3, <1>4, BoundAssumption, TimesAssumption DEF CronInv, TypeOK, Forget, Time
  <2>2. PlansInReach' /\ TokensIssued' /\ OneRunnerPerAttempt'
    BY <1>2, <1>4 DEF CronInv, Forget, TypeOK, PlansInReach, TokensIssued, OneRunnerPerAttempt
  <2> QED BY <2>1, <2>2 DEF CronInv
<1>5. CASE /\ next[r] < last[r] /\ pc' = [pc EXCEPT ![r] = "claim"]
           /\ next' = [next EXCEPT ![r] = @ + 1] /\ token' = [token EXCEPT ![r] = 0]
           /\ UNCHANGED <<tick, last>>
  <2>1. next[r] + 1 \in Plan /\ next[r] + 1 <= last[r] /\ next[r] + 1 \in Nat
    BY <1>2, <1>5, BoundAssumption DEF Plan
  <2>2. TypeOK'
    BY <1>1, <1>2, <1>3, <1>5, <2>1, TimesAssumption DEF CronInv, TypeOK
  <2>3. PlansInReach' /\ TokensIssued' /\ OneRunnerPerAttempt'
    BY <1>2, <1>5 DEF CronInv, TypeOK, PlansInReach, TokensIssued, OneRunnerPerAttempt
  <2> QED BY <2>2, <2>3 DEF CronInv
<1> QED BY <1>2, <1>4, <1>5 DEF Continue

LEMMA CrashKeepsInv == ASSUME CronInv, NEW r \in Runner, Crash(r) PROVE CronInv'
BY FaultCounted, ForgetKeepsInv DEF CronInv, Crash

LEMMA CronInvStep == CronInv /\ [Next]_vars => CronInv'
<1> SUFFICES ASSUME CronInv, [Next]_vars PROVE CronInv'
  OBVIOUS
<1>1. CASE AdvanceClock
  BY <1>1, AdvanceClockKeepsInv
<1>2. ASSUME NEW r \in Runner, Tick(r) PROVE CronInv'
  BY <1>2, RunOnceKeepsInv, MarkStaleAsFailedKeepsInv, PlansForTickKeepsInv, TryClaimKeepsInv,
     RunClaimedKeepsInv DEF Tick
<1>3. ASSUME NEW r \in Runner, Heartbeat(r) \/ Crash(r) PROVE CronInv'
  BY <1>3, HeartbeatKeepsInv, CrashKeepsInv
<1>4. CASE UNCHANGED vars
  BY <1>4 DEF vars, row, proc, CronInv, TypeOK, PlansInReach, TokensIssued, OneRunnerPerAttempt
<1> QED BY <1>1, <1>2, <1>3, <1>4 DEF Next

LEMMA CronInvariant == Spec => []CronInv
BY CronInvInit, CronInvStep, PTL DEF Spec

-----------------------------------------------------------------------------
(* The scheduler's variables keep their types; in particular a tick plans  *)
(* no bucket the clock has not reached, and no attempt exceeds the ceiling. *)
THEOREM SchedulerTypes == Spec => []TypeOK
<1>1. CronInv => TypeOK
  BY DEF CronInv
<1> QED BY <1>1, CronInvariant, PTL

(* No two replicas run the same attempt of a plan (tryClaim, manager.go),  *)
(* however leases lapse, are stolen, retried or closed under their runners. *)
THEOREM AttemptsHaveOneRunner == Spec => []OneRunnerPerAttempt
<1>1. CronInv => OneRunnerPerAttempt
  BY DEF CronInv
<1> QED BY <1>1, CronInvariant, PTL

(* A plan that succeeded or used up its attempts is never touched again.   *)
THEOREM SettledPlansStay == Spec => SettledForGood
<1>1. CronInv /\ [Next]_vars =>
        [\A p \in Plan :
           status[p] = "SUCCESS" \/ (status[p] = "FAILED" /\ attempt[p] = MaxAttempts)
           => status'[p] = status[p] /\ attempt'[p] = attempt[p]]_vars
  <2> SUFFICES ASSUME CronInv, Next, NEW p \in Plan,
                      status[p] = "SUCCESS" \/ (status[p] = "FAILED" /\ attempt[p] = MaxAttempts)
               PROVE  status'[p] = status[p] /\ attempt'[p] = attempt[p]
    OBVIOUS
  <2>1. CASE AdvanceClock
    BY <2>1 DEF AdvanceClock, row
  <2>2. ASSUME NEW r \in Runner, RunOnce(r) \/ PlansForTick(r) \/ Crash(r) \/ Heartbeat(r)
        PROVE  UNCHANGED <<status, attempt>>
    BY <2>2 DEF RunOnce, PlansForTick, Crash, Heartbeat, row
  <2>3. ASSUME NEW r \in Runner, MarkStaleAsFailed(r) PROVE status'[p] = status[p] /\ attempt'[p] = attempt[p]
    BY <2>3 DEF CronInv, TypeOK, MarkStaleAsFailed, Close, Lapsed
  <2>4. ASSUME NEW r \in Runner, TryClaim(r) PROVE status'[p] = status[p] /\ attempt'[p] = attempt[p]
    BY <2>4, TimesAssumption DEF CronInv, TypeOK, TryClaim, Free, RetryEligible, Lapsed, row
  <2>5. ASSUME NEW r \in Runner, RunClaimed(r) PROVE status'[p] = status[p] /\ attempt'[p] = attempt[p]
    BY <2>5 DEF CronInv, TypeOK, RunClaimed, Holds
  <2> QED BY <2>1, <2>2, <2>3, <2>4, <2>5 DEF Next, Tick
<1> QED BY <1>1, CronInvariant, PTL DEF Spec, SettledForGood

(* A replica whose handler still runs loses its lease only when no         *)
(* heartbeat of it has been stored for StaleTimeout.                       *)
THEOREM LeasesHeldUntilLapse == Spec => LeaseLostOnlyWhenLapsed
<1>1. CronInv /\ [Next]_vars =>
        [\A r \in Runner :
           Holds(r) /\ pc'[r] = "run"
           /\ (status'[next[r]] # "RUNNING" \/ attempt'[next[r]] # token[r])
           => stale[next[r]] < now]_vars
  <2> SUFFICES ASSUME CronInv, Next, NEW r \in Runner, Holds(r), pc'[r] = "run",
                      status'[next[r]] # "RUNNING" \/ attempt'[next[r]] # token[r]
               PROVE  stale[next[r]] < now
    OBVIOUS
  <2>1. /\ next[r] \in Plan /\ status[next[r]] = "RUNNING" /\ attempt[next[r]] = token[r] /\ pc[r] = "run"
        /\ stale[next[r]] \in Nat /\ now \in Nat
    BY BoundAssumption DEF Holds, CronInv, TypeOK, Time
  <2>2. \A s \in Runner : tick[s] \in Nat /\ tick[s] <= now
    BY BoundAssumption DEF CronInv, TypeOK, Time
  <2>3. CASE AdvanceClock
    BY <2>1, <2>3 DEF AdvanceClock, row
  <2>4. ASSUME NEW s \in Runner, RunOnce(s) \/ PlansForTick(s) \/ Crash(s) \/ Heartbeat(s)
        PROVE  FALSE
    <3>1. UNCHANGED <<status, attempt>>
      BY <2>4 DEF RunOnce, PlansForTick, Crash, Heartbeat, row
    <3> QED BY <3>1, <2>1
  <2>5. ASSUME NEW s \in Runner, MarkStaleAsFailed(s) PROVE stale[next[r]] < now
    BY <2>1, <2>2, <2>5 DEF CronInv, TypeOK, MarkStaleAsFailed, Close, Lapsed
  <2>6. ASSUME NEW s \in Runner, TryClaim(s) PROVE stale[next[r]] < now
    BY <2>1, <2>2, <2>6 DEF CronInv, TypeOK, TryClaim, Free, RetryEligible, Lapsed, row
  <2>7. ASSUME NEW s \in Runner, RunClaimed(s) PROVE FALSE
    <3>1. CASE s = r
      BY <2>1, <2>7, <3>1 DEF RunClaimed, Continue, Forget, CronInv, TypeOK
    <3>2. CASE s # r
      BY <2>1, <2>7, <3>2 DEF RunClaimed, Holds, CronInv, TypeOK, OneRunnerPerAttempt
    <3> QED BY <3>1, <3>2
  <2> QED BY <2>3, <2>4, <2>5, <2>6, <2>7 DEF Next, Tick
<1> QED BY <1>1, CronInvariant, PTL DEF Spec, LeaseLostOnlyWhenLapsed

-----------------------------------------------------------------------------
(* Plans whose lease lapsed. *)

LEMMA RunningHasNoRetryInit == Init => RunningHasNoRetry
BY DEF Init, RunningHasNoRetry

LEMMA RunningHasNoRetryStep ==
  CronInv /\ RunningHasNoRetry /\ [Next]_vars => RunningHasNoRetry'
<1> SUFFICES ASSUME CronInv, RunningHasNoRetry, [Next]_vars PROVE RunningHasNoRetry'
  OBVIOUS
<1>1. CASE AdvanceClock
  BY <1>1 DEF AdvanceClock, RunningHasNoRetry, row
<1>2. ASSUME NEW r \in Runner, RunOnce(r) \/ PlansForTick(r) \/ Crash(r) \/ Heartbeat(r)
      PROVE  UNCHANGED <<status, retry>>
  BY <1>2 DEF RunOnce, PlansForTick, Crash, Heartbeat, row
<1>3. ASSUME NEW r \in Runner, MarkStaleAsFailed(r) PROVE RunningHasNoRetry'
  BY <1>3 DEF CronInv, TypeOK, MarkStaleAsFailed, RunningHasNoRetry
<1>4. ASSUME NEW r \in Runner, TryClaim(r) PROVE RunningHasNoRetry'
  BY <1>4 DEF CronInv, TypeOK, TryClaim, RunningHasNoRetry, row
<1>5. ASSUME NEW r \in Runner, RunClaimed(r) PROVE RunningHasNoRetry'
  BY <1>5 DEF CronInv, TypeOK, RunClaimed, RunningHasNoRetry
<1>6. CASE UNCHANGED vars
  BY <1>6 DEF vars, row, RunningHasNoRetry
<1> QED BY <1>1, <1>2, <1>3, <1>4, <1>5, <1>6 DEF Next, Tick, RunningHasNoRetry

(* A lapsed plan with attempts left is free to be run again as soon as the *)
(* sweep has closed it, whether or not its job may be re-entered           *)
(* (markStaleAsFailed and tryClaim, db_ops.go).                            *)
THEOREM ClosedPlansAreRunAgain == Spec => ClosedPlanIsFree
<1>1. CronInv /\ RunningHasNoRetry /\ [Next]_vars =>
        [\A r \in Runner, p \in Plan :
           MarkStaleAsFailed(r) /\ status[p] = "RUNNING" /\ status'[p] = "FAILED"
           /\ attempt[p] < MaxAttempts
           => \A t \in Time : Free(p, t)']_vars
  <2> SUFFICES ASSUME CronInv, RunningHasNoRetry, NEW r \in Runner, NEW p \in Plan,
                      MarkStaleAsFailed(r), status[p] = "RUNNING", status'[p] = "FAILED",
                      attempt[p] < MaxAttempts, NEW t \in Time
               PROVE  Free(p, t)'
    OBVIOUS
  <2>1. retry[p] = 0 /\ retry'[p] = 0 /\ attempt'[p] = attempt[p]
    BY DEF RunningHasNoRetry, MarkStaleAsFailed
  <2>2. 0 <= t
    BY BoundAssumption DEF Time
  <2> QED BY <2>1, <2>2 DEF Free, RetryEligible
<1> QED BY <1>1, CronInvariant, RunningHasNoRetryInit, RunningHasNoRetryStep, PTL
        DEF Spec, ClosedPlanIsFree

=============================================================================
