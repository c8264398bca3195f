---------------------------- MODULE ReclaimCheck ----------------------------
(***************************************************************************)
(* The reclaim check cache of one runtime (internal/service/               *)
(* reclaim_check_cache.go): Redis hints that let a poll skip the statement *)
(* which finds dispatched tasks whose claim response was lost              *)
(* (ReclaimStaleDispatchedTaskForRuntime).  The database is right; the     *)
(* cache may only delay the statement, and by how much is the question.    *)
(*                                                                         *)
(* All times are countdowns in ticks; Redis writes take no tick, but other *)
(* requests come in between.                                               *)
(***************************************************************************)
EXTENDS Integers, FiniteSets

CONSTANTS
  Dispatch,       \* the tasks
  Window,         \* claimResponseRecoveryWindow, and ReclaimCheckBackstopInterval
  HintMargin,     \* ReclaimCheckHintSafetyMargin
  RetryInterval,  \* ReclaimCheckRetryInterval
  PrepareLease,   \* prepareLeaseDuration
  PollInterval,   \* ticks after which a poll is over, and the daemon polls again
  MaxMishaps      \* bound on failed writes and statements, flushes and outages

ASSUME ReclaimAssumption ==
  /\ Window \in Nat /\ HintMargin \in Nat /\ PrepareLease \in Nat
  /\ RetryInterval \in Nat /\ PollInterval \in Nat \ {0} /\ MaxMishaps \in Nat

\* Seconds in the code: 90, 5, 45, 30, and a poll every 30.  A hint comes after
\* its task is eligible, and lives long enough for a retry and three polls.
ASSUME HintAssumption ==
  /\ 0 < HintMargin /\ HintMargin <= RetryInterval + PollInterval
  /\ PrepareLease <= Window
  /\ RetryInterval + PollInterval <= Window /\ 2 * PollInterval < Window

VARIABLES
  age,        \* ticks since dispatched_at, Absent unless the task is dispatched
  lease,      \* ticks until prepare_lease_expires_at
  healthy,    \* the runtime is online and has been seen
  hint,       \* score of the task in the sorted set, in ticks from now
  keyTTL,     \* ticks until the sorted set expires
  backstop,   \* ticks until the backstop is due, 0 also when it is missing
  tracking,   \* score of a Track on its way
  forgetting, \* tasks with a Forget on its way
  checking,       \* "idle", or the step of the poll under way
  pollAge,    \* ticks since the last poll began
  overdue,    \* history: ticks an eligible task has gone without a statement
  mishaps

redis == <<hint, keyTTL, backstop>>
writes == <<tracking, forgetting>>
rhythm == <<checking, pollAge>>
reclaimVars == <<age, lease, healthy, redis, writes, rhythm, overdue, mishaps>>

Absent == -1 - PollInterval
KeyTTL == 2 * Window + HintMargin
FirstHint == Window + HintMargin
Score == {Absent} \cup -PollInterval..FirstHint

ReclaimTypeOK ==
  /\ age \in [Dispatch -> {Absent} \cup 0..Window + 1]
  /\ lease \in [Dispatch -> 0..PrepareLease]
  /\ healthy \in BOOLEAN
  /\ hint \in [Dispatch -> Score]
  /\ keyTTL \in 0..KeyTTL
  /\ backstop \in 0..Window
  /\ tracking \in [Dispatch -> Score]
  /\ forgetting \in SUBSET Dispatch
  /\ checking \in {"idle", "due", "reclaimed"}
  /\ pollAge \in 0..PollInterval
  /\ overdue \in [Dispatch -> Nat]
  /\ mishaps \in 0..MaxMishaps

ReclaimInit ==
  /\ age = [t \in Dispatch |-> Absent] /\ lease = [t \in Dispatch |-> 0]
  /\ healthy = TRUE
  /\ hint = [t \in Dispatch |-> Absent] /\ keyTTL = 0 /\ backstop = 0
  /\ tracking = [t \in Dispatch |-> Absent] /\ forgetting = {}
  /\ checking = "idle" /\ pollAge = 0
  /\ overdue = [t \in Dispatch |-> 0] /\ mishaps = 0

-----------------------------------------------------------------------------
Mishap == mishaps < MaxMishaps /\ mishaps' = mishaps + 1

\* The predicates of the statement.
Reclaimable(t) == age[t] > Window /\ lease[t] = 0 /\ healthy

Dispatched(t) == age[t] # Absent

\* The task is dispatched now, and its hint is on its way.
Deliver(t) ==
  /\ age' = [age EXCEPT ![t] = 0]
  /\ lease' = [lease EXCEPT ![t] = PrepareLease]
  /\ tracking' = [tracking EXCEPT ![t] = FirstHint]

\* ClaimAgentTask, then trackTaskForReclaim.  A Forget of the dispatch before
\* may come after the Track, and take its hint away.
ClaimDispatch(t) ==
  /\ age[t] = Absent /\ tracking[t] = Absent
  /\ Deliver(t)
  /\ IF t \in forgetting THEN Mishap ELSE UNCHANGED mishaps
  /\ UNCHANGED <<healthy, redis, forgetting, rhythm, overdue>>

Track(t) ==
  /\ tracking[t] # Absent
  /\ tracking' = [tracking EXCEPT ![t] = Absent]
  /\ \/ /\ hint' = [hint EXCEPT ![t] = tracking[t]]
        /\ keyTTL' = KeyTTL
        /\ UNCHANGED mishaps
     \/ Mishap /\ UNCHANGED <<hint, keyTTL>>
  /\ UNCHANGED <<age, lease, healthy, backstop, forgetting, rhythm, overdue>>

\* ExtendTaskPrepareLease and extendTaskReclaimHint: the hint only moves later,
\* and only one that is there.
Extend(t) ==
  /\ Dispatched(t) /\ lease[t] > 0
  /\ lease' = [lease EXCEPT ![t] = PrepareLease]
  /\ IF hint[t] # Absent
       THEN /\ hint' = [hint EXCEPT ![t] = IF @ < PrepareLease THEN PrepareLease ELSE @]
            /\ keyTTL' = KeyTTL
       ELSE UNCHANGED <<hint, keyTTL>>
  /\ UNCHANGED <<age, healthy, backstop, writes, rhythm, overdue, mishaps>>

\* The task starts, waits for a directory, ends or is requeued.
Settle(t) ==
  /\ Dispatched(t)
  /\ age' = [age EXCEPT ![t] = Absent]
  /\ lease' = [lease EXCEPT ![t] = 0]
  /\ overdue' = [overdue EXCEPT ![t] = 0]
  /\ forgetting' = forgetting \cup {t}
  /\ UNCHANGED <<healthy, redis, tracking, rhythm, mishaps>>

Forget(t) ==
  /\ t \in forgetting
  /\ forgetting' = forgetting \ {t}
  /\ hint' \in {[hint EXCEPT ![t] = Absent], hint}
  /\ IF hint' = hint /\ hint[t] # Absent THEN Mishap ELSE UNCHANGED mishaps
  /\ UNCHANGED <<age, lease, healthy, keyTTL, backstop, tracking, rhythm, overdue>>

-----------------------------------------------------------------------------
(* One poll: DueRuntimeIDs, the statement, MarkChecked. *)

Due == backstop = 0 \/ \E t \in Dispatch : hint[t] # Absent /\ hint[t] <= 0

\* Mutation: a poll that has nothing to check arms the backstop again.
BeginPollRearming ==
  /\ checking = "idle"
  /\ pollAge' = 0
  /\ IF Due THEN checking' = "due" /\ UNCHANGED backstop
            ELSE backstop' = Window /\ UNCHANGED checking
  /\ UNCHANGED <<age, lease, healthy, hint, keyTTL, writes, overdue, mishaps>>

\* A Redis error counts as due.
BeginPoll ==
  /\ checking = "idle"
  /\ pollAge' = 0
  /\ \/ Due /\ checking' = "due" /\ UNCHANGED mishaps
     \/ ~Due /\ UNCHANGED <<checking, mishaps>>
     \/ ~Due /\ checking' = "due" /\ Mishap
  /\ UNCHANGED <<age, lease, healthy, redis, writes, overdue>>

\* Reclaims one of the eligible tasks, if there is one that is not locked.
Reclaim ==
  /\ checking = "due"
  /\ \/ /\ \E t \in Dispatch : Reclaimable(t) /\ tracking[t] = Absent /\ Deliver(t)
        /\ UNCHANGED mishaps
     \/ /\ IF \E t \in Dispatch : Reclaimable(t) THEN Mishap ELSE UNCHANGED mishaps
        /\ UNCHANGED <<age, lease, tracking>>
  /\ checking' = "reclaimed"
  /\ overdue' = [t \in Dispatch |-> 0]
  /\ UNCHANGED <<healthy, redis, forgetting, pollAge>>

\* The statement fails, and nothing is marked.
ReclaimFails ==
  /\ checking = "due" /\ Mishap
  /\ checking' = "idle"
  /\ UNCHANGED <<age, lease, healthy, redis, writes, pollAge, overdue>>

\* What is left of an interval that began with the poll.
LeftOf(interval) == IF pollAge < interval THEN interval - pollAge ELSE 0

\* Mutation: the hints that were due are moved by the window.
MarkCheckedForLong ==
  /\ checking = "reclaimed"
  /\ checking' = "idle"
  /\ hint' = [t \in Dispatch |->
       IF hint[t] # Absent /\ hint[t] <= -pollAge THEN FirstHint ELSE hint[t]]
  /\ backstop' = LeftOf(Window)
  /\ UNCHANGED <<age, lease, healthy, keyTTL, writes, pollAge, overdue, mishaps>>

\* Mutation: the backstop lives as long as a hint.
MarkCheckedAsHint ==
  /\ checking = "reclaimed"
  /\ checking' = "idle"
  /\ backstop' = FirstHint
  /\ UNCHANGED <<age, lease, healthy, hint, keyTTL, writes, pollAge, overdue, mishaps>>

\* Hints that were due when the poll began are moved, not removed.
MarkChecked ==
  /\ checking = "reclaimed"
  /\ checking' = "idle"
  /\ \/ /\ hint' = [t \in Dispatch |->
               IF hint[t] # Absent /\ hint[t] <= -pollAge THEN RetryInterval ELSE hint[t]]
        /\ backstop' = LeftOf(Window)
        /\ UNCHANGED mishaps
     \/ Mishap /\ UNCHANGED <<hint, backstop>>
  /\ UNCHANGED <<age, lease, healthy, keyTTL, writes, pollAge, overdue>>

-----------------------------------------------------------------------------
Flush ==
  /\ Mishap
  /\ hint' = [t \in Dispatch |-> Absent] /\ keyTTL' = 0 /\ backstop' = 0
  /\ UNCHANGED <<age, lease, healthy, writes, rhythm, overdue>>

Outage ==
  /\ IF healthy THEN Mishap ELSE UNCHANGED mishaps
  /\ healthy' = ~healthy
  /\ overdue' = [t \in Dispatch |-> 0]
  /\ UNCHANGED <<age, lease, redis, writes, rhythm>>

Sooner(n) == IF n > 0 THEN n - 1 ELSE 0
Closer(score) == IF score = Absent \/ score = -PollInterval THEN score ELSE score - 1

\* Writes are not held up for a tick, nor polls for longer than the interval.
ReclaimTick ==
  /\ pollAge < PollInterval
  /\ forgetting = {} /\ \A t \in Dispatch : tracking[t] = Absent
  /\ pollAge' = pollAge + 1
  /\ age' = [t \in Dispatch |-> IF age[t] \in {Absent, Window + 1} THEN age[t] ELSE age[t] + 1]
  /\ lease' = [t \in Dispatch |-> Sooner(lease[t])]
  /\ keyTTL' = Sooner(keyTTL)
  /\ hint' = [t \in Dispatch |-> IF keyTTL <= 1 THEN Absent ELSE Closer(hint[t])]
  /\ backstop' = Sooner(backstop)
  /\ overdue' = [t \in Dispatch |-> IF Reclaimable(t) THEN overdue[t] + 1 ELSE 0]
  /\ UNCHANGED <<healthy, tracking, forgetting, checking, mishaps>>

ReclaimNext ==
  \/ \E t \in Dispatch : ClaimDispatch(t) \/ Track(t) \/ Extend(t) \/ Settle(t) \/ Forget(t)
  \/ BeginPoll \/ Reclaim \/ ReclaimFails \/ MarkChecked
  \/ Flush \/ Outage \/ ReclaimTick

ReclaimSpec == ReclaimInit /\ [][ReclaimNext]_reclaimVars

-----------------------------------------------------------------------------
\* Whatever happens to its hint, an eligible task is looked for within a window
\* of the backstop, the time until the next poll and the time a poll takes, and
\* the time between polls for each mishap.
FoundByBackstop ==
  \A t \in Dispatch : overdue[t] <= Window + PollInterval * (mishaps + 2)

\* While nothing fails, it is looked for within a retry and three polls: the one
\* that moved the hint, the time until the next one, and that one.
FoundByHint ==
  mishaps = 0 => \A t \in Dispatch : overdue[t] <= RetryInterval + 3 * PollInterval

=============================================================================
