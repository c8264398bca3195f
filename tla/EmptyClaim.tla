----------------------------- MODULE EmptyClaim -----------------------------
(***************************************************************************)
(* The negative claim cache of ONE runtime: service/empty_claim_cache.go   *)
(* and its users in service/task.go.  A claim request that finds no queued *)
(* row stores the verdict "empty", tagged with the version it sampled      *)
(* before its SELECT; an enqueue commits its row and then bumps the        *)
(* version; a verdict is believed only while its tag is the current        *)
(* version.  Requests, enqueues and Redis failures interleave freely.      *)
(***************************************************************************)
EXTENDS Naturals, FiniteSets

CONSTANTS
  Task,        \* rows of agent_task_queue that this runtime may come to own
  Legacy,      \* the rows queued under a legacy runtime that is merged later
  Claimer,     \* claim requests in flight at once, over all server replicas
  RedisErrors, \* TRUE when a Redis command may fail
  MaxVersion,  \* bound on the version counter
  MaxFault     \* bound on server crashes and failed claim deliveries

ASSUME LegacyAssumption == Legacy \subseteq Task
ASSUME BoundAssumption  == MaxVersion \in Nat /\ MaxFault \in Nat
ASSUME ErrorAssumption  == RedisErrors \in BOOLEAN

Version == 0 .. MaxVersion

VARIABLES
  unborn,   \* rows no request has inserted yet
  legacy,   \* rows still queued under the legacy runtime
  queued,   \* committed rows in status queued of this runtime
  claimed,  \* rows handed to a daemon
  unbumped, \* rows committed as queued whose Bump has not run yet
  hinted,   \* queued rows some Bump has succeeded for since they were queued
  version,  \* the invalidation counter, 0 when the key is absent
  verdict,  \* the tag of the cached verdict, {} when the key is absent
  pc,       \* where each claim request stands
  observed, \* the version each request sampled before its SELECT
  faults    \* crashes and failed deliveries so far

rows == <<unborn, legacy, queued, claimed, unbumped, hinted>>
vars == <<rows, version, verdict, pc, observed, faults>>

TypeOK ==
  /\ unborn \subseteq Task /\ legacy \subseteq Legacy
  /\ queued \subseteq Task /\ claimed \subseteq Task
  /\ unbumped \subseteq Task /\ hinted \subseteq queued
  /\ queued \cap (unborn \cup legacy \cup claimed) = {}
  /\ claimed \cap (unborn \cup legacy) = {} /\ unborn \cap legacy = {}
  /\ version \in Version
  /\ verdict \in SUBSET Version
  /\ pc \in [Claimer -> {"idle", "sample", "select", "claim", "mark"}]
  /\ observed \in [Claimer -> Version]
  /\ faults \in 0 .. MaxFault

Init ==
  /\ unborn = Task \ Legacy /\ legacy = Legacy
  /\ queued = {} /\ claimed = {} /\ unbumped = {} /\ hinted = {}
  /\ version = 0 /\ verdict = {}
  /\ pc = [c \in Claimer |-> "idle"]
  /\ observed = [c \in Claimer |-> 0]
  /\ faults = 0

-----------------------------------------------------------------------------
(* The cache. *)

\* IsEmpty's verdict: the MGET reads tag and version in one command, and a
\* missing version key stands for 0.
Believed == version \in verdict

\* The MGET of IsEmpty, first cache read of a claim.  A hit ends the request
\* without a SELECT; a miss, or a Redis error, goes on.
IsEmpty(c) ==
  /\ pc[c] = "idle"
  /\ \/ Believed /\ UNCHANGED pc
     \/ /\ ~Believed \/ RedisErrors
        /\ pc' = [pc EXCEPT ![c] = "sample"]
  /\ UNCHANGED <<rows, version, verdict, observed, faults>>

\* CurrentVersion, read before the SELECT: the counter, or 0 on any error.
CurrentVersion(c) ==
  /\ pc[c] = "sample"
  /\ \E v \in {version} \cup (IF RedisErrors THEN {0} ELSE {}) :
       observed' = [observed EXCEPT ![c] = v]
  /\ pc' = [pc EXCEPT ![c] = "select"]
  /\ UNCHANGED <<rows, version, verdict, faults>>

\* ListQueuedClaimCandidatesByRuntime: an empty list leads to MarkEmpty.  The
\* rows are those the query lets through: of agents the runtime may serve, and
\* with their creation published.  A row counts as inserted when
\* ActivateIssueCreatedTask lets it through, which a bump follows as well.
Select(c) ==
  /\ pc[c] = "select"
  /\ pc' = [pc EXCEPT ![c] = IF queued = {} THEN "mark" ELSE "claim"]
  /\ UNCHANGED <<rows, version, verdict, observed, faults>>

\* The claim loop over the listed rows: by now another request may have taken
\* them, or their agents be at their limits, so it may end empty-handed.
Claim(c) ==
  /\ pc[c] = "claim"
  /\ \E taken \in SUBSET queued :
       /\ Cardinality(taken) <= 1
       /\ queued' = queued \ taken
       /\ claimed' = claimed \cup taken
       /\ hinted' = hinted \ taken
  /\ pc' = [pc EXCEPT ![c] = "idle"]
  /\ UNCHANGED <<unborn, legacy, unbumped, version, verdict, observed, faults>>

\* Mutation: the verdict is tagged with the version of the moment it is written.
MarkEmptyNow(c) ==
  /\ pc[c] = "mark"
  /\ verdict' = {version} \/ (RedisErrors /\ UNCHANGED verdict)
  /\ pc' = [pc EXCEPT ![c] = "idle"]
  /\ UNCHANGED <<rows, version, observed, faults>>

\* MarkEmpty with the version sampled before the SELECT; an error is swallowed.
MarkEmpty(c) ==
  /\ pc[c] = "mark"
  /\ \/ verdict' = {observed[c]}
     \/ RedisErrors /\ UNCHANGED verdict
  /\ pc' = [pc EXCEPT ![c] = "idle"]
  /\ UNCHANGED <<rows, version, observed, faults>>

\* Mutation: the verdict is written without a TTL.
VerdictKept == FALSE /\ UNCHANGED vars

\* EmptyClaimCacheTTL runs out.
VerdictExpires ==
  /\ verdict # {}
  /\ verdict' = {}
  /\ UNCHANGED <<rows, version, pc, observed, faults>>

\* emptyClaimVersionTTL is a day and slides: a day without a Bump or a read
\* outlives every verdict (three minutes) and every request in flight.
VersionExpires ==
  /\ version # 0 /\ verdict = {} /\ unbumped = {}
  /\ \A c \in Claimer : pc[c] = "idle"
  /\ version' = 0
  /\ UNCHANGED <<rows, verdict, pc, observed, faults>>

-----------------------------------------------------------------------------
(* The writers of the queue. *)

\* Room left for the Bumps of rows already committed and one more.
RoomToBump == version + Cardinality(unbumped) < MaxVersion

\* An enqueue, or the promotion of a deferred row, commits a queued row.
Enqueue(t) ==
  /\ t \in unborn /\ RoomToBump
  /\ unborn' = unborn \ {t}
  /\ queued' = queued \cup {t}
  /\ unbumped' = unbumped \cup {t}
  /\ UNCHANGED <<legacy, claimed, hinted, version, verdict, pc, observed, faults>>

\* INCR in one pipeline, or an error that is logged and swallowed.  One
\* successful Bump speaks for every row that is queued when it runs.
Bump ==
  \/ version' = version + 1 /\ hinted' = queued
  \/ RedisErrors /\ UNCHANGED <<version, hinted>>

\* notifyTaskAvailable: the Bump that follows the commit, before the wakeup.
NotifyTaskAvailable(t) ==
  /\ t \in unbumped
  /\ unbumped' = unbumped \ {t}
  /\ Bump
  /\ UNCHANGED <<unborn, legacy, queued, claimed, verdict, pc, observed, faults>>

\* RequeueTaskAfterClaimFailure: the response could not be delivered, the row
\* goes back to queued and is announced like a new one.
RequeueTaskAfterClaimFailure(t) ==
  /\ t \in claimed /\ t \notin unbumped /\ RoomToBump /\ faults < MaxFault
  /\ claimed' = claimed \ {t}
  /\ queued' = queued \cup {t}
  /\ unbumped' = unbumped \cup {t}
  /\ faults' = faults + 1
  /\ UNCHANGED <<unborn, legacy, hinted, version, verdict, pc, observed>>

\* NotifyTaskFinished: a claimed task reached a terminal state, which may
\* release capacity, so the verdict is invalidated as well.
NotifyTaskFinished(t) ==
  /\ t \in claimed /\ t \notin unbumped /\ RoomToBump
  /\ claimed' = claimed \ {t}
  /\ Bump
  /\ UNCHANGED <<unborn, legacy, queued, unbumped, verdict, pc, observed, faults>>

\* Mutation: the merge runs twice over the same legacy rows.
MergeLegacyRuntimeAgain ==
  /\ legacy # {}
  /\ queued' = queued \cup legacy
  /\ UNCHANGED <<unborn, legacy, claimed, unbumped, hinted, version, verdict, pc, observed, faults>>

\* mergeLegacyRuntime: one transaction moves the legacy runtime's queued rows
\* here.  Nothing is bumped.
MergeLegacyRuntime ==
  /\ legacy # {}
  /\ queued' = queued \cup legacy
  /\ legacy' = {}
  /\ UNCHANGED <<unborn, claimed, unbumped, hinted, version, verdict, pc, observed, faults>>

\* The server dies: requests in flight end, Bumps still due are never sent.
ServerCrash ==
  /\ faults < MaxFault
  /\ faults' = faults + 1
  /\ pc' = [c \in Claimer |-> "idle"]
  /\ unbumped' = {}
  /\ UNCHANGED <<unborn, legacy, queued, claimed, hinted, version, verdict, observed>>

Request(c) == IsEmpty(c) \/ CurrentVersion(c) \/ Select(c) \/ Claim(c) \/ MarkEmpty(c)

Write(t) ==
  \/ Enqueue(t) \/ NotifyTaskAvailable(t)
  \/ RequeueTaskAfterClaimFailure(t) \/ NotifyTaskFinished(t)

Next ==
  \/ \E c \in Claimer : Request(c)
  \/ \E t \in Task : Write(t)
  \/ VerdictExpires \/ VersionExpires \/ MergeLegacyRuntime \/ ServerCrash

Spec == Init /\ [][Next]_vars

\* Daemons poll for ever, so every request that can go on without the help of
\* a Redis error does, and Redis removes a verdict whose time has run out.
Fairness ==
  /\ \A c \in Claimer : WF_vars(Request(c) /\ (pc[c] = "idle" => ~Believed))
  /\ WF_vars(VerdictExpires)

FairSpec == Spec /\ Fairness

-----------------------------------------------------------------------------
(* Properties. *)

\* The version tag closes the race it was built for (empty_claim_cache.go,
\* 13-33): once a Bump has succeeded after a row was queued, no verdict that
\* a slow claim writes, however late, hides the row from the next claim.
AnnouncedTaskVisible == queued \cap hinted # {} => ~Believed

\* task.go, 3798-3802: with Redis up and no crash, a queued task whose enqueue
\* has returned is claimable on the next call, not after the verdict's TTL.
QueuedTaskClaimableOnNextCall == queued \ unbumped # {} => ~Believed

\* A dropped Bump, a crash before the Bump or a merge delays a queued row by
\* at most the verdict's TTL: some claim reaches the claim loop with the row
\* still queued, or the row is no longer queued.
QueuedTaskReachesClaim ==
  \A t \in Task : t \in queued ~> (t \notin queued \/ \E c \in Claimer : pc[c] = "claim")
=============================================================================
