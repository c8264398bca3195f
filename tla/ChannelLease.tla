---------------------------- MODULE ChannelLease ----------------------------
(***************************************************************************)
(* The supervisor of channel connections (internal/integrations/channel/   *)
(* engine/supervisor.go) over its two lease stores: Redis keys with a      *)
(* time to live (redis_lease_store.go) and columns of the installation row *)
(* (feishu_channel.go, AcquireChannelWSLease in channel.sql).              *)
(*                                                                         *)
(* One installation.  A Token is one generation of a replica's supervisor  *)
(* goroutine, the value leaseToken composes; a token that nothing refers   *)
(* to any more stands for the next fresh one.  Time is kept as countdowns  *)
(* that Tick decrements: `ttl` of the stored lease, `confirmed` up to      *)
(* confirmedUntil, `grace` up to a deadline the scheduler keeps.           *)
(***************************************************************************)
EXTENDS Integers, FiniteSets

CONSTANTS
  Replica,       \* incarnations of the server process
  Token,         \* generations of supervisor goroutines
  NoToken,
  Nowhere,       \* the replica of a generation that does not run
  Fingerprint,   \* fingerprints of the installation's credentials
  LeaseTTL,      \* Config.LeaseTTL, in ticks
  SafetyMargin,  \* Config.LeaseExpirySafetyMargin
  StatusWait,    \* longest wait of the renewer for the status mutex and write
  CloseWait,     \* longest time Connect takes to return once cancelled
  MaxEvents      \* bound on errors, crashes, pauses and rotations together

ASSUME NamesAssumption ==
  NoToken \notin Token /\ Nowhere \notin Replica /\ Fingerprint # {}
ASSUME TimingAssumption ==
  /\ LeaseTTL \in Nat /\ SafetyMargin \in Nat
  /\ StatusWait \in Nat /\ CloseWait \in Nat
  /\ SafetyMargin < LeaseTTL
  /\ StatusWait + CloseWait < SafetyMargin
ASSUME EventsAssumption == MaxEvents \in Nat

VARIABLES
  backend,      \* "redis" or "postgres" (CHANNEL_WS_LEASE_BACKEND)
  holder,       \* the token in the store, NoToken when absent or lapsed
  ttl,          \* ticks until the stored lease lapses
  connectable,  \* the row is installed and not paused
  row,          \* the fingerprint of the row
  observer,     \* observer_token of the runtime observation row
  delayed,      \* lease requests whose caller gave up but which may still run
  phase,        \* program counter of each generation's goroutine
  confirmed,    \* ticks until its confirmedUntil
  fresh,        \* the confirmedUntil its renewal in flight would give
  grace,        \* ticks left of its StatusWait or CloseWait
  stopping,     \* generations whose context is cancelled
  home,         \* the replica that runs a generation
  supervisors,  \* each replica's supervisors map, for this installation
  sweep,        \* "idle", or the fingerprint the sweep under way has read
  mode,         \* "up", "stopping" (cancelAll has run) or "gone"
  stripped,     \* history: generations whose lease was removed since they acquired it
  events

leaseColumns == <<holder, ttl>>
rowVars == <<backend, connectable, row>>
timers == <<confirmed, fresh, grace>>
runVars == <<phase, timers, stopping, home>>
nodeVars == <<supervisors, sweep, mode>>
leaseVars == <<leaseColumns, rowVars, observer, delayed, runVars, nodeVars, stripped, events>>

Live == {"wait", "renewing", "renewed", "status", "closing"}
Running == Live \ {"closing"}
Holding == {"granted", "claimed"} \cup Live
Phases == {"none", "acquire", "asked", "release", "giveup", "backoff"} \cup Holding

IsLive(t) == phase[t] \in Live
Request == {"acquire", "release"} \X Token
Countdown == -SafetyMargin..LeaseTTL - SafetyMargin

NoEntry == [gen |-> NoToken, fingerprint |-> CHOOSE f \in Fingerprint : TRUE]
Entry == [gen : Token \cup {NoToken}, fingerprint : Fingerprint]

LeaseTypeOK ==
  /\ backend \in {"redis", "postgres"}
  /\ holder \in Token \cup {NoToken}
  /\ ttl \in 0..LeaseTTL
  /\ connectable \in BOOLEAN
  /\ row \in Fingerprint
  /\ observer \in Token \cup {NoToken}
  /\ delayed \in SUBSET Request
  /\ phase \in [Token -> Phases]
  /\ confirmed \in [Token -> Countdown]
  /\ fresh \in [Token -> Countdown]
  /\ grace \in [Token -> 0..StatusWait + CloseWait]
  /\ stopping \in SUBSET Token
  /\ home \in [Token -> Replica \cup {Nowhere}]
  /\ supervisors \in [Replica -> Entry]
  /\ sweep \in [Replica -> Fingerprint \cup {"idle"}]
  /\ mode \in [Replica -> {"up", "stopping", "gone"}]
  /\ stripped \in SUBSET Token
  /\ events \in 0..MaxEvents

LeaseInit ==
  /\ backend \in {"redis", "postgres"}
  /\ holder = NoToken /\ ttl = 0
  /\ connectable = TRUE
  /\ row = CHOOSE f \in Fingerprint : TRUE
  /\ observer = NoToken
  /\ delayed = {}
  /\ phase = [t \in Token |-> "none"]
  /\ confirmed = [t \in Token |-> 0]
  /\ fresh = [t \in Token |-> 0]
  /\ grace = [t \in Token |-> 0]
  /\ stopping = {}
  /\ home = [t \in Token |-> Nowhere]
  /\ supervisors = [n \in Replica |-> NoEntry]
  /\ sweep = [n \in Replica |-> "idle"]
  /\ mode = [n \in Replica |-> "up"]
  /\ stripped = {}
  /\ events = 0

(* Something the code does not decide: an error, a crash, an operator. *)
Event == events < MaxEvents /\ events' = events + 1
Quiet == UNCHANGED events

-----------------------------------------------------------------------------
(* The store.  Redis starts the time to live when it executes the script,  *)
(* PostgreSQL stores the expiry the caller computed before it asked.       *)

Span(left) == IF backend = "redis" THEN LeaseTTL ELSE left + SafetyMargin

(* The compare-and-set of TryAcquireWSLease and of RenewWSLease. *)
CanAcquire(t) ==
  /\ holder \in {t, NoToken}
  /\ backend = "postgres" => connectable

CanRenew(t) == CanAcquire(t) /\ (backend = "redis" => holder = t)

Grant(t, left) ==
  IF Span(left) > 0
    THEN holder' = t /\ ttl' = Span(left)
    ELSE holder' = NoToken /\ ttl' = 0

(* The lease is gone, and not by the doing of a generation that counts on it. *)
Clear == holder' = NoToken /\ ttl' = 0
Strip == Clear /\ stripped' = stripped \cup {t \in Token : t = holder /\ phase[t] \in Holding}

\* Mutation: the release does not compare the token.
DropAny(t) == Clear

(* ReleaseWSLease: deletes the lease only if it carries the token. *)
Drop(t) == IF holder = t THEN Clear ELSE UNCHANGED leaseColumns

-----------------------------------------------------------------------------
(* The next step of generation t; a countdown it does not read is 0. *)
At(t, p, left, new, due) ==
  /\ phase' = [phase EXCEPT ![t] = p]
  /\ confirmed' = [confirmed EXCEPT ![t] = left]
  /\ fresh' = [fresh EXCEPT ![t] = new]
  /\ grace' = [grace EXCEPT ![t] = due]

Goto(t, p) == At(t, p, 0, 0, 0) /\ UNCHANGED <<stopping, home>>
Keep(t, p) == At(t, p, confirmed[t], 0, 0) /\ UNCHANGED <<stopping, home>>

(* leaseLost: cancelRun, the generation itself goes on. *)
LeaseLost(t) == At(t, "closing", confirmed[t], 0, CloseWait) /\ UNCHANGED <<stopping, home>>

(* Cancelling the context of generations T ends the run contexts under it. *)
Cancel(T) ==
  LET closed == {t \in T : phase[t] \in Running} IN
  /\ stopping' = stopping \cup T
  /\ phase' = [t \in Token |-> IF t \in closed THEN "closing" ELSE phase[t]]
  /\ fresh' = [t \in Token |-> IF t \in closed THEN 0 ELSE fresh[t]]
  /\ grace' = [t \in Token |-> IF t \in closed THEN CloseWait ELSE grace[t]]
  /\ UNCHANGED <<confirmed, home>>

\* Mutation: the entry of the map outlives the goroutine.
ExitKeepingEntry(t) ==
  /\ At(t, "none", 0, 0, 0)
  /\ stopping' = stopping \ {t}
  /\ home' = [home EXCEPT ![t] = Nowhere]
  /\ UNCHANGED nodeVars

(* The goroutine returns; a map entry goes only if it is still its own. *)
Exit(t) ==
  /\ At(t, "none", 0, 0, 0)
  /\ stopping' = stopping \ {t}
  /\ home' = [home EXCEPT ![t] = Nowhere]
  /\ supervisors' = [n \in Replica |->
       IF supervisors[n].gen = t THEN NoEntry ELSE supervisors[n]]
  /\ UNCHANGED <<sweep, mode>>

-----------------------------------------------------------------------------
(* Sweep: read the rows, cancel on rotation or when no longer connectable. *)
SweepList(n) ==
  LET e == supervisors[n] IN
  /\ mode[n] = "up" /\ sweep[n] = "idle"
  /\ IF e = NoEntry THEN connectable ELSE ~connectable \/ e.fingerprint # row
  /\ Cancel({e.gen} \cap Token)
  /\ supervisors' = [supervisors EXCEPT ![n] = NoEntry]
  /\ sweep' = [sweep EXCEPT ![n] = IF connectable THEN row ELSE "idle"]
  /\ UNCHANGED <<leaseColumns, rowVars, observer, delayed, mode, stripped, events>>

(* A token nothing refers to stands for a generation never used before. *)
Unused == {t \in Token : /\ phase[t] = "none" /\ t # holder /\ t # observer
                         /\ \A m \in delayed : m[2] # t}

(* After the bounded wait for rotated predecessors: the batch read of held *)
(* leases (Redis only) and startSupervisor.                                *)
SweepStart(n) ==
  LET t == CHOOSE t \in Unused : TRUE IN
  /\ mode[n] = "up" /\ sweep[n] # "idle"
  /\ backend = "redis" => holder = NoToken
  /\ Unused # {}
  /\ At(t, "acquire", 0, 0, 0)
  /\ home' = [home EXCEPT ![t] = n]
  /\ supervisors' = [supervisors EXCEPT ![n] = [gen |-> t, fingerprint |-> sweep[n]]]
  /\ sweep' = [sweep EXCEPT ![n] = "idle"]
  /\ stripped' = stripped \ {t}
  /\ UNCHANGED <<leaseColumns, rowVars, observer, delayed, stopping, mode, events>>

(* The lease is held by somebody, or the batch read failed. *)
SweepSkip(n) ==
  /\ mode[n] = "up" /\ sweep[n] # "idle"
  /\ backend = "redis"
  /\ IF holder = NoToken THEN Event ELSE Quiet
  /\ sweep' = [sweep EXCEPT ![n] = "idle"]
  /\ UNCHANGED <<leaseColumns, rowVars, observer, delayed, runVars, supervisors, mode, stripped>>

-----------------------------------------------------------------------------
(* supervise: acquire, claim the observer row, run, release, back off. *)

AcquireSend(t) ==
  /\ phase[t] = "acquire" /\ t \notin stopping
  /\ At(t, "asked", LeaseTTL - SafetyMargin, 0, 0)
  /\ UNCHANGED <<leaseColumns, rowVars, observer, delayed, stopping, home, nodeVars,
                 stripped, events>>

AcquireGranted(t) ==
  /\ phase[t] = "asked" /\ CanAcquire(t)
  /\ Grant(t, confirmed[t])
  /\ Keep(t, "granted")
  /\ stripped' = stripped \ {t}
  /\ UNCHANGED <<rowVars, observer, delayed, nodeVars, events>>

AcquireRefused(t) ==
  /\ phase[t] = "asked" /\ ~CanAcquire(t)
  /\ Exit(t)
  /\ UNCHANGED <<leaseColumns, rowVars, observer, delayed, stripped, events>>

(* A transport error, or the context is cancelled while the call is out:   *)
(* the goroutine returns without a release.  The request may have been     *)
(* executed, may be executed later, or never.                              *)
AcquireError(t) ==
  /\ phase[t] \in {"asked", "granted"}
  /\ IF t \in stopping THEN Quiet ELSE Event
  /\ \/ UNCHANGED delayed
     \/ phase[t] = "asked" /\ delayed' = delayed \cup {<<"acquire", t>>}
  /\ Exit(t)
  /\ UNCHANGED <<leaseColumns, rowVars, observer, stripped>>

(* ClaimRuntimeObserver, under a context that ends at confirmedUntil. *)
CanObserve(t) == /\ t \notin stopping /\ confirmed[t] > 0 /\ connectable
                 /\ backend = "postgres" => holder \in {t, NoToken}

ClaimObserver(t) ==
  /\ phase[t] = "granted" /\ CanObserve(t)
  /\ observer' = t
  /\ Keep(t, "claimed")
  /\ UNCHANGED <<leaseColumns, rowVars, delayed, nodeVars, stripped, events>>

\* Mutation: a connection starts although the observer row was not claimed.
ClaimFailsSilently(t) ==
  /\ phase[t] = "granted"
  /\ IF CanObserve(t) THEN Event ELSE Quiet
  /\ Keep(t, "claimed")
  /\ UNCHANGED <<leaseColumns, rowVars, observer, delayed, nodeVars, stripped>>

ClaimFails(t) ==
  /\ phase[t] = "granted"
  /\ IF CanObserve(t) THEN Event ELSE Quiet
  /\ Goto(t, "giveup")
  /\ UNCHANGED <<leaseColumns, rowVars, observer, delayed, nodeVars, stripped>>

(* The time check, Build and the start of Connect and of the renewer.  A   *)
(* cancelled context starts a Connect that is cancelled from the start.    *)
ConnectStart(t) ==
  /\ phase[t] = "claimed"
  /\ IF confirmed[t] > 0
       THEN IF t \in stopping THEN LeaseLost(t) ELSE Keep(t, "wait")
       ELSE Goto(t, "giveup")
  /\ UNCHANGED <<leaseColumns, rowVars, observer, delayed, nodeVars, stripped, events>>

BuildFails(t) ==
  /\ phase[t] = "claimed" /\ confirmed[t] > 0 /\ Event
  /\ Goto(t, "release")
  /\ UNCHANGED <<leaseColumns, rowVars, observer, delayed, nodeVars, stripped>>

(* Connect returns: the provider closed the link, or the run context is    *)
(* done.  The renewer has been joined before the release.                  *)
ConnectEnds(t) ==
  /\ IsLive(t)
  /\ Goto(t, "release")
  /\ UNCHANGED <<leaseColumns, rowVars, observer, delayed, nodeVars, stripped, events>>

(* releaseLease and what follows it.  A release that timed out may be      *)
(* executed by the store later.                                            *)
Release(t) ==
  /\ phase[t] \in {"release", "giveup"}
  /\ \/ Drop(t) /\ Quiet /\ UNCHANGED delayed
     \/ Event /\ UNCHANGED <<leaseColumns, delayed>>
     \/ Event /\ UNCHANGED leaseColumns /\ delayed' = delayed \cup {<<"release", t>>}
  /\ IF phase[t] = "giveup" \/ t \in stopping
       THEN Exit(t)
       ELSE Goto(t, "backoff") /\ UNCHANGED nodeVars
  /\ UNCHANGED <<rowVars, observer, stripped>>

BackoffOver(t) ==
  /\ phase[t] = "backoff" /\ t \notin stopping
  /\ Goto(t, "acquire")
  /\ UNCHANGED <<leaseColumns, rowVars, observer, delayed, nodeVars, stripped, events>>

(* The cancelled context is seen before the next attempt or in the sleep. *)
SuperviseStops(t) ==
  /\ phase[t] \in {"acquire", "backoff"} /\ t \in stopping
  /\ Exit(t)
  /\ UNCHANGED <<leaseColumns, rowVars, observer, delayed, stripped, events>>

-----------------------------------------------------------------------------
(* renewLeaseUntil: the renewer of a running connection. *)

RenewSend(t) ==
  /\ phase[t] = "wait" /\ confirmed[t] > 0
  /\ At(t, "renewing", confirmed[t], LeaseTTL - SafetyMargin, 0)
  /\ UNCHANGED <<leaseColumns, rowVars, observer, delayed, stopping, home, nodeVars,
                 stripped, events>>

RenewGranted(t) ==
  /\ phase[t] = "renewing" /\ CanRenew(t)
  /\ Grant(t, fresh[t])
  /\ At(t, "renewed", confirmed[t], fresh[t], 0)
  /\ UNCHANGED <<rowVars, observer, delayed, stopping, home, nodeVars, stripped, events>>

RenewRefused(t) ==
  /\ phase[t] = "renewing" /\ ~CanRenew(t)
  /\ LeaseLost(t)
  /\ UNCHANGED <<leaseColumns, rowVars, observer, delayed, nodeVars, stripped, events>>

(* The answer arrives: a new confirmedUntil, then the status is written. *)
RenewAnswered(t) ==
  /\ phase[t] = "renewed"
  /\ At(t, "status", fresh[t], 0, StatusWait)
  /\ UNCHANGED <<leaseColumns, rowVars, observer, delayed, stopping, home, nodeVars,
                 stripped, events>>

(* A transport error or the deadline of the attempt: confirmedUntil stays. *)
RenewError(t) ==
  /\ phase[t] \in {"renewing", "renewed"}
  /\ IF confirmed[t] > 0 THEN Event ELSE Quiet
  /\ At(t, "status", confirmed[t], 0, StatusWait)
  /\ UNCHANGED <<leaseColumns, rowVars, observer, delayed, stopping, home, nodeVars,
                 stripped>>

StatusWritten(t) ==
  /\ phase[t] = "status"
  /\ Keep(t, "wait")
  /\ UNCHANGED <<leaseColumns, rowVars, observer, delayed, nodeVars, stripped, events>>

\* Mutation: a connection whose renewals fail is kept up.
RenewAnyway(t) ==
  /\ phase[t] = "wait" /\ confirmed[t] <= 0
  /\ At(t, "renewing", confirmed[t], LeaseTTL - SafetyMargin, 0)
  /\ UNCHANGED <<leaseColumns, rowVars, observer, delayed, stopping, home, nodeVars,
                 stripped, events>>

RenewExpired(t) ==
  /\ phase[t] = "wait" /\ confirmed[t] <= 0
  /\ LeaseLost(t)
  /\ UNCHANGED <<leaseColumns, rowVars, observer, delayed, nodeVars, stripped, events>>

-----------------------------------------------------------------------------
(* Requests that run late, operators, crashes, shutdown and time. *)

(* A late acquisition is granted for at most the whole time to live. *)
DelayedRuns(m) ==
  /\ m \in delayed
  /\ delayed' = delayed \ {m}
  /\ CASE m[1] = "release" /\ holder = m[2] -> Strip
       [] m[1] = "acquire" /\ CanAcquire(m[2]) ->
            holder' = m[2] /\ ttl' = LeaseTTL /\ UNCHANGED stripped
       [] OTHER -> UNCHANGED <<leaseColumns, stripped>>
  /\ UNCHANGED <<rowVars, observer, runVars, nodeVars, events>>

(* Reconcile of the hosted capacity: pausing clears the columns of the     *)
(* lease, a Redis key stays.                                               *)
Pause ==
  /\ connectable /\ Event
  /\ connectable' = FALSE
  /\ IF backend = "postgres" THEN Strip ELSE UNCHANGED <<leaseColumns, stripped>>
  /\ UNCHANGED <<backend, row, observer, delayed, runVars, nodeVars>>

Resume ==
  /\ ~connectable
  /\ connectable' = TRUE
  /\ UNCHANGED <<leaseColumns, backend, row, observer, delayed, runVars, nodeVars,
                 stripped, events>>

Rotate ==
  /\ Event
  /\ \E f \in Fingerprint \ {row} : row' = f
  /\ UNCHANGED <<leaseColumns, backend, connectable, observer, delayed, runVars,
                 nodeVars, stripped>>

(* Run's context ends: cancelAll, and every goroutine under it. *)
Shutdown(n) ==
  /\ mode[n] = "up" /\ Event
  /\ mode' = [mode EXCEPT ![n] = "stopping"]
  /\ Cancel({t \in Token : home[t] = n})
  /\ supervisors' = [supervisors EXCEPT ![n] = NoEntry]
  /\ sweep' = [sweep EXCEPT ![n] = "idle"]
  /\ UNCHANGED <<leaseColumns, rowVars, observer, delayed, stripped>>

(* The process ends: a crash, or the end of WaitWithTimeout. *)
ProcessEnds(n) ==
  LET here == {t \in Token : home[t] = n} IN
  /\ mode[n] # "gone"
  /\ IF mode[n] = "stopping" THEN Quiet ELSE Event
  /\ mode' = [mode EXCEPT ![n] = "gone"]
  /\ phase' = [t \in Token |-> IF t \in here THEN "none" ELSE phase[t]]
  /\ confirmed' = [t \in Token |-> IF t \in here THEN 0 ELSE confirmed[t]]
  /\ fresh' = [t \in Token |-> IF t \in here THEN 0 ELSE fresh[t]]
  /\ grace' = [t \in Token |-> IF t \in here THEN 0 ELSE grace[t]]
  /\ stopping' = stopping \ here
  /\ home' = [t \in Token |-> IF t \in here THEN Nowhere ELSE home[t]]
  /\ supervisors' = [supervisors EXCEPT ![n] = NoEntry]
  /\ sweep' = [sweep EXCEPT ![n] = "idle"]
  /\ UNCHANGED <<leaseColumns, rowVars, observer, delayed, stripped>>

(* The deadlines the scheduler of a live process keeps: a timer that fired *)
(* is served, a status write ends, a cancelled Connect returns.            *)
OnTime(t) ==
  /\ phase[t] \in {"wait", "renewing", "renewed"} => confirmed[t] > 0
  /\ phase[t] \in {"status", "closing"} => grace[t] > 0

Older(left, counts) == IF counts /\ left > -SafetyMargin THEN left - 1 ELSE left

Tick ==
  /\ \A t \in Token : OnTime(t)
  /\ ttl' = IF ttl > 0 THEN ttl - 1 ELSE 0
  /\ holder' = IF ttl > 1 THEN holder ELSE NoToken
  /\ confirmed' = [t \in Token |->
       Older(confirmed[t], phase[t] \in Holding \cup {"asked"})]
  /\ fresh' = [t \in Token |-> Older(fresh[t], phase[t] \in {"renewing", "renewed"})]
  /\ grace' = [t \in Token |->
       IF phase[t] \in {"status", "closing"} THEN grace[t] - 1 ELSE grace[t]]
  /\ UNCHANGED <<rowVars, observer, delayed, phase, stopping, home, nodeVars, stripped,
                 events>>

-----------------------------------------------------------------------------
Supervise(t) ==
  \/ AcquireSend(t) \/ AcquireGranted(t) \/ AcquireRefused(t) \/ AcquireError(t)
  \/ ClaimObserver(t) \/ ClaimFails(t) \/ ConnectStart(t) \/ BuildFails(t)
  \/ ConnectEnds(t) \/ Release(t) \/ BackoffOver(t) \/ SuperviseStops(t)

Renew(t) ==
  \/ RenewSend(t) \/ RenewGranted(t) \/ RenewRefused(t) \/ RenewAnswered(t)
  \/ RenewError(t) \/ StatusWritten(t) \/ RenewExpired(t)

SweepStep(n) == SweepList(n) \/ SweepStart(n) \/ SweepSkip(n)

LeaseNext ==
  \/ \E t \in Token : Supervise(t) \/ Renew(t)
  \/ \E n \in Replica : SweepStep(n) \/ Shutdown(n) \/ ProcessEnds(n)
  \/ \E m \in delayed : DelayedRuns(m)
  \/ Pause \/ Resume \/ Rotate \/ Tick

(* Fairness: the replicas and goroutines that run get on, calls return, and *)
(* time passes.  Nothing is assumed of errors and of links that hold.       *)
Progress(t) ==
  \/ AcquireSend(t) \/ AcquireGranted(t) \/ AcquireRefused(t)
  \/ (t \in stopping /\ AcquireError(t))
  \/ ClaimObserver(t) \/ (~CanObserve(t) /\ ClaimFails(t)) \/ ConnectStart(t)
  \/ (phase[t] = "closing" /\ ConnectEnds(t))
  \/ Release(t) \/ BackoffOver(t) \/ SuperviseStops(t)

LeaseFairness ==
  /\ \A t \in Token : WF_leaseVars(Progress(t)) /\ WF_leaseVars(Renew(t))
  /\ \A n \in Replica : WF_leaseVars(SweepStep(n))
  /\ WF_leaseVars(\E m \in delayed : DelayedRuns(m))
  /\ SF_leaseVars(Tick)

LeaseSpec == LeaseInit /\ [][LeaseNext]_leaseVars
FairLeaseSpec == LeaseSpec /\ LeaseFairness

-----------------------------------------------------------------------------
(* At most one supervisor keeps a connection of the installation open,     *)
(* across replicas, rotations, errors, crashes and lapsed leases, except   *)
(* next to one whose lease somebody else removed.                          *)
OneConnection ==
  \A t, u \in Token : IsLive(t) /\ IsLive(u) /\ t # u => t \in stripped \/ u \in stripped

(* A connection is closed before its stored lease can lapse. *)
ClosedInTime == \A t \in Token : IsLive(t) => confirmed[t] > -SafetyMargin

(* The connection whose lease stands is the one whose observations the     *)
(* store accepts, so its status is never frozen by a superseded generation *)
(* (unless that one had lost its lease to a third party).                  *)
LiveIsObserved ==
  \A t \in Token : IsLive(t) /\ t \notin stripped => observer = t \/ observer \in stripped

(* While the installation stays connectable and a replica runs, its lease  *)
(* is taken again and again: no dead owner, late request or leftover map   *)
(* entry keeps it from being supervised.                                   *)
LeaseTakenOver ==
  <>[](connectable /\ \E n \in Replica : mode[n] = "up")
    => []<>(\E t \in Token : phase[t] \in Holding)

=============================================================================
