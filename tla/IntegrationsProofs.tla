------------------------- MODULE IntegrationsProofs -------------------------
(***************************************************************************)
(* Proofs about the modules that talk to services outside.                 *)
(*                                                                         *)
(* ChannelLease, for any replicas, generations, durations that satisfy     *)
(* TimingAssumption, and any number of events: a generation reads the      *)
(* clock before it asks the store, so what it believes to have left never  *)
(* exceeds what the store has left by more than the safety margin (Held,   *)
(* Renewal); a connection ends before its belief has run out by the margin *)
(* (Bound).  Both together leave no instant at which the store could grant *)
(* a second generation while the first is still connected.                 *)
(*                                                                         *)
(* MediaLedger, for any reconcilers, passes and slips: what is attached    *)
(* was never up for deletion (LedgerInv).                                  *)
(*                                                                         *)
(* LinearSync, for any workers, attempts and upsets: only the oldest row   *)
(* is worked on, and whoever creates an issue has seen that there is none  *)
(* since its row was claimed first (OldestFirst, Entitled).                *)
(***************************************************************************)
EXTENDS IntegrationsMC, SequenceTheorems, TLAPS

(* ChannelLease. *)

(* How far confirmedUntil may lie in the past, by phase. *)
Bound(t) ==
  /\ phase[t] = "wait" => confirmed[t] >= -StatusWait
  /\ phase[t] \in {"renewing", "renewed"} => confirmed[t] >= 0
  /\ phase[t] = "status" => confirmed[t] >= grace[t] - StatusWait /\ grace[t] <= StatusWait
  /\ phase[t] = "closing" =>
       confirmed[t] >= grace[t] - CloseWait - StatusWait /\ grace[t] <= CloseWait

(* What t believes is covered by the store. *)
Held(t) ==
  phase[t] \in Holding /\ t \notin stripped /\ confirmed[t] > -SafetyMargin
    => holder = t /\ ttl >= confirmed[t] + SafetyMargin

(* So is the belief its renewal in flight will give it. *)
Renewal(t) ==
  /\ phase[t] \in {"renewing", "renewed"} => confirmed[t] <= fresh[t]
  /\ phase[t] = "renewed" /\ t \notin stripped /\ fresh[t] > -SafetyMargin
       => holder = t /\ ttl >= fresh[t] + SafetyMargin

(* A claimed observer row stays claimed while the claim is covered. *)
Seen(t) ==
  phase[t] \in {"claimed"} \cup Live /\ t \notin stripped /\ confirmed[t] > -SafetyMargin
    => observer = t \/ observer \in stripped

LeaseInv ==
  /\ LeaseTypeOK
  /\ \A t \in Token : Bound(t) /\ Held(t) /\ Renewal(t) /\ Seen(t)

-----------------------------------------------------------------------------
(* Initially no generation runs and nothing is held. *)
LEMMA LeaseInitInv == LeaseInit => LeaseInv
<1> SUFFICES ASSUME LeaseInit PROVE LeaseInv
  OBVIOUS
<1> USE NamesAssumption, TimingAssumption, EventsAssumption
<1>1. LeaseTypeOK
  BY DEF Live, Holding, Phases, Request, Countdown, NoEntry, Entry,
         LeaseTypeOK, LeaseInit
<1>2. ASSUME NEW t \in Token PROVE Bound(t) /\ Held(t) /\ Renewal(t) /\ Seen(t)
  BY DEF Live, Holding, NoEntry, LeaseInit, Bound, Held, Renewal, Seen
<1> QED BY <1>1, <1>2 DEF LeaseInv

(* One lemma per step of supervise and renewLeaseUntil. *)

LEMMA AcquireSendKeepsInv ==
  ASSUME LeaseInv, NEW t \in Token, AcquireSend(t) PROVE LeaseInv'
<1> USE NamesAssumption, TimingAssumption, EventsAssumption
<1>1. LeaseTypeOK'
  BY DEF LeaseInv, leaseColumns, rowVars, nodeVars, Live, Holding, Phases, Request,
         Countdown, Entry, LeaseTypeOK, At, AcquireSend
<1>2. ASSUME NEW u \in Token PROVE (Bound(u) /\ Held(u) /\ Renewal(u) /\ Seen(u))'
  BY DEF LeaseInv, leaseColumns, rowVars, nodeVars, Live, Holding, Phases, Request,
         Countdown, Entry, LeaseTypeOK, At, AcquireSend, Bound, Held, Renewal,
         Seen
<1> QED BY <1>1, <1>2 DEF LeaseInv

LEMMA AcquireGrantedKeepsInv ==
  ASSUME LeaseInv, NEW t \in Token, AcquireGranted(t) PROVE LeaseInv'
<1> USE NamesAssumption, TimingAssumption, EventsAssumption
<1>1. LeaseTypeOK'
  BY DEF LeaseInv, rowVars, nodeVars, Live, Holding, Phases, Request, Countdown, Entry,
         LeaseTypeOK, Span, CanAcquire, Grant, At, Keep, AcquireGranted
<1>2. ASSUME NEW u \in Token PROVE (Bound(u) /\ Held(u) /\ Renewal(u) /\ Seen(u))'
  BY DEF LeaseInv, rowVars, nodeVars, Live, Holding, Phases, Request, Countdown, Entry,
         LeaseTypeOK, Span, CanAcquire, Grant, At, Keep, AcquireGranted,
         Bound, Held, Renewal, Seen
<1> QED BY <1>1, <1>2 DEF LeaseInv

LEMMA AcquireRefusedKeepsInv ==
  ASSUME LeaseInv, NEW t \in Token, AcquireRefused(t) PROVE LeaseInv'
<1> USE NamesAssumption, TimingAssumption, EventsAssumption
<1>1. LeaseTypeOK'
  BY DEF LeaseInv, leaseColumns, rowVars, Live, Holding, Phases, Request, Countdown,
         NoEntry, Entry, LeaseTypeOK, CanAcquire, At, Exit, AcquireRefused
<1>2. ASSUME NEW u \in Token PROVE (Bound(u) /\ Held(u) /\ Renewal(u) /\ Seen(u))'
  BY DEF LeaseInv, leaseColumns, rowVars, Live, Holding, Phases, Request, Countdown,
         NoEntry, Entry, LeaseTypeOK, CanAcquire, At, Exit, AcquireRefused,
         Bound, Held, Renewal, Seen
<1> QED BY <1>1, <1>2 DEF LeaseInv

LEMMA AcquireErrorKeepsInv ==
  ASSUME LeaseInv, NEW t \in Token, AcquireError(t) PROVE LeaseInv'
<1> USE NamesAssumption, TimingAssumption, EventsAssumption
<1>1. LeaseTypeOK'
  BY DEF LeaseInv, leaseColumns, rowVars, Live, Holding, Phases, Request, Countdown,
         NoEntry, Entry, LeaseTypeOK, Event, Quiet, At, Exit, AcquireError
<1>2. ASSUME NEW u \in Token PROVE (Bound(u) /\ Held(u) /\ Renewal(u) /\ Seen(u))'
  BY DEF LeaseInv, leaseColumns, rowVars, Live, Holding, Phases, Request, Countdown,
         NoEntry, Entry, LeaseTypeOK, Event, Quiet, At, Exit, AcquireError,
         Bound, Held, Renewal, Seen
<1> QED BY <1>1, <1>2 DEF LeaseInv

LEMMA ClaimObserverKeepsInv ==
  ASSUME LeaseInv, NEW t \in Token, ClaimObserver(t) PROVE LeaseInv'
<1> USE NamesAssumption, TimingAssumption, EventsAssumption
<1>1. LeaseTypeOK'
  BY DEF LeaseInv, leaseColumns, rowVars, nodeVars, Live, Holding, Phases, Request,
         Countdown, Entry, LeaseTypeOK, At, Keep, CanObserve, ClaimObserver
<1>2. ASSUME NEW u \in Token PROVE (Bound(u) /\ Held(u) /\ Renewal(u) /\ Seen(u))'
  BY DEF LeaseInv, leaseColumns, rowVars, nodeVars, Live, Holding, Phases, Request,
         Countdown, Entry, LeaseTypeOK, At, Keep, CanObserve, ClaimObserver,
         Bound, Held, Renewal, Seen
<1> QED BY <1>1, <1>2 DEF LeaseInv

LEMMA ClaimFailsKeepsInv ==
  ASSUME LeaseInv, NEW t \in Token, ClaimFails(t) PROVE LeaseInv'
<1> USE NamesAssumption, TimingAssumption, EventsAssumption
<1>1. LeaseTypeOK'
  BY DEF LeaseInv, leaseColumns, rowVars, nodeVars, Live, Holding, Phases, Request,
         Countdown, Entry, LeaseTypeOK, Event, Quiet, At, Goto, CanObserve,
         ClaimFails
<1>2. ASSUME NEW u \in Token PROVE (Bound(u) /\ Held(u) /\ Renewal(u) /\ Seen(u))'
  BY DEF LeaseInv, leaseColumns, rowVars, nodeVars, Live, Holding, Phases, Request,
         Countdown, Entry, LeaseTypeOK, Event, Quiet, At, Goto, CanObserve,
         ClaimFails, Bound, Held, Renewal, Seen
<1> QED BY <1>1, <1>2 DEF LeaseInv

LEMMA ConnectStartKeepsInv ==
  ASSUME LeaseInv, NEW t \in Token, ConnectStart(t) PROVE LeaseInv'
<1> USE NamesAssumption, TimingAssumption, EventsAssumption
<1>1. LeaseTypeOK'
  BY DEF LeaseInv, leaseColumns, rowVars, nodeVars, Live, Holding, Phases, Request,
         Countdown, Entry, LeaseTypeOK, At, Goto, Keep, LeaseLost,
         ConnectStart
<1>2. ASSUME NEW u \in Token PROVE (Bound(u) /\ Held(u) /\ Renewal(u) /\ Seen(u))'
  BY DEF LeaseInv, leaseColumns, rowVars, nodeVars, Live, Holding, Phases, Request,
         Countdown, Entry, LeaseTypeOK, At, Goto, Keep, LeaseLost,
         ConnectStart, Bound, Held, Renewal, Seen
<1> QED BY <1>1, <1>2 DEF LeaseInv

LEMMA BuildFailsKeepsInv ==
  ASSUME LeaseInv, NEW t \in Token, BuildFails(t) PROVE LeaseInv'
<1> USE NamesAssumption, TimingAssumption, EventsAssumption
<1>1. LeaseTypeOK'
  BY DEF LeaseInv, leaseColumns, rowVars, nodeVars, Live, Holding, Phases, Request,
         Countdown, Entry, LeaseTypeOK, Event, At, Goto, BuildFails
<1>2. ASSUME NEW u \in Token PROVE (Bound(u) /\ Held(u) /\ Renewal(u) /\ Seen(u))'
  BY DEF LeaseInv, leaseColumns, rowVars, nodeVars, Live, Holding, Phases, Request,
         Countdown, Entry, LeaseTypeOK, Event, At, Goto, BuildFails, Bound,
         Held, Renewal, Seen
<1> QED BY <1>1, <1>2 DEF LeaseInv

LEMMA ConnectEndsKeepsInv ==
  ASSUME LeaseInv, NEW t \in Token, ConnectEnds(t) PROVE LeaseInv'
<1> USE NamesAssumption, TimingAssumption, EventsAssumption
<1>1. LeaseTypeOK'
  BY DEF LeaseInv, leaseColumns, rowVars, nodeVars, Live, Holding, Phases, IsLive,
         Request, Countdown, Entry, LeaseTypeOK, At, Goto, ConnectEnds
<1>2. ASSUME NEW u \in Token PROVE (Bound(u) /\ Held(u) /\ Renewal(u) /\ Seen(u))'
  BY DEF LeaseInv, leaseColumns, rowVars, nodeVars, Live, Holding, Phases, IsLive,
         Request, Countdown, Entry, LeaseTypeOK, At, Goto, ConnectEnds, Bound,
         Held, Renewal, Seen
<1> QED BY <1>1, <1>2 DEF LeaseInv

LEMMA ReleaseKeepsInv ==
  ASSUME LeaseInv, NEW t \in Token, Release(t) PROVE LeaseInv'
<1> USE NamesAssumption, TimingAssumption, EventsAssumption
<1>0. \/ Exit(t)
      \/ Goto(t, "backoff") /\ UNCHANGED nodeVars
  BY DEF Release
<1>p. /\ phase' \in [Token -> Phases] /\ confirmed' \in [Token -> Countdown]
      /\ fresh' \in [Token -> Countdown] /\ grace' \in [Token -> 0..StatusWait + CloseWait]
      /\ stopping' \in SUBSET Token /\ home' \in [Token -> Replica \cup {Nowhere}]
      /\ supervisors' \in [Replica -> Entry]
      /\ UNCHANGED <<sweep, mode>>
  <2>1. CASE Exit(t)
    BY <2>1 DEF LeaseInv, LeaseTypeOK, Exit, At, Phases, Countdown, Entry, NoEntry
  <2>2. CASE Goto(t, "backoff") /\ UNCHANGED nodeVars
    BY <2>2 DEF LeaseInv, LeaseTypeOK, Goto, At, nodeVars, Phases, Countdown
  <2> QED BY <1>0, <2>1, <2>2
<1>d. holder' \in Token \cup {NoToken} /\ ttl' \in 0..LeaseTTL
  BY DEF LeaseInv, LeaseTypeOK, leaseColumns, Clear, Drop, Release
<1>q. delayed' \in SUBSET Request
  BY DEF LeaseInv, LeaseTypeOK, Request, Release
<1>e. events' \in 0..MaxEvents
  BY DEF LeaseInv, LeaseTypeOK, Event, Quiet, Release
<1>1. LeaseTypeOK'
  BY <1>p, <1>d, <1>q, <1>e DEF LeaseInv, LeaseTypeOK, rowVars, Release
<1>2. ASSUME NEW u \in Token PROVE (Bound(u) /\ Held(u) /\ Renewal(u) /\ Seen(u))'
  BY DEF LeaseInv, leaseColumns, rowVars, nodeVars, Live, Holding, Phases, Request,
         Countdown, NoEntry, Entry, LeaseTypeOK, Event, Quiet, Clear, Drop,
         At, Goto, Exit, Release, Bound, Held, Renewal, Seen
<1> QED BY <1>1, <1>2 DEF LeaseInv

LEMMA BackoffOverKeepsInv ==
  ASSUME LeaseInv, NEW t \in Token, BackoffOver(t) PROVE LeaseInv'
<1> USE NamesAssumption, TimingAssumption, EventsAssumption
<1>1. LeaseTypeOK'
  BY DEF LeaseInv, leaseColumns, rowVars, nodeVars, Live, Holding, Phases, Request,
         Countdown, Entry, LeaseTypeOK, At, Goto, BackoffOver
<1>2. ASSUME NEW u \in Token PROVE (Bound(u) /\ Held(u) /\ Renewal(u) /\ Seen(u))'
  BY DEF LeaseInv, leaseColumns, rowVars, nodeVars, Live, Holding, Phases, Request,
         Countdown, Entry, LeaseTypeOK, At, Goto, BackoffOver, Bound, Held,
         Renewal, Seen
<1> QED BY <1>1, <1>2 DEF LeaseInv

LEMMA SuperviseStopsKeepsInv ==
  ASSUME LeaseInv, NEW t \in Token, SuperviseStops(t) PROVE LeaseInv'
<1> USE NamesAssumption, TimingAssumption, EventsAssumption
<1>1. LeaseTypeOK'
  BY DEF LeaseInv, leaseColumns, rowVars, Live, Holding, Phases, Request, Countdown,
         NoEntry, Entry, LeaseTypeOK, At, Exit, SuperviseStops
<1>2. ASSUME NEW u \in Token PROVE (Bound(u) /\ Held(u) /\ Renewal(u) /\ Seen(u))'
  BY DEF LeaseInv, leaseColumns, rowVars, Live, Holding, Phases, Request, Countdown,
         NoEntry, Entry, LeaseTypeOK, At, Exit, SuperviseStops, Bound, Held,
         Renewal, Seen
<1> QED BY <1>1, <1>2 DEF LeaseInv

LEMMA RenewSendKeepsInv ==
  ASSUME LeaseInv, NEW t \in Token, RenewSend(t) PROVE LeaseInv'
<1> USE NamesAssumption, TimingAssumption, EventsAssumption
<1>1. LeaseTypeOK'
  BY DEF LeaseInv, leaseColumns, rowVars, nodeVars, Live, Holding, Phases, Request,
         Countdown, Entry, LeaseTypeOK, At, RenewSend
<1>2. ASSUME NEW u \in Token PROVE (Bound(u) /\ Held(u) /\ Renewal(u) /\ Seen(u))'
  BY DEF LeaseInv, leaseColumns, rowVars, nodeVars, Live, Holding, Phases, Request,
         Countdown, Entry, LeaseTypeOK, At, RenewSend, Bound, Held, Renewal,
         Seen
<1> QED BY <1>1, <1>2 DEF LeaseInv

LEMMA RenewGrantedKeepsInv ==
  ASSUME LeaseInv, NEW t \in Token, RenewGranted(t) PROVE LeaseInv'
<1> USE NamesAssumption, TimingAssumption, EventsAssumption
<1>1. LeaseTypeOK'
  BY DEF LeaseInv, rowVars, nodeVars, Live, Holding, Phases, Request, Countdown, Entry,
         LeaseTypeOK, Span, CanAcquire, CanRenew, Grant, At, RenewGranted
<1>2. ASSUME NEW u \in Token PROVE (Bound(u) /\ Held(u) /\ Renewal(u) /\ Seen(u))'
  BY DEF LeaseInv, rowVars, nodeVars, Live, Holding, Phases, Request, Countdown, Entry,
         LeaseTypeOK, Span, CanAcquire, CanRenew, Grant, At, RenewGranted,
         Bound, Held, Renewal, Seen
<1> QED BY <1>1, <1>2 DEF LeaseInv

LEMMA RenewRefusedKeepsInv ==
  ASSUME LeaseInv, NEW t \in Token, RenewRefused(t) PROVE LeaseInv'
<1> USE NamesAssumption, TimingAssumption, EventsAssumption
<1>1. LeaseTypeOK'
  BY DEF LeaseInv, leaseColumns, rowVars, nodeVars, Live, Holding, Phases, Request,
         Countdown, Entry, LeaseTypeOK, CanAcquire, CanRenew, At, LeaseLost,
         RenewRefused
<1>2. ASSUME NEW u \in Token PROVE (Bound(u) /\ Held(u) /\ Renewal(u) /\ Seen(u))'
  BY DEF LeaseInv, leaseColumns, rowVars, nodeVars, Live, Holding, Phases, Request,
         Countdown, Entry, LeaseTypeOK, CanAcquire, CanRenew, At, LeaseLost,
         RenewRefused, Bound, Held, Renewal, Seen
<1> QED BY <1>1, <1>2 DEF LeaseInv

LEMMA RenewAnsweredKeepsInv ==
  ASSUME LeaseInv, NEW t \in Token, RenewAnswered(t) PROVE LeaseInv'
<1> USE NamesAssumption, TimingAssumption, EventsAssumption
<1>1. LeaseTypeOK'
  BY DEF LeaseInv, leaseColumns, rowVars, nodeVars, Live, Holding, Phases, Request,
         Countdown, Entry, LeaseTypeOK, At, RenewAnswered
<1>2. ASSUME NEW u \in Token PROVE (Bound(u) /\ Held(u) /\ Renewal(u) /\ Seen(u))'
  BY DEF LeaseInv, leaseColumns, rowVars, nodeVars, Live, Holding, Phases, Request,
         Countdown, Entry, LeaseTypeOK, At, RenewAnswered, Bound, Held,
         Renewal, Seen
<1> QED BY <1>1, <1>2 DEF LeaseInv

LEMMA RenewErrorKeepsInv ==
  ASSUME LeaseInv, NEW t \in Token, RenewError(t) PROVE LeaseInv'
<1> USE NamesAssumption, TimingAssumption, EventsAssumption
<1>1. LeaseTypeOK'
  BY DEF LeaseInv, leaseColumns, rowVars, nodeVars, Live, Holding, Phases, Request,
         Countdown, Entry, LeaseTypeOK, Event, Quiet, At, RenewError
<1>2. ASSUME NEW u \in Token PROVE (Bound(u) /\ Held(u) /\ Renewal(u) /\ Seen(u))'
  BY DEF LeaseInv, leaseColumns, rowVars, nodeVars, Live, Holding, Phases, Request,
         Countdown, Entry, LeaseTypeOK, Event, Quiet, At, RenewError, Bound,
         Held, Renewal, Seen
<1> QED BY <1>1, <1>2 DEF LeaseInv

LEMMA StatusWrittenKeepsInv ==
  ASSUME LeaseInv, NEW t \in Token, StatusWritten(t) PROVE LeaseInv'
<1> USE NamesAssumption, TimingAssumption, EventsAssumption
<1>1. LeaseTypeOK'
  BY DEF LeaseInv, leaseColumns, rowVars, nodeVars, Live, Holding, Phases, Request,
         Countdown, Entry, LeaseTypeOK, At, Keep, StatusWritten
<1>2. ASSUME NEW u \in Token PROVE (Bound(u) /\ Held(u) /\ Renewal(u) /\ Seen(u))'
  BY DEF LeaseInv, leaseColumns, rowVars, nodeVars, Live, Holding, Phases, Request,
         Countdown, Entry, LeaseTypeOK, At, Keep, StatusWritten, Bound, Held,
         Renewal, Seen
<1> QED BY <1>1, <1>2 DEF LeaseInv

LEMMA RenewExpiredKeepsInv ==
  ASSUME LeaseInv, NEW t \in Token, RenewExpired(t) PROVE LeaseInv'
<1> USE NamesAssumption, TimingAssumption, EventsAssumption
<1>1. LeaseTypeOK'
  BY DEF LeaseInv, leaseColumns, rowVars, nodeVars, Live, Holding, Phases, Request,
         Countdown, Entry, LeaseTypeOK, At, LeaseLost, RenewExpired
<1>2. ASSUME NEW u \in Token PROVE (Bound(u) /\ Held(u) /\ Renewal(u) /\ Seen(u))'
  BY DEF LeaseInv, leaseColumns, rowVars, nodeVars, Live, Holding, Phases, Request,
         Countdown, Entry, LeaseTypeOK, At, LeaseLost, RenewExpired, Bound,
         Held, Renewal, Seen
<1> QED BY <1>1, <1>2 DEF LeaseInv

(* The sweep, the end of a process, late requests, operators and time. *)

LEMMA SweepListKeepsInv ==
  ASSUME LeaseInv, NEW n \in Replica, SweepList(n) PROVE LeaseInv'
<1> USE NamesAssumption, TimingAssumption, EventsAssumption
<1>1. LeaseTypeOK'
  BY DEF LeaseInv, leaseColumns, rowVars, Live, Running, Holding, Phases, Request,
         Countdown, NoEntry, Entry, LeaseTypeOK, Cancel, SweepList
<1>2. ASSUME NEW u \in Token PROVE (Bound(u) /\ Held(u) /\ Renewal(u) /\ Seen(u))'
  BY DEF LeaseInv, leaseColumns, rowVars, Live, Running, Holding, Phases, Request,
         Countdown, NoEntry, Entry, LeaseTypeOK, Cancel, SweepList, Bound,
         Held, Renewal, Seen
<1> QED BY <1>1, <1>2 DEF LeaseInv

LEMMA SweepStartKeepsInv ==
  ASSUME LeaseInv, NEW n \in Replica, SweepStart(n) PROVE LeaseInv'
<1> USE NamesAssumption, TimingAssumption, EventsAssumption
<1>1. LeaseTypeOK'
  BY DEF LeaseInv, leaseColumns, rowVars, Live, Holding, Phases, Request, Countdown,
         Entry, LeaseTypeOK, At, Unused, SweepStart
<1>2. ASSUME NEW u \in Token PROVE (Bound(u) /\ Held(u) /\ Renewal(u) /\ Seen(u))'
  BY DEF LeaseInv, leaseColumns, rowVars, Live, Holding, Phases, Request, Countdown,
         Entry, LeaseTypeOK, At, Unused, SweepStart, Bound, Held, Renewal,
         Seen
<1> QED BY <1>1, <1>2 DEF LeaseInv

LEMMA SweepSkipKeepsInv ==
  ASSUME LeaseInv, NEW n \in Replica, SweepSkip(n) PROVE LeaseInv'
<1> USE NamesAssumption, TimingAssumption, EventsAssumption
<1>1. LeaseTypeOK'
  BY DEF LeaseInv, leaseColumns, rowVars, timers, runVars, Live, Holding, Phases,
         Request, Countdown, Entry, LeaseTypeOK, Event, Quiet, SweepSkip
<1>2. ASSUME NEW u \in Token PROVE (Bound(u) /\ Held(u) /\ Renewal(u) /\ Seen(u))'
  BY DEF LeaseInv, leaseColumns, rowVars, timers, runVars, Live, Holding, Phases,
         Request, Countdown, Entry, LeaseTypeOK, Event, Quiet, SweepSkip,
         Bound, Held, Renewal, Seen
<1> QED BY <1>1, <1>2 DEF LeaseInv

LEMMA ShutdownKeepsInv ==
  ASSUME LeaseInv, NEW n \in Replica, Shutdown(n) PROVE LeaseInv'
<1> USE NamesAssumption, TimingAssumption, EventsAssumption
<1>1. LeaseTypeOK'
  BY DEF LeaseInv, leaseColumns, rowVars, Live, Running, Holding, Phases, Request,
         Countdown, NoEntry, Entry, LeaseTypeOK, Event, Cancel, Shutdown
<1>2. ASSUME NEW u \in Token PROVE (Bound(u) /\ Held(u) /\ Renewal(u) /\ Seen(u))'
  BY DEF LeaseInv, leaseColumns, rowVars, Live, Running, Holding, Phases, Request,
         Countdown, NoEntry, Entry, LeaseTypeOK, Event, Cancel, Shutdown,
         Bound, Held, Renewal, Seen
<1> QED BY <1>1, <1>2 DEF LeaseInv

LEMMA ProcessEndsKeepsInv ==
  ASSUME LeaseInv, NEW n \in Replica, ProcessEnds(n) PROVE LeaseInv'
<1> USE NamesAssumption, TimingAssumption, EventsAssumption
<1>1. LeaseTypeOK'
  BY DEF LeaseInv, leaseColumns, rowVars, Live, Holding, Phases, Request, Countdown,
         NoEntry, Entry, LeaseTypeOK, Event, Quiet, ProcessEnds
<1>2. ASSUME NEW u \in Token PROVE (Bound(u) /\ Held(u) /\ Renewal(u) /\ Seen(u))'
  BY DEF LeaseInv, leaseColumns, rowVars, Live, Holding, Phases, Request, Countdown,
         NoEntry, Entry, LeaseTypeOK, Event, Quiet, ProcessEnds, Bound, Held,
         Renewal, Seen
<1> QED BY <1>1, <1>2 DEF LeaseInv

LEMMA DelayedRunsKeepsInv ==
  ASSUME LeaseInv, NEW m \in delayed, DelayedRuns(m) PROVE LeaseInv'
<1> USE NamesAssumption, TimingAssumption, EventsAssumption
<1>1. LeaseTypeOK'
  BY DEF LeaseInv, leaseColumns, rowVars, timers, runVars, nodeVars, Live, Holding,
         Phases, Request, Countdown, Entry, LeaseTypeOK, CanAcquire, Clear,
         Strip, DelayedRuns
<1>2. ASSUME NEW u \in Token PROVE (Bound(u) /\ Held(u) /\ Renewal(u) /\ Seen(u))'
  BY DEF LeaseInv, leaseColumns, rowVars, timers, runVars, nodeVars, Live, Holding,
         Phases, Request, Countdown, Entry, LeaseTypeOK, CanAcquire, Clear,
         Strip, DelayedRuns, Bound, Held, Renewal, Seen
<1> QED BY <1>1, <1>2 DEF LeaseInv

LEMMA PauseKeepsInv ==
  ASSUME LeaseInv, Pause PROVE LeaseInv'
<1> USE NamesAssumption, TimingAssumption, EventsAssumption
<1>0. UNCHANGED <<backend, row, observer, delayed, runVars, nodeVars>> /\ connectable' = FALSE
  BY DEF Pause
<1>s. stripped' \in SUBSET Token /\ holder' \in Token \cup {NoToken} /\ ttl' \in 0..LeaseTTL
  BY DEF LeaseInv, LeaseTypeOK, leaseColumns, Clear, Strip, Pause
<1>e. events' \in 0..MaxEvents
  BY DEF LeaseInv, LeaseTypeOK, Event, Pause
<1>1. LeaseTypeOK'
  BY <1>0, <1>s, <1>e DEF LeaseInv, LeaseTypeOK, runVars, timers, nodeVars
<1>2. ASSUME NEW u \in Token PROVE (Bound(u) /\ Held(u) /\ Renewal(u) /\ Seen(u))'
  BY DEF LeaseInv, leaseColumns, timers, runVars, nodeVars, Live, Holding, Phases,
         Request, Countdown, Entry, LeaseTypeOK, Event, Clear, Strip, Pause,
         Bound, Held, Renewal, Seen
<1> QED BY <1>1, <1>2 DEF LeaseInv

LEMMA ResumeKeepsInv ==
  ASSUME LeaseInv, Resume PROVE LeaseInv'
<1> USE NamesAssumption, TimingAssumption, EventsAssumption
<1>1. LeaseTypeOK'
  BY DEF LeaseInv, leaseColumns, timers, runVars, nodeVars, Live, Holding, Phases,
         Request, Countdown, Entry, LeaseTypeOK, Resume
<1>2. ASSUME NEW u \in Token PROVE (Bound(u) /\ Held(u) /\ Renewal(u) /\ Seen(u))'
  BY DEF LeaseInv, leaseColumns, timers, runVars, nodeVars, Live, Holding, Phases,
         Request, Countdown, Entry, LeaseTypeOK, Resume, Bound, Held, Renewal,
         Seen
<1> QED BY <1>1, <1>2 DEF LeaseInv

LEMMA RotateKeepsInv ==
  ASSUME LeaseInv, Rotate PROVE LeaseInv'
<1> USE NamesAssumption, TimingAssumption, EventsAssumption
<1>1. LeaseTypeOK'
  BY DEF LeaseInv, leaseColumns, timers, runVars, nodeVars, Live, Holding, Phases,
         Request, Countdown, Entry, LeaseTypeOK, Event, Rotate
<1>2. ASSUME NEW u \in Token PROVE (Bound(u) /\ Held(u) /\ Renewal(u) /\ Seen(u))'
  BY DEF LeaseInv, leaseColumns, timers, runVars, nodeVars, Live, Holding, Phases,
         Request, Countdown, Entry, LeaseTypeOK, Event, Rotate, Bound, Held,
         Renewal, Seen
<1> QED BY <1>1, <1>2 DEF LeaseInv

LEMMA TickKeepsInv ==
  ASSUME LeaseInv, Tick PROVE LeaseInv'
<1> USE NamesAssumption, TimingAssumption, EventsAssumption
<1>1. LeaseTypeOK'
  BY DEF LeaseInv, rowVars, nodeVars, Live, Holding, Phases, Request, Countdown, Entry,
         LeaseTypeOK, OnTime, Older, Tick
<1>2. ASSUME NEW u \in Token PROVE (Bound(u) /\ Held(u) /\ Renewal(u) /\ Seen(u))'
  BY DEF LeaseInv, rowVars, nodeVars, Live, Holding, Phases, Request, Countdown, Entry,
         LeaseTypeOK, OnTime, Older, Tick, Bound, Held, Renewal, Seen
<1> QED BY <1>1, <1>2 DEF LeaseInv

-----------------------------------------------------------------------------
LEMMA LeaseStepInv == LeaseInv /\ [LeaseNext]_leaseVars => LeaseInv'
<1> SUFFICES ASSUME LeaseInv, [LeaseNext]_leaseVars PROVE LeaseInv'
  OBVIOUS
<1>1. ASSUME NEW t \in Token, Supervise(t) PROVE LeaseInv'
  BY <1>1, AcquireSendKeepsInv, AcquireGrantedKeepsInv, AcquireRefusedKeepsInv,
     AcquireErrorKeepsInv, ClaimObserverKeepsInv, ClaimFailsKeepsInv,
     ConnectStartKeepsInv, BuildFailsKeepsInv, ConnectEndsKeepsInv, ReleaseKeepsInv,
     BackoffOverKeepsInv, SuperviseStopsKeepsInv DEF Supervise
<1>2. ASSUME NEW t \in Token, Renew(t) PROVE LeaseInv'
  BY <1>2, RenewSendKeepsInv, RenewGrantedKeepsInv, RenewRefusedKeepsInv,
     RenewAnsweredKeepsInv, RenewErrorKeepsInv, StatusWrittenKeepsInv,
     RenewExpiredKeepsInv DEF Renew
<1>3. ASSUME NEW n \in Replica, SweepStep(n) \/ Shutdown(n) \/ ProcessEnds(n)
      PROVE LeaseInv'
  BY <1>3, SweepListKeepsInv, SweepStartKeepsInv, SweepSkipKeepsInv,
     ShutdownKeepsInv, ProcessEndsKeepsInv DEF SweepStep
<1>4. ASSUME NEW m \in delayed, DelayedRuns(m) PROVE LeaseInv'
  BY <1>4, DelayedRunsKeepsInv
<1>5. CASE Pause \/ Resume \/ Rotate \/ Tick
  BY <1>5, PauseKeepsInv, ResumeKeepsInv, RotateKeepsInv, TickKeepsInv
<1>6. CASE UNCHANGED leaseVars
  <2>1. LeaseTypeOK'
    BY <1>6 DEF LeaseInv, LeaseTypeOK, leaseVars, leaseColumns, rowVars, runVars,
                timers, nodeVars
  <2>2. ASSUME NEW u \in Token PROVE (Bound(u) /\ Held(u) /\ Renewal(u) /\ Seen(u))'
    BY <1>6 DEF LeaseInv, Bound, Held, Renewal, Seen, leaseVars, leaseColumns, rowVars,
                runVars, timers, nodeVars
  <2> QED BY <2>1, <2>2 DEF LeaseInv
<1> QED BY <1>1, <1>2, <1>3, <1>4, <1>5, <1>6 DEF LeaseNext

(* The invariant the other theorems about the lease rest on. *)
THEOREM LeaseInvariant == LeaseSpec => []LeaseInv
<1> QED BY LeaseInitInv, LeaseStepInv, PTL DEF LeaseSpec

(* Every variable keeps its type: no countdown of the supervisor runs      *)
(* below the safety margin or above the time to live (supervisor.go).      *)
THEOREM LeaseTypes == LeaseSpec => []LeaseTypeOK
<1>1. LeaseInv => LeaseTypeOK
  BY DEF LeaseInv
<1> QED BY <1>1, LeaseInvariant, PTL

(* A connection is closed before the store may grant its lease again       *)
(* (confirmedUntil and the safety margin, supervisor.go).                  *)
THEOREM ConnectionClosedInTime == LeaseSpec => []ClosedInTime
<1>1. LeaseInv => ClosedInTime
  BY TimingAssumption DEF LeaseInv, ClosedInTime, Bound, IsLive, Live, LeaseTypeOK,
     Countdown
<1> QED BY <1>1, LeaseInvariant, PTL

(* At most one supervisor across all replicas keeps the connection of an   *)
(* installation open, unless its lease was taken from it (supervisor.go).  *)
THEOREM AtMostOneConnection == LeaseSpec => []OneConnection
<1>1. LeaseInv => OneConnection
  <2> SUFFICES ASSUME LeaseInv, NEW t \in Token, NEW u \in Token, IsLive(t), IsLive(u),
                      t \notin stripped, u \notin stripped
               PROVE t = u
    BY DEF OneConnection
  <2>1. confirmed[t] > -SafetyMargin /\ confirmed[u] > -SafetyMargin
    BY TimingAssumption DEF LeaseInv, Bound, IsLive, Live, LeaseTypeOK, Countdown
  <2> QED BY <2>1 DEF LeaseInv, Held, IsLive, Holding
<1> QED BY <1>1, LeaseInvariant, PTL

(* The connected generation is the one whose observations the store        *)
(* accepts (ClaimRuntimeObserver and ObserveRuntime).                      *)
THEOREM ConnectionIsObserved == LeaseSpec => []LiveIsObserved
<1>1. LeaseInv => LiveIsObserved
  <2> SUFFICES ASSUME LeaseInv, NEW t \in Token, IsLive(t), t \notin stripped
               PROVE observer = t \/ observer \in stripped
    BY DEF LiveIsObserved
  <2>1. confirmed[t] > -SafetyMargin
    BY TimingAssumption DEF LeaseInv, Bound, IsLive, Live, LeaseTypeOK, Countdown
  <2> QED BY <2>1 DEF LeaseInv, Seen, IsLive, Holding
<1> QED BY <1>1, LeaseInvariant, PTL

-----------------------------------------------------------------------------
(* MediaLedger. *)

(* No reconciler has had the row, and no delete is on its way. *)
Untouched == (\A w \in Reconciler : settler[w] = "idle") /\ "delete" \notin abandoned

(* An object that a row still points at, or that is attached, is there, and *)
(* nobody has begun to delete it.                                           *)
LedgerInv ==
  /\ LedgerTypeOK
  /\ mediaJob = "start" => intent = "none"
  /\ mediaJob = "start" \/ intent = "pending" \/ attached => Untouched
  /\ mediaJob = "uploaded" /\ intent = "pending" => object
  /\ mediaJob = "binding" => intent = "pending" /\ object
  /\ attached => mediaJob = "over" /\ object /\ intent = "none"

LEMMA LedgerInitInv == LedgerInit => LedgerInv
<1> SUFFICES ASSUME LedgerInit PROVE LedgerInv
  OBVIOUS
<1> USE LedgerAssumption
<1>1. Fresh \in [state : {"deleting", "tombstoned"}, pass : 0 .. Passes - 1]
  BY DEF Fresh
<1>2. seen \in [Reconciler -> [state : {"deleting", "tombstoned"}, pass : 0 .. Passes - 1]]
  BY <1>1, Zenon DEF LedgerInit
<1>3. settler \in [Reconciler -> {"idle", "check", "delete", "write", "release"}]
  BY DEF LedgerInit
<1>4. pass \in 0 .. Passes - 1 /\ slips \in 0 .. MaxSlips
  BY DEF LedgerInit
<1>5. LedgerTypeOK
  <2> HIDE LedgerAssumption
  <2> QED BY <1>2, <1>3, <1>4 DEF LedgerInit, LedgerTypeOK
<1> QED BY <1>5 DEF LedgerInit, LedgerInv, Untouched

LEMMA JobStepsKeepInv ==
  ASSUME LedgerInv, JobStep \/ UploadFails \/ LatePutLands \/ JobEnds \/ BindRollsBack
  PROVE  LedgerInv'
<1> USE LedgerAssumption DEF LedgerInv, LedgerTypeOK, Untouched, ledgerRow, store, Slip
<1>1. CASE Record
  BY <1>1 DEF Record
<1>2. CASE Upload
  BY <1>2 DEF Upload
<1>3. CASE ClaimForBind
  BY <1>3 DEF ClaimForBind
<1>4. CASE BindCommits
  BY <1>4 DEF BindCommits
<1>5. CASE UploadFails
  BY <1>5 DEF UploadFails
<1>6. CASE LatePutLands
  BY <1>6 DEF LatePutLands
<1>7. CASE JobEnds
  BY <1>7 DEF JobEnds
<1>8. CASE BindRollsBack
  BY <1>8 DEF BindRollsBack
<1> QED BY <1>1, <1>2, <1>3, <1>4, <1>5, <1>6, <1>7, <1>8 DEF JobStep

LEMMA ClaimNextKeepsInv ==
  ASSUME LedgerInv, NEW w \in Reconciler, ClaimNext(w) PROVE LedgerInv'
<1> USE LedgerAssumption DEF LedgerInv, LedgerTypeOK, Untouched, ledgerRow, store
<1>1. [state |-> intent', pass |-> pass] \in [state : {"deleting", "tombstoned"}, pass : 0 .. Passes - 1]
  BY DEF ClaimNext
<1>2. seen' \in [Reconciler -> [state : {"deleting", "tombstoned"}, pass : 0 .. Passes - 1]]
  BY <1>1, Zenon DEF ClaimNext
<1> QED BY <1>2 DEF ClaimNext, Due

LEMMA SettleKeepsInv ==
  ASSUME LedgerInv, NEW w \in Reconciler, Settle(w) \/ SettleFails(w) \/ SettlerDies(w)
  PROVE  LedgerInv'
<1> USE LedgerAssumption DEF LedgerInv, LedgerTypeOK, Untouched, ledgerRow, store, Slip
<1>1. CASE CheckReference(w)
  BY <1>1 DEF CheckReference, ClearRow
<1>2. CASE DeleteObject(w)
  BY <1>2 DEF DeleteObject
<1>3. CASE Tombstone(w)
  <2>1. NextPass(seen[w]) \in Nat
    BY DEF NextPass
  <2>2. pass' \in 0 .. Passes - 1
    <3> HIDE DEF NextPass
    <3> QED BY <1>3, <2>1 DEF Tombstone, ClearRow
  <2>3. /\ intent' \in {intent, "none", "tombstoned"}
        /\ lease' \in Reconciler \cup {NoLease} /\ lapsed' \in BOOLEAN
        /\ settler' = [settler EXCEPT ![w] = "idle"] /\ settler[w] = "write"
        /\ UNCHANGED <<mediaJob, attached, object, abandoned, seen, slips>>
    BY <1>3, Zenon DEF Tombstone, ClearRow
  <2> QED BY <2>2, <2>3
<1>4. CASE ReleaseRow(w)
  BY <1>4 DEF ReleaseRow
<1>5. CASE SettleFails(w)
  BY <1>5 DEF SettleFails
<1>6. CASE SettlerDies(w)
  BY <1>6 DEF SettlerDies
<1> QED BY <1>1, <1>2, <1>3, <1>4, <1>5, <1>6 DEF Settle

LEMMA LedgerStepInv == LedgerInv /\ [LedgerNext]_ledgerVars => LedgerInv'
<1> SUFFICES ASSUME LedgerInv, [LedgerNext]_ledgerVars PROVE LedgerInv'
  OBVIOUS
<1> USE LedgerAssumption
<1>1. CASE LeaseExpires
  BY <1>1 DEF LedgerInv, LedgerTypeOK, Untouched, store, Slip, LeaseExpires
<1>2. CASE LateDeleteLands
  BY <1>2 DEF LedgerInv, LedgerTypeOK, Untouched, ledgerRow, LateDeleteLands
<1>3. CASE UNCHANGED ledgerVars
  BY <1>3 DEF LedgerInv, LedgerTypeOK, Untouched, ledgerVars, ledgerRow, store
<1> QED BY <1>1, <1>2, <1>3, JobStepsKeepInv, ClaimNextKeepsInv, SettleKeepsInv DEF LedgerNext

(* The invariant the theorem below rests on. *)
THEOREM LedgerInvariant == LedgerSpec => []LedgerInv
<1> QED BY LedgerInitInv, LedgerStepInv, PTL DEF LedgerSpec

(* What the job attached to a message is never deleted from the store,     *)
(* however many reconcilers, passes, lost leases and late deletes           *)
(* (ClaimNext, Settle).                                                     *)
THEOREM AttachedObjectsStay == LedgerSpec => []NothingDangles
<1>1. LedgerInv => NothingDangles
  BY DEF LedgerInv, Untouched, NothingDangles
<1> QED BY <1>1, LedgerInvariant, PTL

-----------------------------------------------------------------------------
(* LinearSync. *)

OutboxRow == [state : {"open", "done", "dead"}, attempts : Nat, owner : SyncWorker \cup {NoWorker}]
Attempt == [at : Stages, row : Nat, value : Values, link : Nat, target : Nat, time : Nat, stamp : Nat]
Version == [value : Values, time : Nat]
LinkRow == [to : Nat, base : Values, seen : Nat, remoteAt : Nat, event : Nat, status : {"active", "conflict"}]

(* The types, as sets of records and sequences. *)
SyncShapes ==
  /\ local \in Values
  /\ outbox \in Seq(OutboxRow)
  /\ link \in LinkRow
  /\ conflict \in [local : Values, remote : Values]
  /\ remote \in Seq(Version)
  /\ job \in [SyncWorker -> Attempt]
  /\ flying \subseteq [target : Nat, value : Values]
  /\ clock \in Nat /\ late \in Nat /\ upsets \in 0..MaxUpsets /\ crossed \in BOOLEAN

(* Every reference is to a remote issue that exists. *)
Known ==
  /\ link.to <= Len(remote)
  /\ \A i \in DOMAIN remote : remote[i].time \in 1..clock
  /\ \A r \in flying : r.target <= Len(remote)
  /\ twins \subseteq DOMAIN remote

(* What a worker refers to exists. *)
Aimed(w) ==
  /\ job[w].target <= Len(remote) /\ job[w].link <= Len(remote)
  /\ job[w].at \in {"pulled", "fetch", "relinked", "answered"} => job[w].target # 0
  /\ job[w].at \in {"fetch", "prepush", "reload", "relinked"} => job[w].link # 0
  /\ job[w].link # 0 => link.to # 0
  /\ job[w].at \notin {"idle", "pulled"} => job[w].row \in Rows

(* Only the oldest open row has an owner, and a row that is done left a link. *)
OldestFirst ==
  /\ outbox # <<>>
  /\ \A k \in Rows :
       /\ outbox[k].owner # NoWorker =>
            /\ outbox[k].state = "open" /\ outbox[k].attempts > 0
            /\ \A older \in 1..k - 1 : outbox[older].state # "open"
       /\ outbox[k].state = "done" => link.to # 0

(* Attempts are counted up to the limit, and an upset gives one back. *)
Attempted ==
  \A k \in Rows :
    /\ outbox[k].attempts <= MaxAttempts + upsets
    /\ outbox[k].state = "open" /\ outbox[k].owner = NoWorker => outbox[k].attempts < MaxAttempts + upsets

(* No request was carried out after its sender had given it up, and no row was given up. *)
InOrder == late = 0 /\ ~GivenUp

(* A worker that is about to create an issue, and still owns its row, is    *)
(* right that there is none.                                                *)
Entitled(w) ==
  job[w].at \notin {"idle", "pulled"} /\ Owns(w) =>
    /\ job[w].at \in {"claimed", "read", "list"} /\ outbox[job[w].row].attempts = 1 /\ link.to = 0 =>
         remote = <<>>
    /\ job[w].at = "list" => link.to = 0
    /\ job[w].at \in {"send", "sent"} /\ job[w].target = 0 => remote = <<>>

(* While all is in order, the one issue there can be has been attempted. *)
Accounted ==
  InOrder =>
    /\ Len(remote) <= 1
    /\ link.to = 0 /\ remote # <<>> => outbox[1].attempts > 0
    /\ \A w \in SyncWorker : Entitled(w)

SyncInv ==
  /\ SyncShapes /\ Known
  /\ \A w \in SyncWorker : Aimed(w)
  /\ OldestFirst /\ Attempted /\ Accounted

LEMMA SyncInvTypes == SyncInv => SyncTypeOK
<1> SUFFICES ASSUME SyncInv PROVE SyncTypeOK
  OBVIOUS
<1> USE SyncAssumption DEF SyncInv, SyncShapes, Known, Attempted, Rows
<1>1. \A k \in Rows : /\ outbox[k].state \in {"open", "done", "dead"}
                      /\ outbox[k].attempts \in 0..MaxAttempts + MaxUpsets
                      /\ outbox[k].owner \in SyncWorker \cup {NoWorker}
  <2> SUFFICES ASSUME NEW k \in Rows
               PROVE  /\ outbox[k].state \in {"open", "done", "dead"}
                      /\ outbox[k].attempts \in 0..MaxAttempts + MaxUpsets
                      /\ outbox[k].owner \in SyncWorker \cup {NoWorker}
    OBVIOUS
  <2>1. outbox[k] \in OutboxRow
    OBVIOUS
  <2> QED BY <2>1 DEF OutboxRow
<1>2. \A i \in DOMAIN remote : remote[i].value \in Values /\ remote[i].time \in 1..clock
  <2> SUFFICES ASSUME NEW i \in DOMAIN remote PROVE remote[i].value \in Values
    OBVIOUS
  <2>1. remote[i] \in Version
    OBVIOUS
  <2> QED BY <2>1 DEF Version
<1>3. link.to \in 0..Len(remote) /\ link.base \in Values /\ link.status \in {"active", "conflict"}
  BY DEF LinkRow
<1>4. \A w \in SyncWorker : job[w].at \in Stages
  BY DEF Attempt
<1> QED BY <1>1, <1>2, <1>3, <1>4 DEF SyncTypeOK

LEMMA IdleType == Idle \in Attempt /\ Idle.at = "idle" /\ Idle.link = 0 /\ Idle.target = 0
<1>1. 0 \in Values /\ "idle" \in Stages
  BY SyncAssumption DEF Values, Stages
<1> QED BY <1>1 DEF Idle, Attempt

LEMMA SyncInitInv == SyncInit => SyncInv
<1> SUFFICES ASSUME SyncInit PROVE SyncInv
  OBVIOUS
<1> USE SyncAssumption DEF SyncInit
<1>0. 0 \in Values /\ 1 \in Values
  BY DEF Values
<1>1. SyncShapes
  <2>1. NewRow \in OutboxRow
    BY DEF NewRow, OutboxRow
  <2>2. outbox \in Seq(OutboxRow)
    BY <2>1
  <2>4. job \in [SyncWorker -> Attempt]
    BY IdleType, Zenon
  <2>5. link \in LinkRow
    BY <1>0 DEF NoLink, LinkRow
  <2>6. conflict \in [local : Values, remote : Values]
    BY <1>0 DEF NoConflict
  <2>7. remote \in Seq(Version)
    OBVIOUS
  <2>8. local \in Values /\ clock \in Nat /\ late \in Nat /\ upsets \in 0..MaxUpsets
    BY <1>0
  <2>9. flying \subseteq [target : Nat, value : Values] /\ crossed \in BOOLEAN
    BY Zenon
  <2> HIDE DEF SyncInit
  <2> QED BY <2>2, <2>4, <2>5, <2>6, <2>7, <2>8, <2>9 DEF SyncShapes
<1>2. Known
  BY DEF Known, NoLink
<1>3. \A w \in SyncWorker : Aimed(w)
  BY DEF Aimed, Idle, NoLink
<1>4. Len(outbox) = 1 /\ Rows = 1..1 /\ outbox[1] = NewRow /\ outbox # <<>>
  BY DEF Rows
<1>5. OldestFirst
  BY <1>4 DEF OldestFirst, NewRow
<1>6. Attempted
  BY <1>4 DEF Attempted, NewRow
<1>7. Accounted
  BY DEF Accounted, Entitled, Idle
<1> QED BY <1>1, <1>2, <1>3, <1>5, <1>6, <1>7 DEF SyncInv

(* One worker turns to another stage, the fields of the issue or of its link   *)
(* may change, and the rows, Linear's issues and where the link points do not. *)
LEMMA MergeTurns ==
  ASSUME SyncInv, NEW w \in SyncWorker,
         job' = [job EXCEPT ![w] = job'[w]], job'[w] \in Attempt,
         local' \in Values, link' \in LinkRow, link'.to = link.to,
         conflict' \in [local : Values, remote : Values],
         twins' \subseteq DOMAIN remote, crossed' \in BOOLEAN,
         flying' \in SUBSET [target : Nat, value : Values], \A r \in flying' : r.target <= Len(remote),
         UNCHANGED <<outbox, remote, late, clock>>,
         upsets' \in 0..MaxUpsets, upsets <= upsets',
         Aimed(w)', InOrder => Entitled(w)'
  PROVE  SyncInv'
<1> USE SyncAssumption DEF SyncInv
<1>1. SyncShapes'
  <2>1. job' \in [SyncWorker -> Attempt]
    BY DEF SyncShapes
  <2> QED BY <2>1 DEF SyncShapes
<1>2. Known'
  BY DEF Known
<1>3. \A v \in SyncWorker : v # w => job'[v] = job[v]
  BY DEF SyncShapes
<1>4. \A v \in SyncWorker : Aimed(v)'
  <2> SUFFICES ASSUME NEW v \in SyncWorker, v # w PROVE Aimed(v)'
    OBVIOUS
  <2> QED BY <1>3 DEF Aimed, Rows
<1>5. OldestFirst'
  BY DEF OldestFirst, Rows
<1>6. Attempted'
  <2> SUFFICES ASSUME NEW k \in Rows
               PROVE  /\ outbox[k].attempts <= MaxAttempts + upsets'
                      /\ outbox[k].state = "open" /\ outbox[k].owner = NoWorker
                           => outbox[k].attempts < MaxAttempts + upsets'
    BY DEF Attempted, Rows
  <2>1. outbox[k] \in OutboxRow
    BY DEF SyncShapes, Rows
  <2> QED BY <2>1 DEF Attempted, SyncShapes, OutboxRow
<1>7. Accounted'
  <2>1. ASSUME NEW v \in SyncWorker, v # w, Entitled(v) PROVE Entitled(v)'
    BY <1>3, <2>1 DEF Entitled, Owns
  <2> QED BY <2>1 DEF Accounted, InOrder, GivenUp, Rows
<1> QED BY <1>1, <1>2, <1>4, <1>5, <1>6, <1>7

(* The same, and no table changes. *)
LEMMA WorkerTurns ==
  ASSUME SyncInv, NEW w \in SyncWorker,
         job' = [job EXCEPT ![w] = job'[w]], job'[w] \in Attempt,
         flying' \in SUBSET [target : Nat, value : Values], \A r \in flying' : r.target <= Len(remote),
         UNCHANGED <<tables, remote, late, clock, crossed>>,
         upsets' \in 0..MaxUpsets, upsets <= upsets',
         Aimed(w)', InOrder => Entitled(w)'
  PROVE  SyncInv'
  BY MergeTurns DEF tables, SyncInv, SyncShapes, Known

LEMMA AttemptType ==
  ASSUME SyncInv, NEW w \in SyncWorker
  PROVE  job[w] \in Attempt
  BY DEF SyncInv, SyncShapes

(* What the job of a worker becomes. *)
LEMMA TurnsTo ==
  ASSUME SyncInv, NEW w \in SyncWorker, NEW stage \in Stages, Turns(w, stage)
  PROVE  /\ job' = [job EXCEPT ![w] = job'[w]] /\ job'[w] \in Attempt
         /\ job'[w].at = stage
         /\ job'[w].row = job[w].row /\ job'[w].value = job[w].value /\ job'[w].link = job[w].link
         /\ job'[w].target = job[w].target /\ job'[w].time = job[w].time
<1>1. job \in [SyncWorker -> Attempt]
  BY DEF SyncInv, SyncShapes
<1>2. job' = [job EXCEPT ![w] = job'[w]] /\ job'[w] = [job[w] EXCEPT !.at = stage]
  BY <1>1, Zenon DEF Turns, Becomes
<1> QED BY <1>2, AttemptType, Zenon DEF Attempt

LEMMA TurnsIdle ==
  ASSUME SyncInv, NEW w \in SyncWorker, Becomes(w, Idle)
  PROVE  /\ job' = [job EXCEPT ![w] = job'[w]] /\ job'[w] \in Attempt
         /\ job'[w].at = "idle" /\ job'[w].link = 0 /\ job'[w].target = 0
<1>1. job \in [SyncWorker -> Attempt]
  BY DEF SyncInv, SyncShapes
<1>2. job' = [job EXCEPT ![w] = job'[w]] /\ job'[w] = Idle
  BY <1>1, Zenon DEF Becomes
<1> QED BY <1>2, IdleType

LEMMA TurnsFailed ==
  ASSUME SyncInv, NEW w \in SyncWorker, Fails(w)
  PROVE  /\ job' = [job EXCEPT ![w] = job'[w]] /\ job'[w] \in Attempt
         /\ job'[w].at = "failed" /\ job'[w].row = job[w].row /\ job'[w].link = 0 /\ job'[w].target = 0
<1>1. job \in [SyncWorker -> Attempt] /\ "failed" \in Stages
  BY DEF SyncInv, SyncShapes, Stages
<1>2. job' = [job EXCEPT ![w] = job'[w]] /\ job'[w] = [Idle EXCEPT !.at = "failed", !.row = job[w].row]
  BY <1>1, Zenon DEF Fails, Becomes
<1>3. job[w].row \in Nat
  BY AttemptType DEF Attempt
<1> QED BY <1>1, <1>2, <1>3, IdleType, Zenon DEF Attempt

LEMMA PullKeepsInv ==
  ASSUME SyncInv, NEW w \in SyncWorker, Webhook(w) \/ PollRemote(w)
  PROVE  SyncInv'
<1>1. PICK i \in DOMAIN remote, stamp \in Nat : PullAt(w, i, stamp)
  <2>1. CASE Webhook(w)
    BY <2>1 DEF Webhook
  <2>2. CASE PollRemote(w)
    <3>1. PICK i \in DOMAIN remote : PullAt(w, i, remote[i].time)
      BY <2>2 DEF PollRemote
    <3>2. remote[i] \in Version
      BY DEF SyncInv, SyncShapes
    <3> QED BY <3>1, <3>2 DEF Version
  <2> QED BY <2>1, <2>2
<1>2. remote[i] \in Version /\ 1 <= i /\ i <= Len(remote) /\ i \in Nat /\ 0 \in Values
  BY SyncAssumption DEF SyncInv, SyncShapes, Values
<1>3. job'[w] = [Idle EXCEPT !.at = "pulled", !.target = i, !.value = remote[i].value,
                             !.time = remote[i].time, !.stamp = stamp]
  BY <1>1, AttemptType DEF PullAt, Becomes, SyncInv, SyncShapes
<1>4. /\ job'[w] \in Attempt
      /\ job'[w].at = "pulled" /\ job'[w].target = i /\ job'[w].link = 0
  <2>1. /\ "pulled" \in Stages /\ i \in Nat /\ stamp \in Nat
        /\ remote[i].value \in Values /\ remote[i].time \in Nat
    BY <1>2 DEF Version, Stages
  <2> QED BY <1>3, <2>1, IdleType, Zenon DEF Attempt
<1>5. Aimed(w)' /\ Entitled(w)'
  BY <1>1, <1>2, <1>4 DEF Aimed, Entitled, PullAt, provider
<1>6. job' = [job EXCEPT ![w] = job'[w]]
  BY <1>1 DEF PullAt, Becomes, SyncInv, SyncShapes
<1> QED BY <1>1, <1>4, <1>5, <1>6, WorkerTurns, SyncAssumption DEF PullAt, provider, SyncInv, SyncShapes, Known

(* A worker at its job; what Aimed and Entitled say of it. *)
LEMMA ReadIssueKeepsInv ==
  ASSUME SyncInv, NEW w \in SyncWorker, ReadIssue(w) PROVE SyncInv'
<1> DEFINE next == IF job[w].at = "claimed" THEN "read" ELSE "send"
<1>1. job' = [job EXCEPT ![w] = job'[w]] /\ job'[w] = [job[w] EXCEPT !.value = local, !.at = next]
  BY Zenon DEF ReadIssue, Becomes, SyncInv, SyncShapes
<1>2. next \in Stages /\ local \in Values
  BY DEF Stages, Loaded, SyncInv, SyncShapes
<1>3. /\ job'[w] \in Attempt /\ job'[w].at = next /\ job'[w].row = job[w].row
      /\ job'[w].link = job[w].link /\ job'[w].target = job[w].target
  <2> HIDE DEF next
  <2> QED BY <1>1, <1>2, AttemptType, Zenon DEF Attempt
<1>4. Aimed(w)'
  BY <1>3 DEF SyncInv, Aimed, ReadIssue, tables, provider, Rows
<1>5. InOrder => Entitled(w)'
  BY <1>3 DEF SyncInv, Aimed, Accounted, Entitled, Owns, ReadIssue, tables, provider, Rows
<1> QED BY <1>1, <1>3, <1>4, <1>5, WorkerTurns, SyncAssumption
        DEF ReadIssue, provider, SyncInv, SyncShapes, Known

LEMMA ReadLinkKeepsInv ==
  ASSUME SyncInv, NEW w \in SyncWorker, ReadLink(w) PROVE SyncInv'
<1>1. CASE link.status = "conflict"
  <2>1. Fails(w)
    BY <1>1 DEF ReadLink
  <2>2. Aimed(w)' /\ (InOrder => Entitled(w)')
    BY <2>1, TurnsFailed DEF SyncInv, Aimed, Entitled, ReadLink, tables, provider, Rows
  <2> QED BY <2>1, <2>2, TurnsFailed, WorkerTurns, SyncAssumption
          DEF ReadLink, provider, SyncInv, SyncShapes, Known
<1>2. CASE link.status # "conflict"
  <2> DEFINE next == IF job[w].at = "reload" THEN "relinked" ELSE IF link.to = 0 THEN "list" ELSE "fetch"
  <2>1. /\ job' = [job EXCEPT ![w] = job'[w]]
        /\ job'[w] = [job[w] EXCEPT !.link = link.to, !.target = link.to, !.time = link.remoteAt, !.at = next]
    BY <1>2, Zenon DEF ReadLink, Becomes, SyncInv, SyncShapes
  <2>2. next \in Stages /\ link.to \in Nat /\ link.remoteAt \in Nat
    BY DEF Stages, Loaded, SyncInv, SyncShapes, LinkRow
  <2>3. /\ job'[w] \in Attempt /\ job'[w].at = next /\ job'[w].row = job[w].row
        /\ job'[w].link = link.to /\ job'[w].target = link.to
    <3> HIDE DEF next
    <3> QED BY <2>1, <2>2, AttemptType, Zenon DEF Attempt
  <2>4. Aimed(w)'
    BY <2>2, <2>3 DEF SyncInv, Known, Aimed, ReadLink, tables, provider, Rows
  <2>5. InOrder => Entitled(w)'
    BY <2>3 DEF SyncInv, Aimed, Accounted, Entitled, Owns, ReadLink, tables, provider, Rows
  <2> QED BY <2>1, <2>3, <2>4, <2>5, WorkerTurns, SyncAssumption
          DEF ReadLink, provider, SyncInv, SyncShapes, Known
<1> QED BY <1>1, <1>2

LEMMA FetchLinkedKeepsInv ==
  ASSUME SyncInv, NEW w \in SyncWorker, FetchLinked(w) PROVE SyncInv'
<1> DEFINE found == remote[job[w].link]
<1>1. found \in Version
  BY AttemptType DEF FetchLinked, SyncInv, SyncShapes, Aimed, Attempt
<1>2. CASE found.time > job[w].time
  <2>1. /\ job' = [job EXCEPT ![w] = job'[w]]
        /\ job'[w] = [job[w] EXCEPT !.at = "prepush", !.value = found.value, !.time = found.time]
    BY <1>2, Zenon DEF FetchLinked, Becomes, SyncInv, SyncShapes
  <2>2. "prepush" \in Stages /\ found.value \in Values /\ found.time \in Nat
    BY <1>1 DEF Stages, Version
  <2>3. /\ job'[w] \in Attempt /\ job'[w].at = "prepush" /\ job'[w].row = job[w].row
        /\ job'[w].link = job[w].link /\ job'[w].target = job[w].target
    <3> HIDE DEF found
    <3> QED BY <2>1, <2>2, AttemptType, Zenon DEF Attempt
  <2>4. Aimed(w)' /\ (InOrder => Entitled(w)')
    BY <2>3 DEF SyncInv, Aimed, Entitled, FetchLinked, tables, provider, Rows
  <2> QED BY <2>1, <2>3, <2>4, WorkerTurns, SyncAssumption
          DEF FetchLinked, provider, SyncInv, SyncShapes, Known
<1>3. CASE ~(found.time > job[w].time)
  <2>1. Turns(w, "send") /\ "send" \in Stages
    BY <1>3 DEF FetchLinked, Stages, Loaded
  <2>2. Aimed(w)' /\ (InOrder => Entitled(w)')
    BY <2>1, TurnsTo DEF SyncInv, Aimed, Entitled, FetchLinked, tables, provider, Rows
  <2> QED BY <2>1, <2>2, TurnsTo, WorkerTurns, SyncAssumption
          DEF FetchLinked, provider, SyncInv, SyncShapes, Known
<1> QED BY <1>2, <1>3

LEMMA ListByMarkerKeepsInv ==
  ASSUME SyncInv, NEW w \in SyncWorker, ListByMarker(w) PROVE SyncInv'
<1>0. "send" \in Stages
  BY DEF Stages, Loaded
<1>r. job[w].at = "list" /\ UNCHANGED <<tables, provider, crossed, upsets>>
  BY Zenon DEF ListByMarker
<1>1. CASE outbox[job[w].row].attempts > 1 /\ remote # <<>>
  <2>1. PICK i \in DOMAIN remote : Becomes(w, [job[w] EXCEPT !.at = "send", !.target = i])
    BY <1>1 DEF ListByMarker
  <2>2. i \in Nat /\ 1 <= i /\ i <= Len(remote)
    BY DEF SyncInv, SyncShapes
  <2>3. job' = [job EXCEPT ![w] = job'[w]] /\ job'[w] = [job[w] EXCEPT !.at = "send", !.target = i]
    BY <2>1, Zenon DEF Becomes, SyncInv, SyncShapes
  <2>4. /\ job'[w] \in Attempt /\ job'[w].at = "send" /\ job'[w].row = job[w].row
        /\ job'[w].link = job[w].link /\ job'[w].target = i
    BY <1>0, <2>2, <2>3, AttemptType, Zenon DEF Attempt
  <2>5. Aimed(w)' /\ (InOrder => Entitled(w)')
    BY <1>r, <2>2, <2>4 DEF SyncInv, Aimed, Entitled, tables, provider, Rows
  <2> QED BY <1>r, <2>3, <2>4, <2>5, WorkerTurns, SyncAssumption
          DEF provider, SyncInv, SyncShapes, Known
<1>2. CASE ~(outbox[job[w].row].attempts > 1 /\ remote # <<>>)
  <2>1. Turns(w, "send")
    BY <1>2 DEF ListByMarker
  <2>2. Aimed(w)'
    BY <1>r, <1>0, <2>1, TurnsTo DEF SyncInv, Aimed, tables, provider, Rows
  <2>3. InOrder => Entitled(w)'
    <3> SUFFICES ASSUME InOrder, Owns(w), remote # <<>> PROVE FALSE
      BY <1>r, <1>0, <2>1, TurnsTo DEF Entitled, Owns, tables, provider
    <3>1. job[w].row \in Rows /\ outbox[job[w].row] \in OutboxRow
      BY <1>r DEF SyncInv, SyncShapes, Aimed, Rows
    <3>2. outbox[job[w].row].attempts \in Nat /\ outbox[job[w].row].attempts > 0
      BY <3>1, SyncAssumption DEF SyncInv, OldestFirst, Owns, OutboxRow
    <3> QED BY <1>r, <1>2, <3>1, <3>2 DEF SyncInv, Accounted, Entitled
  <2> QED BY <1>r, <1>0, <2>1, <2>2, <2>3, TurnsTo, WorkerTurns, SyncAssumption
          DEF provider, SyncInv, SyncShapes, Known
<1> QED BY <1>1, <1>2

LEMMA SendKeepsInv ==
  ASSUME SyncInv, NEW w \in SyncWorker, Send(w) PROVE SyncInv'
<1>0. "sent" \in Stages
  BY DEF Stages, Loaded
<1>1. CASE Turns(w, "sent")
  <2>1. Aimed(w)' /\ (InOrder => Entitled(w)')
    BY <1>0, <1>1, TurnsTo DEF SyncInv, Aimed, Accounted, Entitled, Owns, Send, tables, provider, Rows
  <2> QED BY <1>0, <1>1, <2>1, TurnsTo, WorkerTurns, SyncAssumption
          DEF Send, provider, SyncInv, SyncShapes, Known
<1>2. CASE Becomes(w, Idle)
  <2>1. Aimed(w)' /\ (InOrder => Entitled(w)')
    BY <1>2, TurnsIdle DEF SyncInv, SyncShapes, Aimed, Entitled, Send, tables, provider, Rows
  <2> QED BY <1>2, <2>1, TurnsIdle, WorkerTurns, SyncAssumption
          DEF Send, provider, SyncInv, SyncShapes, Known
<1> QED BY <1>1, <1>2 DEF Send, IfOwned

(* A request given up is aimed as its sender was. *)
LEMMA FlyingTypes ==
  ASSUME SyncInv, NEW w \in SyncWorker, MayFly(w)
  PROVE  /\ flying' \in SUBSET [target : Nat, value : Values]
         /\ \A r \in flying' : r.target <= Len(remote)
<1>1. [target |-> job[w].target, value |-> job[w].value] \in [target : Nat, value : Values]
  BY AttemptType DEF Attempt
<1> QED BY <1>1 DEF MayFly, SyncInv, SyncShapes, Known, Aimed

LEMMA CancelSentKeepsInv ==
  ASSUME SyncInv, NEW w \in SyncWorker, CancelSent(w) PROVE SyncInv'
<1>1. Aimed(w)' /\ (InOrder => Entitled(w)')
  BY TurnsIdle DEF SyncInv, SyncShapes, Aimed, Entitled, CancelSent, tables, Rows
<1>2. flying' \in SUBSET [target : Nat, value : Values] /\ \A r \in flying' : r.target <= Len(remote)
  BY FlyingTypes DEF CancelSent
<1> QED BY <1>1, <1>2, TurnsIdle, WorkerTurns, SyncAssumption DEF CancelSent, SyncInv, SyncShapes

LEMMA RequestFailsKeepsInv ==
  ASSUME SyncInv, NEW w \in SyncWorker, RequestFails(w) PROVE SyncInv'
<1>1. Aimed(w)' /\ (InOrder => Entitled(w)')
  BY TurnsFailed DEF SyncInv, SyncShapes, Aimed, Entitled, RequestFails, tables, Rows
<1>2. upsets' \in 0..MaxUpsets /\ upsets <= upsets'
  BY SyncAssumption DEF RequestFails, Upset, SyncInv, SyncShapes
<1>3. flying' \in SUBSET [target : Nat, value : Values] /\ \A r \in flying' : r.target <= Len(remote)
  BY FlyingTypes DEF RequestFails, SyncInv, SyncShapes, Known
<1> QED BY <1>1, <1>2, <1>3, TurnsFailed, WorkerTurns DEF RequestFails, SyncInv, SyncShapes

(* What a merge may change. *)
LEMMA ApplyRemoteTypes ==
  ASSUME SyncInv, NEW i \in DOMAIN remote, NEW value \in Values,
         NEW time \in Nat, NEW stamp \in Nat, NEW event \in Nat,
         ApplyRemote(i, value, time, stamp, event)
  PROVE  /\ local' \in Values /\ link' \in LinkRow /\ link'.to = link.to
         /\ conflict' \in [local : Values, remote : Values]
         /\ twins' \subseteq DOMAIN remote /\ crossed' \in BOOLEAN
<1> USE DEF SyncInv, SyncShapes, Known
<1>1. CASE UNCHANGED <<local, link, conflict, crossed>> /\ twins' \in {twins, twins \cup {i}}
  BY <1>1
<1>2. CASE Merge(value, time, stamp, event)
  <2> DEFINE clash == local # link.base /\ value # link.base /\ local # value
             base == IF clash THEN local ELSE value
             status == IF clash THEN "conflict" ELSE "active"
  <2>1. local' \in Values /\ twins' = twins /\ crossed' \in BOOLEAN
    BY <1>2 DEF Merge, Crosses
  <2>2. conflict' \in [local : Values, remote : Values]
    BY <1>2 DEF Merge
  <2>3. link' = [link EXCEPT !.base = base, !.status = status, !.seen = stamp, !.remoteAt = time, !.event = event]
    BY <1>2, Zenon DEF Merge
  <2>4. base \in Values /\ status \in {"conflict", "active"}
    OBVIOUS
  <2>5. link' \in LinkRow /\ link'.to = link.to
    <3> HIDE DEF base, status
    <3> QED BY <2>3, <2>4, Zenon DEF LinkRow
  <2> QED BY <2>1, <2>2, <2>5
<1> QED BY <1>1, <1>2, Zenon DEF ApplyRemote

LEMMA ApplyPulledKeepsInv ==
  ASSUME SyncInv, NEW w \in SyncWorker, ApplyPulled(w) PROVE SyncInv'
<1>1. /\ job[w].target \in DOMAIN remote /\ job[w].value \in Values
      /\ job[w].time \in Nat /\ job[w].stamp \in Nat
  BY AttemptType DEF Attempt, ApplyPulled, SyncInv, SyncShapes, Aimed
<1>2. Becomes(w, Idle) /\ UNCHANGED <<outbox, provider, upsets>>
      /\ ApplyRemote(job[w].target, job[w].value, job[w].time, job[w].stamp, 0)
  BY DEF ApplyPulled
<1>3. Aimed(w)' /\ (InOrder => Entitled(w)')
  BY <1>2, TurnsIdle DEF SyncInv, SyncShapes, Aimed, Entitled, provider, Rows
<1>4. /\ local' \in Values /\ link' \in LinkRow /\ link'.to = link.to
      /\ conflict' \in [local : Values, remote : Values]
      /\ twins' \subseteq DOMAIN remote /\ crossed' \in BOOLEAN
  BY <1>1, <1>2, ApplyRemoteTypes
<1> QED BY <1>2, <1>3, <1>4, TurnsIdle, MergeTurns, SyncAssumption
        DEF provider, SyncInv, SyncShapes, Known

LEMMA MergeBeforePushKeepsInv ==
  ASSUME SyncInv, NEW w \in SyncWorker, MergeBeforePush(w) PROVE SyncInv'
<1>1. CASE Owns(w)
  <2>1. /\ job[w].link \in DOMAIN remote /\ job[w].value \in Values
        /\ job[w].time \in Nat /\ job[w].row \in Nat
    BY AttemptType DEF Attempt, MergeBeforePush, SyncInv, SyncShapes, Aimed
  <2>2. /\ job[w].at = "prepush" /\ Turns(w, "reload") /\ UNCHANGED <<outbox, provider, upsets>>
        /\ ApplyRemote(job[w].link, job[w].value, job[w].time, job[w].time, job[w].row)
    BY <1>1 DEF MergeBeforePush, IfOwned
  <2>3. /\ local' \in Values /\ link' \in LinkRow /\ link'.to = link.to
        /\ conflict' \in [local : Values, remote : Values]
        /\ twins' \subseteq DOMAIN remote /\ crossed' \in BOOLEAN
    BY <2>1, <2>2, ApplyRemoteTypes
  <2>4. "reload" \in Stages
    BY DEF Stages
  <2>5. Aimed(w)' /\ (InOrder => Entitled(w)')
    BY <2>2, <2>3, <2>4, TurnsTo DEF SyncInv, Aimed, Entitled, provider, Rows
  <2>6. /\ flying' \in SUBSET [target : Nat, value : Values] /\ \A r \in flying' : r.target <= Len(remote)
        /\ UNCHANGED <<outbox, remote, late, clock>> /\ upsets' \in 0..MaxUpsets /\ upsets <= upsets'
    BY <2>2, SyncAssumption DEF provider, SyncInv, SyncShapes, Known
  <2>7. /\ job' = [job EXCEPT ![w] = job'[w]] /\ job'[w] \in Attempt
    BY <2>2, <2>4, TurnsTo
  <2> QED BY <2>3, <2>5, <2>6, <2>7, MergeTurns
<1>2. CASE ~Owns(w)
  <2>1. Becomes(w, Idle) /\ UNCHANGED <<tables, provider, crossed, upsets>>
    BY <1>2 DEF MergeBeforePush, IfOwned, tables
  <2>2. Aimed(w)' /\ (InOrder => Entitled(w)')
    BY <2>1, TurnsIdle DEF SyncInv, SyncShapes, Aimed, Entitled, tables, provider, Rows
  <2> QED BY <2>1, <2>2, TurnsIdle, WorkerTurns, SyncAssumption
          DEF provider, SyncInv, SyncShapes, Known
<1> QED BY <1>1, <1>2

(* The oldest open row changes: it gets an owner, or loses it. *)
LEMMA RowTurns ==
  ASSUME SyncInv, NEW w \in SyncWorker, NEW k \in Rows,
         job' = [job EXCEPT ![w] = job'[w]], job'[w] \in Attempt,
         outbox[k].state = "open", \A older \in 1..k - 1 : outbox[older].state # "open",
         outbox' = [outbox EXCEPT ![k] = outbox'[k]], outbox'[k] \in OutboxRow,
         outbox'[k].owner \in {w, NoWorker},
         outbox'[k].owner = w => outbox'[k].state = "open" /\ outbox'[k].attempts > 0,
         outbox'[k].state = "done" => link'.to # 0,
         outbox[k].attempts <= outbox'[k].attempts,
         outbox'[k].attempts <= MaxAttempts + upsets',
         outbox'[k].state = "open" /\ outbox'[k].owner = NoWorker
           => outbox'[k].attempts < MaxAttempts + upsets',
         link' \in LinkRow, link'.to <= Len(remote), link.to # 0 => link'.to # 0,
         UNCHANGED <<local, conflict, twins, provider, crossed>>,
         upsets' \in 0..MaxUpsets, upsets <= upsets',
         Aimed(w)', InOrder /\ InOrder' => Entitled(w)'
  PROVE  SyncInv'
<1> USE SyncAssumption DEF SyncInv, provider
<1>0. /\ Len(outbox') = Len(outbox) /\ Rows' = Rows /\ Rows = 1..Len(outbox)
      /\ outbox' \in Seq(OutboxRow) /\ \A j \in Rows : j # k => outbox'[j] = outbox[j]
  <2>1. outbox \in Seq(OutboxRow) /\ k \in 1..Len(outbox) /\ Rows = 1..Len(outbox)
    BY DEF SyncShapes, Rows
  <2>2. PICK put \in OutboxRow : outbox' = [outbox EXCEPT ![k] = put]
    OBVIOUS
  <2>3. /\ [outbox EXCEPT ![k] = put] \in Seq(OutboxRow) /\ Len([outbox EXCEPT ![k] = put]) = Len(outbox)
        /\ \A j \in 1..Len(outbox) : [outbox EXCEPT ![k] = put][j] = IF j = k THEN put ELSE outbox[j]
    BY <2>1, ExceptSeq
  <2> HIDE DEF SyncInv
  <2> QED BY <2>1, <2>2, <2>3, SMT DEF Rows
<1>r. \A j \in Rows : outbox[j] \in OutboxRow /\ outbox'[j] \in OutboxRow
  BY <1>0 DEF SyncShapes
<1>1. SyncShapes'
  <2>1. job' \in [SyncWorker -> Attempt]
    BY DEF SyncShapes
  <2> QED BY <1>0, <2>1 DEF SyncShapes
<1>2. Known'
  BY DEF Known
<1>3. \A v \in SyncWorker : v # w => job'[v] = job[v]
  BY DEF SyncShapes
<1>4. \A v \in SyncWorker : Aimed(v)'
  <2> SUFFICES ASSUME NEW v \in SyncWorker, v # w PROVE Aimed(v)'
    OBVIOUS
  <2> QED BY <1>0, <1>3 DEF Aimed
<1>5. OldestFirst'
  <2>1. outbox' # <<>>
    BY <1>0 DEF OldestFirst, SyncShapes
  <2>2. ASSUME NEW j \in Rows
        PROVE  /\ outbox'[j].owner # NoWorker =>
                    /\ outbox'[j].state = "open" /\ outbox'[j].attempts > 0
                    /\ \A older \in 1..j - 1 : outbox'[older].state # "open"
               /\ outbox'[j].state = "done" => link'.to # 0
    <3>1. CASE j = k
      BY <1>0, <3>1
    <3>2. CASE j # k
      BY <1>0, <3>2 DEF OldestFirst
    <3> QED BY <3>1, <3>2
  <2> QED BY <1>0, <2>1, <2>2 DEF OldestFirst
<1>6. Attempted'
  <2> SUFFICES ASSUME NEW j \in Rows
               PROVE  /\ outbox'[j].attempts <= MaxAttempts + upsets'
                      /\ outbox'[j].state = "open" /\ outbox'[j].owner = NoWorker
                           => outbox'[j].attempts < MaxAttempts + upsets'
    BY <1>0 DEF Attempted
  <2>1. outbox[j].attempts \in Nat /\ upsets \in Nat /\ upsets' \in Nat
    BY <1>r DEF SyncShapes, OutboxRow
  <2>2. CASE j = k
    BY <2>2
  <2>3. CASE j # k
    BY <1>0, <2>1, <2>3 DEF Attempted
  <2> QED BY <2>2, <2>3
<1>7. Accounted'
  <2> SUFFICES ASSUME InOrder' PROVE Accounted'
    BY DEF Accounted
  <2>1. InOrder
    BY <1>0 DEF InOrder, GivenUp
  <2>2. ASSUME NEW v \in SyncWorker, v # w PROVE Entitled(v)'
    <3> SUFFICES ASSUME job[v].at \notin {"idle", "pulled"}, outbox'[job[v].row].owner = v PROVE FALSE
      BY <1>3, <2>2 DEF Entitled, Owns
    <3>1. job[v].row \in Rows
      BY DEF Aimed
    <3>2. job[v].row # k
      BY <2>2
    <3>3. outbox[job[v].row].owner = v /\ v # NoWorker
      BY <1>0, <3>1, <3>2
    <3>4. OldestFirst
      OBVIOUS
    <3>5. /\ outbox[job[v].row].state = "open"
          /\ \A older \in 1..job[v].row - 1 : outbox[older].state # "open"
      BY <3>1, <3>3, <3>4 DEF OldestFirst
    <3> HIDE DEF SyncInv
    <3> QED BY <1>0, <3>1, <3>2, <3>5
  <2>3. link'.to = 0 /\ remote # <<>> => outbox'[1].attempts > 0
    <3>1. 1 \in Rows
      BY <1>0 DEF OldestFirst, SyncShapes
    <3> QED BY <1>0, <1>r, <2>1, <3>1 DEF Accounted, OutboxRow
  <2> QED BY <2>1, <2>2, <2>3 DEF Accounted
<1> QED BY <1>1, <1>2, <1>4, <1>5, <1>6, <1>7

LEMMA ClaimOutboxKeepsInv ==
  ASSUME SyncInv, NEW w \in SyncWorker, NEW k \in Rows, ClaimOutbox(w, k) PROVE SyncInv'
<1> USE SyncAssumption
<1>1. outbox \in Seq(OutboxRow) /\ outbox[k] \in OutboxRow /\ Rows = 1..Len(outbox)
  BY DEF SyncInv, SyncShapes, Rows
<1>2. outbox' = [outbox EXCEPT ![k] = outbox'[k]]
  BY <1>1, Zenon DEF ClaimOutbox, Rows
<1>3. /\ outbox'[k] \in OutboxRow /\ outbox'[k].owner = w /\ outbox'[k].state = outbox[k].state
      /\ outbox'[k].attempts = outbox[k].attempts + 1
  <2>1. outbox'[k] = [outbox[k] EXCEPT !.owner = w, !.attempts = @ + 1]
    BY <1>1, Zenon DEF ClaimOutbox, Rows
  <2>2. outbox[k].attempts + 1 \in Nat
    BY <1>1 DEF OutboxRow
  <2> QED BY <1>1, <2>1, <2>2, Zenon DEF OutboxRow
<1>4. /\ job' = [job EXCEPT ![w] = job'[w]] /\ job'[w] \in Attempt
      /\ job'[w].at = "claimed" /\ job'[w].row = k /\ job'[w].link = 0 /\ job'[w].target = 0
  <2>1. job' = [job EXCEPT ![w] = job'[w]] /\ job'[w] = [Idle EXCEPT !.at = "claimed", !.row = k]
    BY Zenon DEF ClaimOutbox, Becomes, SyncInv, SyncShapes
  <2>2. "claimed" \in Stages /\ k \in Nat
    BY <1>1 DEF Stages
  <2> QED BY <2>1, <2>2, IdleType, Zenon DEF Attempt
<1>5. /\ outbox[k].state = "open" /\ outbox[k].owner = NoWorker
      /\ \A older \in 1..k - 1 : outbox[older].state # "open"
      /\ UNCHANGED <<local, link, conflict, twins, provider, crossed, upsets>>
  BY DEF ClaimOutbox
<1>6. Aimed(w)'
  <2>1. k \in Rows'
    BY <1>1, <1>2, <1>3, ExceptSeq DEF Rows
  <2> QED BY <1>4, <1>5, <2>1 DEF Aimed, SyncInv, SyncShapes, provider
<1>7. InOrder => Entitled(w)'
  <2> SUFFICES ASSUME InOrder, outbox[k].attempts = 0, link.to = 0, remote # <<>> PROVE FALSE
    BY <1>1, <1>3, <1>4, <1>5 DEF Entitled, provider, OutboxRow
  <2>1. 1 \in Rows /\ outbox[1] \in OutboxRow
    BY <1>1
  <2>2. outbox[1].state = "open"
    BY <2>1 DEF InOrder, GivenUp, SyncInv, OldestFirst, OutboxRow
  <2> QED BY <1>1, <1>5, <2>1, <2>2 DEF SyncInv, Accounted
<1>8. outbox[k].attempts \in Nat /\ outbox[k].attempts < MaxAttempts + upsets
  BY <1>1, <1>5 DEF OutboxRow, SyncInv, Attempted
<1>9. /\ link \in LinkRow /\ link.to <= Len(remote) /\ upsets \in 0..MaxUpsets
  BY DEF SyncInv, SyncShapes, Known
<1> QED BY <1>2, <1>3, <1>4, <1>5, <1>6, <1>7, <1>8, <1>9, RowTurns

LEMMA LeaseLapsesKeepsInv ==
  ASSUME SyncInv, NEW k \in Rows, LeaseLapses(k) PROVE SyncInv'
<1> USE SyncAssumption
<1>1. /\ outbox \in Seq(OutboxRow) /\ outbox[k] \in OutboxRow /\ Rows = 1..Len(outbox)
      /\ job \in [SyncWorker -> Attempt]
  BY DEF SyncInv, SyncShapes, Rows
<1>2. PICK w \in SyncWorker : outbox[k].owner = w /\ w # NoWorker
  BY <1>1 DEF LeaseLapses, OutboxRow
<1>3. outbox' = [outbox EXCEPT ![k] = outbox'[k]]
  BY <1>1, Zenon DEF LeaseLapses, Rows
<1>4. /\ outbox'[k] \in OutboxRow /\ outbox'[k].owner = NoWorker /\ outbox'[k].state = outbox[k].state
      /\ outbox'[k].attempts = outbox[k].attempts
  <2>1. outbox'[k] = [outbox[k] EXCEPT !.owner = NoWorker]
    BY <1>1, Zenon DEF LeaseLapses, Rows
  <2> QED BY <1>1, <2>1, Zenon DEF OutboxRow
<1>0. UNCHANGED <<local, link, conflict, twins, provider, job, crossed>>
  BY Zenon DEF LeaseLapses
<1>5. job' = [job EXCEPT ![w] = job'[w]] /\ job'[w] \in Attempt
  BY <1>0, <1>1
<1>6. /\ outbox[k].state = "open" /\ \A older \in 1..k - 1 : outbox[older].state # "open"
  BY <1>2 DEF SyncInv, OldestFirst
<1>7. Len(outbox') = Len(outbox) /\ \A j \in Rows : j # k => outbox'[j] = outbox[j]
  BY <1>1, <1>3, <1>4, ExceptSeq
<1>8. Aimed(w)' /\ (InOrder => Entitled(w)')
  <2>1. Aimed(w)'
    BY <1>0, <1>5, <1>7 DEF Aimed, SyncInv, provider, Rows
  <2>2. InOrder => Entitled(w)'
    BY <1>0, <1>1, <1>2, <1>4, <1>7 DEF Entitled, Owns, Accounted, SyncInv, provider, Aimed
  <2> QED BY <2>1, <2>2
<1>9. /\ link \in LinkRow /\ link.to <= Len(remote) /\ upsets' \in 0..MaxUpsets /\ upsets' = upsets + 1
      /\ outbox[k].attempts \in Nat /\ outbox[k].attempts <= MaxAttempts + upsets /\ upsets \in Nat
  BY <1>1 DEF SyncInv, SyncShapes, Known, Attempted, LeaseLapses, Upset, OutboxRow
<1> QED BY <1>0, <1>2, <1>3, <1>4, <1>5, <1>6, <1>8, <1>9, RowTurns

LEMMA FinishFailedKeepsInv ==
  ASSUME SyncInv, NEW w \in SyncWorker, FinishFailed(w) PROVE SyncInv'
<1> USE SyncAssumption
<1>k. PICK k \in Rows : k = job[w].row
  BY DEF SyncInv, Aimed, FinishFailed
<1>1. /\ outbox \in Seq(OutboxRow) /\ outbox[k] \in OutboxRow /\ Rows = 1..Len(outbox)
      /\ link \in LinkRow /\ link.to <= Len(remote) /\ upsets \in 0..MaxUpsets
  BY DEF SyncInv, SyncShapes, Known, Rows, Aimed, FinishFailed
<1>2. Becomes(w, Idle) /\ UNCHANGED <<local, link, conflict, twins, provider, crossed, upsets>>
  BY DEF FinishFailed
<1>3. CASE Owns(w)
  <2> DEFINE state == IF outbox[k].attempts >= MaxAttempts THEN "dead" ELSE "open"
  <2>1. outbox' = [outbox EXCEPT ![k] = outbox'[k]]
    BY <1>k, <1>1, <1>3, Zenon DEF FinishFailed, Rows
  <2>2. outbox'[k] = [outbox[k] EXCEPT !.owner = NoWorker, !.state = state]
    BY <1>k, <1>1, <1>3, Zenon DEF FinishFailed, Rows
  <2>3. state \in {"open", "dead"}
    OBVIOUS
  <2>4. /\ outbox'[k] \in OutboxRow /\ outbox'[k].owner = NoWorker /\ outbox'[k].state = state
        /\ outbox'[k].attempts = outbox[k].attempts
    <3> HIDE DEF state
    <3> QED BY <1>1, <2>2, <2>3, Zenon DEF OutboxRow
  <2>5. outbox[k].owner = w /\ w # NoWorker
    BY <1>k, <1>3 DEF Owns
  <2>6. outbox[k].state = "open" /\ \A older \in 1..k - 1 : outbox[older].state # "open"
    BY <1>1, <2>5 DEF SyncInv, OldestFirst
  <2>7. /\ outbox[k].attempts \in Nat /\ outbox[k].attempts <= MaxAttempts + upsets
        /\ state = "open" => outbox[k].attempts < MaxAttempts + upsets
    BY <1>1 DEF OutboxRow, SyncInv, Attempted
  <2>8. Aimed(w)' /\ (InOrder => Entitled(w)')
    BY <1>2, TurnsIdle DEF SyncInv, SyncShapes, Aimed, Entitled, provider
  <2>9. /\ outbox[k].attempts <= outbox'[k].attempts /\ outbox'[k].attempts <= MaxAttempts + upsets'
        /\ outbox'[k].owner # w /\ outbox'[k].state # "done"
        /\ upsets' \in 0..MaxUpsets /\ upsets <= upsets' /\ link' \in LinkRow /\ link'.to <= Len(remote)
    BY <1>1, <1>2, <2>3, <2>4, <2>5, <2>7
  <2> HIDE DEF state
  <2> QED BY <1>2, <2>1, <2>4, <2>6, <2>7, <2>8, <2>9, TurnsIdle, RowTurns
<1>4. CASE ~Owns(w)
  <2>1. Aimed(w)' /\ (InOrder => Entitled(w)')
    BY <1>2, TurnsIdle DEF SyncInv, SyncShapes, Aimed, Entitled, provider
  <2>2. UNCHANGED tables
    BY <1>2, <1>4 DEF FinishFailed, tables
  <2> QED BY <1>2, <2>1, <2>2, TurnsIdle, WorkerTurns DEF SyncInv, SyncShapes, Known, provider
<1> QED BY <1>3, <1>4

LEMMA CommitPushKeepsInv ==
  ASSUME SyncInv, NEW w \in SyncWorker, CommitPush(w) PROVE SyncInv'
<1> USE SyncAssumption
<1>k. PICK k \in Rows : k = job[w].row
  BY DEF SyncInv, Aimed, CommitPush
<1>1. /\ outbox \in Seq(OutboxRow) /\ outbox[k] \in OutboxRow /\ Rows = 1..Len(outbox)
      /\ link \in LinkRow /\ link.to <= Len(remote) /\ upsets \in 0..MaxUpsets
  BY DEF SyncInv, SyncShapes, Known, Rows
<1>2. job[w].at = "answered" /\ UNCHANGED <<local, conflict, twins, provider, crossed, upsets>>
  BY DEF CommitPush
<1>3. CASE Fails(w) /\ UNCHANGED <<link, outbox>>
  <2>1. Aimed(w)' /\ (InOrder => Entitled(w)')
    BY <1>2, <1>3, TurnsFailed DEF SyncInv, Aimed, Entitled, provider, Rows
  <2> QED BY <1>2, <1>3, <2>1, TurnsFailed, WorkerTurns DEF SyncInv, SyncShapes, Known, provider, tables
<1>4. CASE Becomes(w, Idle) /\ UNCHANGED <<link, outbox>>
  <2>1. Aimed(w)' /\ (InOrder => Entitled(w)')
    BY <1>2, <1>4, TurnsIdle DEF SyncInv, SyncShapes, Aimed, Entitled, provider
  <2> QED BY <1>2, <1>4, <2>1, TurnsIdle, WorkerTurns DEF SyncInv, SyncShapes, Known, provider, tables
<1> DEFINE to == IF job[w].link = 0 THEN job[w].target ELSE link.to
<1>5. CASE /\ Becomes(w, Idle) /\ Owns(w)
           /\ outbox' = [outbox EXCEPT ![job[w].row].state = "done", ![job[w].row].owner = NoWorker]
           /\ link' = [to |-> to, base |-> job[w].value, seen |-> job[w].time, remoteAt |-> job[w].time,
                       event |-> 0, status |-> "active"]
  <2>1. outbox' = [outbox EXCEPT ![k] = outbox'[k]]
    BY <1>k, <1>1, <1>5, Zenon DEF Rows
  <2>2. outbox'[k] = [outbox[k] EXCEPT !.state = "done", !.owner = NoWorker]
    BY <1>k, <1>1, <1>5, Zenon DEF Rows
  <2>3. /\ outbox'[k] \in OutboxRow /\ outbox'[k].owner = NoWorker /\ outbox'[k].state = "done"
        /\ outbox'[k].attempts = outbox[k].attempts
    BY <1>1, <2>2, Zenon DEF OutboxRow
  <2>4. outbox[k].owner = w /\ w # NoWorker
    BY <1>k, <1>5 DEF Owns
  <2>5. outbox[k].state = "open" /\ \A older \in 1..k - 1 : outbox[older].state # "open"
    BY <1>1, <2>4 DEF SyncInv, OldestFirst
  <2>6. outbox[k].attempts \in Nat /\ outbox[k].attempts <= MaxAttempts + upsets
    BY <1>1 DEF OutboxRow, SyncInv, Attempted
  <2>7. to \in Nat /\ to # 0 /\ to <= Len(remote)
    BY <1>1, <1>2, AttemptType DEF SyncInv, Aimed, Attempt, LinkRow
  <2>8. link' \in LinkRow /\ link'.to = to
    <3> HIDE DEF to
    <3>1. job[w].value \in Values /\ job[w].time \in Nat
      BY AttemptType DEF Attempt
    <3> QED BY <1>5, <2>7, <3>1 DEF LinkRow
  <2>9. Aimed(w)' /\ (InOrder => Entitled(w)')
    BY <1>2, <1>5, TurnsIdle DEF SyncInv, SyncShapes, Aimed, Entitled, provider
  <2>10. /\ outbox[k].attempts <= outbox'[k].attempts /\ outbox'[k].attempts <= MaxAttempts + upsets'
         /\ outbox'[k].owner # w /\ link'.to # 0 /\ outbox'[k].state # "open"
         /\ upsets' \in 0..MaxUpsets /\ upsets <= upsets' /\ link'.to <= Len(remote)
    BY <1>1, <1>2, <2>3, <2>4, <2>6, <2>7, <2>8
  <2> HIDE DEF to
  <2> QED BY <1>2, <1>5, <2>1, <2>3, <2>5, <2>8, <2>9, <2>10, TurnsIdle, RowTurns
<1> QED BY <1>3, <1>4, <1>5, Zenon DEF CommitPush

-----------------------------------------------------------------------------
(* Users: the issue changes, and perhaps a row is added. *)
LEMMA UserKeepsInv ==
  ASSUME SyncInv, local' \in Values, link' \in LinkRow, link'.to = link.to,
         conflict' \in [local : Values, remote : Values], crossed' \in BOOLEAN,
         outbox' \in {outbox, Append(outbox, NewRow)},
         UNCHANGED <<twins, provider, job>>, upsets' \in 0..MaxUpsets, upsets <= upsets'
  PROVE  SyncInv'
<1> USE SyncAssumption DEF SyncInv, provider
<1>0. /\ outbox' \in Seq(OutboxRow) /\ Rows \subseteq Rows' /\ Rows = 1..Len(outbox) /\ outbox' # <<>>
      /\ \A j \in Rows : outbox'[j] = outbox[j] /\ outbox[j] \in OutboxRow
      /\ \A j \in Rows' : j \notin Rows => outbox'[j] = NewRow
      /\ Rows' = 1..Len(outbox')
  <2>1. NewRow \in OutboxRow /\ outbox \in Seq(OutboxRow)
    BY DEF NewRow, OutboxRow, SyncShapes
  <2> HIDE DEF SyncInv, provider
  <2>2. CASE outbox' = outbox
    BY <2>1, <2>2 DEF Rows, OldestFirst, SyncInv
  <2>3. CASE outbox' = Append(outbox, NewRow)
    BY <2>1, <2>3 DEF Rows
  <2> QED BY <2>2, <2>3
<1>1. SyncShapes'
  BY <1>0 DEF SyncShapes
<1>2. Known'
  BY DEF Known
<1>3. \A w \in SyncWorker : Aimed(w)'
  BY <1>0 DEF Aimed
<1>4. OldestFirst'
  <2>1. ASSUME NEW j \in Rows'
        PROVE  /\ outbox'[j].owner # NoWorker =>
                    /\ outbox'[j].state = "open" /\ outbox'[j].attempts > 0
                    /\ \A older \in 1..j - 1 : outbox'[older].state # "open"
               /\ outbox'[j].state = "done" => link'.to # 0
    <3>1. CASE j \in Rows
      <4>1. outbox'[j] = outbox[j] /\ \A older \in 1..j - 1 : outbox'[older] = outbox[older]
        BY <1>0, <3>1
      <4> HIDE DEF provider
      <4> QED  BY <3>1, <4>1 DEF OldestFirst
    <3>2. CASE j \notin Rows
      BY <1>0, <2>1, <3>2 DEF NewRow
    <3> QED BY <3>1, <3>2
  <2> QED BY <1>0, <2>1 DEF OldestFirst
<1>5. Attempted'
  <2> SUFFICES ASSUME NEW j \in Rows'
               PROVE  /\ outbox'[j].attempts <= MaxAttempts + upsets'
                      /\ outbox'[j].state = "open" /\ outbox'[j].owner = NoWorker
                           => outbox'[j].attempts < MaxAttempts + upsets'
    BY DEF Attempted
  <2>1. CASE j \in Rows
    <3>1. outbox[j].attempts \in Nat /\ upsets \in Nat /\ upsets' \in Nat
      BY <1>0, <2>1 DEF SyncShapes, OutboxRow
    <3>2. outbox'[j] = outbox[j] /\ Attempted
      BY <1>0, <2>1
    <3> QED BY <2>1, <3>1, <3>2 DEF Attempted
  <2>2. CASE j \notin Rows
    BY <1>0, <2>2 DEF NewRow
  <2> QED BY <2>1, <2>2
<1>6. Accounted'
  <2> SUFFICES ASSUME InOrder' PROVE Accounted'
    BY DEF Accounted
  <2>1. InOrder
    BY <1>0 DEF InOrder, GivenUp
  <2>2. ASSUME NEW w \in SyncWorker PROVE Entitled(w)'
    BY <1>0, <2>1 DEF Entitled, Owns, Accounted, Aimed
  <2>3. 1 \in Rows
    BY <1>0 DEF OldestFirst, SyncShapes
  <2> QED BY <1>0, <2>1, <2>2, <2>3 DEF Accounted
<1> QED BY <1>1, <1>2, <1>3, <1>4, <1>5, <1>6

LEMMA EditLocalKeepsInv == ASSUME SyncInv, EditLocal PROVE SyncInv'
<1>1. upsets + 2 \in Values
  BY SyncAssumption DEF EditLocal, Upset, Values, SyncInv, SyncShapes
<1> QED BY <1>1, UserKeepsInv, SyncAssumption DEF EditLocal, Upset, SyncInv, SyncShapes

LEMMA ResolveConflictKeepsInv ==
  ASSUME SyncInv, NEW side \in {"local", "remote"}, ResolveConflict(conflict[side]) PROVE SyncInv'
<1>1. conflict[side] \in Values /\ NoConflict \in [local : Values, remote : Values]
  BY SyncAssumption DEF SyncInv, SyncShapes, NoConflict, Values
<1>2. link' = [link EXCEPT !.base = conflict[side], !.status = "active"] /\ link \in LinkRow
  BY Zenon DEF ResolveConflict, SyncInv, SyncShapes
<1>3. link' \in LinkRow /\ link'.to = link.to
  BY <1>1, <1>2, Zenon DEF LinkRow
<1>4. /\ local' = conflict[side] /\ conflict' = NoConflict /\ crossed' \in BOOLEAN
      /\ outbox' \in {outbox, Append(outbox, NewRow)} /\ UNCHANGED <<twins, provider, job, upsets>>
  <2> HIDE DEF ResolveConflict
  <2> QED BY DEF ResolveConflict, Crosses, SyncInv, SyncShapes
<1> QED BY <1>1, <1>3, <1>4, UserKeepsInv DEF SyncInv, SyncShapes

-----------------------------------------------------------------------------
(* Linear accepts an issue or a change of one. *)
LEMMA EffectTypes ==
  ASSUME SyncInv, NEW target \in Nat, target <= Len(remote), NEW value \in Values, Effect(target, value)
  PROVE  /\ remote' \in Seq(Version) /\ clock' = clock + 1 /\ clock' \in Nat
         /\ Len(remote') = IF target = 0 THEN Len(remote) + 1 ELSE Len(remote)
         /\ \A i \in DOMAIN remote' : remote'[i].time \in 1..clock'
<1>1. /\ remote \in Seq(Version) /\ clock \in Nat /\ clock' = clock + 1
      /\ \A i \in DOMAIN remote : remote[i].time \in 1..clock
  BY DEF SyncInv, SyncShapes, Known, Effect
<1>2. PICK new \in Version : new = [value |-> value, time |-> clock + 1] /\ new.time = clock + 1
  <2>1. [value |-> value, time |-> clock + 1] \in Version
    BY <1>1 DEF Version
  <2>2. [value |-> value, time |-> clock + 1].time = clock + 1
    OBVIOUS
  <2> QED BY <2>1, <2>2, Zenon
<1>3. CASE target = 0
  <2>1. remote' = Append(remote, new)
    BY <1>2, <1>3 DEF Effect
  <2>2. /\ remote' \in Seq(Version) /\ Len(remote') = Len(remote) + 1 /\ remote'[Len(remote) + 1] = new
        /\ \A i \in 1..Len(remote) : remote'[i] = remote[i]
    BY <1>1, <2>1
  <2> QED BY <1>1, <1>2, <1>3, <2>2
<1>4. CASE target # 0
  <2>1. remote' = [remote EXCEPT ![target] = new] /\ target \in 1..Len(remote)
    BY <1>1, <1>2, <1>4 DEF Effect
  <2>2. /\ remote' \in Seq(Version) /\ Len(remote') = Len(remote)
        /\ \A i \in 1..Len(remote) : remote'[i] = IF i = target THEN new ELSE remote[i]
    BY <1>1, <2>1, ExceptSeq
  <2>3. ASSUME NEW i \in 1..Len(remote) PROVE remote'[i].time \in 1..clock + 1
    <3>1. CASE i = target
      BY <1>1, <1>2, <2>2, <3>1
    <3>2. CASE i # target
      BY <1>1, <2>2, <3>2
    <3> QED BY <3>1, <3>2
  <2>4. DOMAIN remote' = 1..Len(remote)
    BY <2>2
  <2> QED BY <1>1, <1>4, <2>2, <2>3, <2>4
<1> QED BY <1>3, <1>4

LEMMA AimedStays ==
  ASSUME SyncInv, NEW w \in SyncWorker, job'[w] = job[w], UNCHANGED tables,
         remote' \in Seq(Version), Len(remote) <= Len(remote')
  PROVE  Aimed(w)'
<1>1. Len(remote) \in Nat /\ Len(remote') \in Nat /\ job[w] \in Attempt
  BY DEF SyncInv, SyncShapes
<1> QED BY <1>1 DEF SyncInv, Aimed, Rows, Attempt, tables

LEMMA RemoteMoves ==
  ASSUME SyncInv, job' \in [SyncWorker -> Attempt],
         remote' \in Seq(Version), Len(remote) <= Len(remote'), clock' \in Nat,
         \A i \in DOMAIN remote' : remote'[i].time \in 1..clock',
         flying' \subseteq flying, late' \in Nat, UNCHANGED <<tables, crossed>>,
         upsets' \in 0..MaxUpsets, upsets <= upsets',
         \A w \in SyncWorker : Aimed(w)',
         InOrder' => /\ Len(remote') <= 1
                     /\ link.to = 0 /\ remote' # <<>> => outbox[1].attempts > 0
                     /\ \A w \in SyncWorker : Entitled(w)'
  PROVE  SyncInv'
<1> USE SyncAssumption DEF SyncInv, tables
<1>1. SyncShapes'
  BY DEF SyncShapes
<1>2. Known'
  <2>1. /\ Len(remote) \in Nat /\ Len(remote') \in Nat /\ DOMAIN remote = 1..Len(remote)
        /\ DOMAIN remote' = 1..Len(remote') /\ link.to \in Nat
    BY DEF SyncShapes, LinkRow
  <2>2. \A r \in flying : r.target \in Nat
    BY DEF SyncShapes
  <2> QED BY <2>1, <2>2 DEF Known
<1>3. OldestFirst'
  BY DEF OldestFirst, Rows
<1>4. Attempted'
  <2> SUFFICES ASSUME NEW k \in Rows
               PROVE  /\ outbox[k].attempts <= MaxAttempts + upsets'
                      /\ outbox[k].state = "open" /\ outbox[k].owner = NoWorker
                           => outbox[k].attempts < MaxAttempts + upsets'
    BY DEF Attempted, Rows
  <2>1. outbox[k] \in OutboxRow
    BY DEF SyncShapes, Rows
  <2>2. outbox[k].attempts \in Nat /\ upsets \in Nat /\ upsets' \in Nat /\ MaxAttempts \in Nat
    BY <2>1 DEF SyncShapes, OutboxRow
  <2>3. /\ outbox[k].attempts <= MaxAttempts + upsets
        /\ outbox[k].state = "open" /\ outbox[k].owner = NoWorker
             => outbox[k].attempts < MaxAttempts + upsets
    BY DEF Attempted
  <2> HIDE DEF SyncInv, tables
  <2> QED BY <2>2, <2>3
<1>5. Accounted'
  BY DEF Accounted
<1> QED BY <1>1, <1>2, <1>3, <1>4, <1>5

LEMMA AnsweredKeepsInv ==
  ASSUME SyncInv, NEW w \in SyncWorker, Answered(w) PROVE SyncInv'
<1> USE SyncAssumption
<1>1. /\ job[w].target \in Nat /\ job[w].target <= Len(remote) /\ job[w].value \in Values
      /\ job[w].row \in Rows /\ job[w].link <= Len(remote) /\ job[w].link \in Nat
      /\ clock \in Nat /\ late \in Nat /\ Len(remote) \in Nat /\ remote \in Seq(Version)
      /\ outbox \in Seq(OutboxRow) /\ Rows = 1..Len(outbox) /\ job \in [SyncWorker -> Attempt]
      /\ upsets \in 0..MaxUpsets
  <2>1. job[w] \in Attempt
    BY AttemptType
  <2>2. /\ job[w].target \in Nat /\ job[w].value \in Values /\ job[w].link \in Nat
    BY <2>1 DEF Attempt
  <2>3. job[w].target <= Len(remote) /\ job[w].row \in Rows /\ job[w].link <= Len(remote)
    BY DEF Answered, SyncInv, Aimed
  <2> QED BY <2>2, <2>3 DEF SyncInv, SyncShapes, Rows
<1>2. /\ job[w].at = "sent" /\ Effect(job[w].target, job[w].value)
      /\ late' = IF Owns(w) THEN late ELSE late + 1
      /\ UNCHANGED <<tables, flying, crossed, upsets>>
  BY DEF Answered
<1>3. /\ remote' \in Seq(Version) /\ clock' = clock + 1 /\ clock' \in Nat
      /\ Len(remote') = IF job[w].target = 0 THEN Len(remote) + 1 ELSE Len(remote)
      /\ \A i \in DOMAIN remote' : remote'[i].time \in 1..clock'
  BY <1>1, <1>2, EffectTypes
<1> DEFINE target == IF job[w].target = 0 THEN Len(remote) + 1 ELSE job[w].target
<1>4. /\ job' = [job EXCEPT ![w] = job'[w]]
      /\ job'[w] = [job[w] EXCEPT !.at = "answered", !.time = clock + 1, !.target = target]
  BY <1>1, Zenon DEF Answered, Becomes
<1>5. /\ job'[w] \in Attempt /\ job'[w].at = "answered" /\ job'[w].row = job[w].row
      /\ job'[w].link = job[w].link /\ job'[w].target = target
  <2>1. "answered" \in Stages /\ clock + 1 \in Nat /\ target \in Nat
    BY <1>1 DEF Stages, Loaded
  <2> HIDE DEF target
  <2> QED BY <1>4, <2>1, AttemptType, Zenon DEF Attempt
<1>6. Aimed(w)'
  BY <1>1, <1>2, <1>3, <1>5 DEF Aimed, SyncInv, Rows, tables
<1>7. ASSUME InOrder'
      PROVE  /\ Len(remote') <= 1 /\ (link.to = 0 /\ remote' # <<>> => outbox[1].attempts > 0)
             /\ \A v \in SyncWorker : Entitled(v)'
  <2>1. InOrder /\ Owns(w) /\ late' = late
    BY <1>1, <1>2, <1>7 DEF InOrder, GivenUp, tables, Rows
  <2>2. job[w].target = 0 => remote = <<>>
    BY <1>2, <2>1 DEF SyncInv, Accounted, Entitled
  <2>3. Len(remote') <= 1
    BY <1>1, <1>3, <2>1, <2>2 DEF SyncInv, Accounted
  <2>4. link.to = 0 => outbox[1].attempts > 0
    <3> SUFFICES ASSUME link.to = 0 PROVE outbox[1].attempts > 0
      OBVIOUS
    <3>1. outbox[1] \in OutboxRow /\ 1 \in Rows
      BY <1>1
    <3>2. outbox[1].state = "open"
      BY <2>1, <3>1 DEF InOrder, GivenUp, SyncInv, OldestFirst, OutboxRow
    <3>3. job[w].row = 1
      <4>1. outbox[job[w].row].owner = w /\ w # NoWorker
        BY <2>1 DEF Owns
      <4>2. \A k \in Rows : outbox[k].owner # NoWorker =>
              \A older \in 1..k - 1 : outbox[older].state # "open"
        BY DEF SyncInv, OldestFirst
      <4> QED BY <1>1, <3>2, <4>1, <4>2 DEF Rows
    <3> QED BY <1>1, <2>1, <3>3 DEF Owns, SyncInv, OldestFirst
  <2>5. ASSUME NEW v \in SyncWorker PROVE Entitled(v)'
    <3>1. CASE v = w
      BY <1>5, <3>1 DEF Entitled
    <3>2. CASE v # w
      <4>1. job'[v] = job[v]
        BY <1>1, <1>4, <3>2
      <4> SUFFICES ASSUME job[v].at \notin {"idle", "pulled"}, Owns(v) PROVE FALSE
        BY <1>2, <4>1 DEF Entitled, Owns, tables
      <4>2. job[v].row \in Rows
        BY DEF SyncInv, Aimed
      <4>3. outbox[job[v].row].owner = v /\ outbox[job[w].row].owner = w
        BY <2>1 DEF Owns
      <4>4. v # NoWorker /\ w # NoWorker
        BY SyncAssumption
      <4>5. \A k \in Rows : outbox[k].owner # NoWorker =>
              outbox[k].state = "open" /\ \A older \in 1..k - 1 : outbox[older].state # "open"
        BY DEF SyncInv, OldestFirst
      <4>6. job[v].row = job[w].row
        <5> DEFINE a == job[v].row
                   b == job[w].row
        <5>1. a \in Rows /\ b \in Rows /\ outbox[a].owner # NoWorker /\ outbox[b].owner # NoWorker
          BY <1>1, <4>2, <4>3, <4>4
        <5>2. /\ outbox[a].state = "open" /\ \A older \in 1..a - 1 : outbox[older].state # "open"
              /\ outbox[b].state = "open" /\ \A older \in 1..b - 1 : outbox[older].state # "open"
          BY <4>5, <5>1
        <5>3. a \in Nat \ {0} /\ b \in Nat \ {0}
          BY <5>1 DEF Rows, SyncInv, SyncShapes
        <5> HIDE DEF a, b
        <5>4. ~(a < b) /\ ~(b < a)
          BY <5>2, <5>3
        <5> QED BY <5>3, <5>4 DEF a, b
      <4> QED BY <3>2, <4>3, <4>6
    <3> QED BY <3>1, <3>2
  <2> QED BY <2>3, <2>4, <2>5
<1>8. job' \in [SyncWorker -> Attempt] /\ \A v \in SyncWorker : v # w => job'[v] = job[v]
  BY <1>1, <1>4, <1>5
<1>9. Len(remote) <= Len(remote') /\ UNCHANGED tables
  BY <1>1, <1>2, <1>3
<1>10. \A v \in SyncWorker : Aimed(v)'
  BY <1>3, <1>6, <1>8, <1>9, AimedStays
<1>11. late' \in Nat /\ upsets' \in 0..MaxUpsets /\ upsets <= upsets'
  BY <1>1, <1>2
<1> QED BY <1>2, <1>3, <1>7, <1>8, <1>9, <1>10, <1>11, RemoteMoves

LEMMA LandsLateKeepsInv ==
  ASSUME SyncInv, NEW request \in flying, LandsLate(request) PROVE SyncInv'
<1>1. request.target \in Nat /\ request.target <= Len(remote) /\ request.value \in Values
  BY DEF SyncInv, SyncShapes, Known
<1>2. /\ remote' \in Seq(Version) /\ clock' \in Nat
      /\ Len(remote') = IF request.target = 0 THEN Len(remote) + 1 ELSE Len(remote)
      /\ \A i \in DOMAIN remote' : remote'[i].time \in 1..clock'
  BY <1>1, EffectTypes DEF LandsLate
<1>3. flying' \subseteq flying /\ late' = late + 1 /\ UNCHANGED <<tables, job, crossed, upsets>>
  BY DEF LandsLate
<1>4. late' \in Nat /\ ~InOrder' /\ Len(remote) <= Len(remote') /\ upsets \in 0..MaxUpsets
  BY <1>2, <1>3, SyncAssumption DEF InOrder, SyncInv, SyncShapes
<1>5. job' \in [SyncWorker -> Attempt] /\ \A w \in SyncWorker : Aimed(w)'
  BY <1>2, <1>3, <1>4, AimedStays DEF SyncInv, SyncShapes
<1> QED BY <1>2, <1>3, <1>4, <1>5, RemoteMoves

LEMMA EditRemoteKeepsInv ==
  ASSUME SyncInv, NEW i \in DOMAIN remote, EditRemote(i) PROVE SyncInv'
<1> USE SyncAssumption
<1>1. /\ i \in Nat /\ i # 0 /\ i <= Len(remote) /\ remote \in Seq(Version) /\ upsets + 2 \in Values
      /\ upsets' \in 0..MaxUpsets /\ upsets <= upsets' /\ late \in Nat
  BY DEF SyncInv, SyncShapes, Values, EditRemote, Upset
<1>2. /\ remote' \in Seq(Version) /\ clock' \in Nat /\ Len(remote') = Len(remote)
      /\ \A j \in DOMAIN remote' : remote'[j].time \in 1..clock'
  BY <1>1, EffectTypes DEF EditRemote
<1>3. UNCHANGED <<tables, flying, late, job, crossed>>
  BY DEF EditRemote
<1>4. job' \in [SyncWorker -> Attempt] /\ \A w \in SyncWorker : Aimed(w)'
  BY <1>1, <1>2, <1>3, AimedStays DEF SyncInv, SyncShapes
<1>5. ASSUME InOrder'
      PROVE  /\ Len(remote') <= 1 /\ (link.to = 0 /\ remote' # <<>> => outbox[1].attempts > 0)
             /\ \A w \in SyncWorker : Entitled(w)'
  <2>1. InOrder /\ remote # <<>>
    BY <1>1, <1>3, <1>5 DEF InOrder, GivenUp, tables, Rows
  <2> QED BY <1>2, <1>3, <2>1 DEF SyncInv, Accounted, Entitled, Owns, tables
<1> QED BY <1>1, <1>2, <1>3, <1>4, <1>5, RemoteMoves

-----------------------------------------------------------------------------
LEMMA SyncStepInv == SyncInv /\ [SyncNext]_syncVars => SyncInv'
<1> SUFFICES ASSUME SyncInv, [SyncNext]_syncVars PROVE SyncInv'
  OBVIOUS
<1>1. CASE UNCHANGED syncVars
  BY <1>1 DEF syncVars, tables, provider, SyncInv, SyncShapes, Known, Aimed, OldestFirst, Attempted,
              Accounted, InOrder, GivenUp, Entitled, Owns, Rows
<1>2. ASSUME NEW w \in SyncWorker, Works(w) PROVE SyncInv'
  BY <1>2, ApplyPulledKeepsInv, ReadIssueKeepsInv, ReadLinkKeepsInv, FetchLinkedKeepsInv,
     MergeBeforePushKeepsInv, ListByMarkerKeepsInv, SendKeepsInv, AnsweredKeepsInv,
     CommitPushKeepsInv, FinishFailedKeepsInv DEF Works
<1>3. ASSUME NEW w \in SyncWorker, Webhook(w) \/ PollRemote(w) \/ CancelSent(w) \/ RequestFails(w)
      PROVE  SyncInv'
  BY <1>3, PullKeepsInv, CancelSentKeepsInv, RequestFailsKeepsInv
<1>4. ASSUME NEW w \in SyncWorker, NEW k \in Rows, ClaimOutbox(w, k) PROVE SyncInv'
  BY <1>4, ClaimOutboxKeepsInv
<1>5. ASSUME NEW k \in Rows, LeaseLapses(k) PROVE SyncInv'
  BY <1>5, LeaseLapsesKeepsInv
<1>6. ASSUME NEW request \in flying, LandsLate(request) PROVE SyncInv'
  BY <1>6, LandsLateKeepsInv
<1>7. ASSUME NEW i \in DOMAIN remote, EditRemote(i) PROVE SyncInv'
  BY <1>7, EditRemoteKeepsInv
<1>8. ASSUME NEW side \in {"local", "remote"}, ResolveConflict(conflict[side]) PROVE SyncInv'
  BY <1>8, ResolveConflictKeepsInv
<1> QED BY <1>1, <1>2, <1>3, <1>4, <1>5, <1>6, <1>7, <1>8, EditLocalKeepsInv DEF SyncNext

(* The invariant the other theorems about the synchronisation rest on. *)
THEOREM SyncInvariant == SyncSpec => []SyncInv
<1> QED BY SyncInitInv, SyncStepInv, PTL DEF SyncSpec

(* Every reachable state of the synchronisation is well typed. *)
THEOREM SyncTypes == SyncSpec => []SyncTypeOK
<1> QED BY SyncInvariant, SyncInvTypes, PTL

(* Unless a request is carried out after its sender has given it up, or a   *)
(* row is given up, one remote issue is created at most, for any workers,   *)
(* attempts, lapsed leases, failed requests and edits (handleOutbox).       *)
THEOREM IssueCreatedOnce == SyncSpec => []OneRemoteIssue
<1>1. SyncInv => OneRemoteIssue
  BY DEF SyncInv, Accounted, InOrder, OneRemoteIssue, SyncShapes
<1> QED BY <1>1, SyncInvariant, PTL

-----------------------------------------------------------------------------
(* In the run that picks one of the parts, each of them takes its own steps *)
(* only.                                                                    *)
THEOREM IntegrationParts == IntegrationSpec => LeaseSpec /\ SyncSpec /\ LedgerSpec
<1>1. IntegrationInit => LeaseInit /\ SyncInit /\ LedgerInit
  BY DEF IntegrationInit
<1>2. [IntegrationNext]_<<leaseVars, syncVars, ledgerVars, part>> =>
        [LeaseNext]_leaseVars /\ [SyncNext]_syncVars /\ [LedgerNext]_ledgerVars
  BY DEF IntegrationNext, SyncAtRest, MediaAtRest
<1> QED BY <1>1, <1>2, PTL DEF IntegrationSpec, LeaseSpec, SyncSpec, LedgerSpec

(* So every state of the three is well typed there. *)
THEOREM IntegrationTypes == IntegrationSpec => []IntegrationTypesOK
<1>1. LedgerInv => LedgerTypeOK
  BY DEF LedgerInv
<1> QED BY <1>1, IntegrationParts, LeaseTypes, SyncTypes, LedgerInvariant, PTL
        DEF IntegrationTypesOK
=============================================================================
