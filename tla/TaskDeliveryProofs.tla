------------------------- MODULE TaskDeliveryProofs -------------------------
(***************************************************************************)
(* What holds of task delivery for any number of tasks, slots, generations *)
(* and faults: no running row is forgotten, no report of an older claim    *)
(* completes a newer one, and a saved result decides the row's outcome.    *)
(***************************************************************************)
EXTENDS TaskDelivery, TLAPS

SameClaim(x, y) == x.task = y.task /\ x.fence = y.fence
HasRun(e) == e.phase \in {"run", "report"}

(* Nothing bears a generation that was not issued. *)
FencesIssued ==
  /\ \A c \in handing : c.fence <= issued[c.task]
  /\ \A e \in execs : e.fence <= issued[e.task]
  /\ \A r \in outbox : r.fence <= issued[r.task]

(* A claim is a response, an execution or a report, and only one of them. *)
OneBearer ==
  /\ \A c \in handing : /\ \A e \in execs : ~SameClaim(c, e)
                        /\ \A r \in outbox : ~SameClaim(c, r)
  /\ \A e \in execs : /\ \A r \in outbox : ~SameClaim(e, r)
                      /\ \A f \in execs : SameClaim(e, f) => e = f
  /\ \A r, q \in outbox : SameClaim(r, q) => r = q

(* Whatever generations it was given, a row is run once: StartTask is the  *)
(* way out of "dispatched", and nothing leads back.                        *)
RunOnce ==
  /\ \A e \in execs : HasRun(e) => status[e.task] \notin {"queued", "dispatched"}
  /\ \A r \in outbox : r.kind = "complete" => status[r.task] \notin {"queued", "dispatched"}
  /\ \A e, f \in execs : HasRun(e) /\ HasRun(f) /\ e.task = f.task => e = f
  /\ \A e \in execs, r \in outbox : HasRun(e) /\ r.kind = "complete" => e.task # r.task
  /\ \A r, q \in outbox : r.kind = "complete" /\ q.kind = "complete" /\ r.task = q.task => r = q

(* A report is accepted together with the end of its row. *)
AcceptedIsOver == \A x \in receipts : status[x.report.task] \in Terminal

(* What the sender settles is a result that its row has no more use for. *)
SettlingRejected ==
  settling # NoReport =>
    /\ settling.kind = "complete"
    /\ fence[settling.task] # settling.fence \/ status[settling.task] \in Terminal

Delivery == FencesIssued /\ OneBearer /\ RunOnce /\ AcceptedIsOver /\ SettlingRejected
DeliveryInv == TypeOK /\ Delivery /\ NoRunningRowForgotten

Kinds == {"complete", "fail"}

LEMMA DeliveryInit == Init => DeliveryInv
BY BoundAssumption
   DEF Init, DeliveryInv, Delivery, TypeOK, FencesIssued, OneBearer, RunOnce, AcceptedIsOver,
       SettlingRejected, NoRunningRowForgotten, NoReport, Active, Terminal, Exec, Report, Claim

LEMMA FaultCounted == TypeOK /\ Fault => faults' \in 0 .. MaxFault
BY BoundAssumption DEF TypeOK, Fault

-----------------------------------------------------------------------------
(* Claiming. *)

LEMMA DispatchKeeps ==
  ASSUME DeliveryInv, NEW t \in Task, status[t] \in {"queued", "dispatched"}, Dispatch(t)
  PROVE  DeliveryInv'
<1> USE DEF DeliveryInv, Delivery, SameClaim, HasRun
<1>1. /\ issued[t] + 1 \in Fence /\ issued[t] + 1 \in 0 .. MaxFence /\ issued[t] \in Nat
      /\ [task |-> t, fence |-> issued[t] + 1] \in Claim
  BY BoundAssumption DEF TypeOK, Dispatch, Fence, Claim
<1>2. TypeOK'
  BY <1>1, BoundAssumption DEF TypeOK, Active, Terminal, Fence, Claim, Exec, Report, Phase,
                               Dispatch, daemon
<1>3. FencesIssued'
  BY <1>1 DEF FencesIssued, TypeOK, Active, Terminal, Fence, Claim, Exec, Report, Phase,
              Dispatch, daemon
<1>4. OneBearer'
  BY <1>1 DEF OneBearer, FencesIssued, TypeOK, Active, Terminal, Fence, Claim, Exec, Report,
              Phase, Dispatch, daemon
<1>5. RunOnce'
  BY <1>1 DEF RunOnce, TypeOK, Active, Terminal, Fence, Claim, Exec, Report, Phase,
              Dispatch, daemon
<1>6. AcceptedIsOver'
  BY <1>1 DEF AcceptedIsOver, TypeOK, Active, Terminal, Fence, Claim, Exec, Report, Phase,
              Dispatch, daemon
<1>7. SettlingRejected'
  BY <1>1 DEF SettlingRejected, RunOnce, TypeOK, Active, Terminal, Fence, Claim, Exec,
              Report, Phase, Dispatch, daemon
<1>8. NoRunningRowForgotten'
  BY <1>1 DEF NoRunningRowForgotten, TypeOK, Active, Terminal, Fence, Claim, Exec, Report,
              Phase, Dispatch, daemon
<1> QED BY <1>2, <1>3, <1>4, <1>5, <1>6, <1>7, <1>8

LEMMA DeliverClaimKeeps ==
  ASSUME DeliveryInv, NEW c \in handing, DeliverClaim(c)
  PROVE  DeliveryInv'
<1> USE DEF DeliveryInv, Delivery, SameClaim, HasRun
<1>1. c \in Claim /\ [task |-> c.task, fence |-> c.fence, phase |-> "received"] \in Exec
  BY DEF TypeOK, Claim, Exec, Phase
<1>2. TypeOK'
  BY <1>1, BoundAssumption DEF TypeOK, Active, Terminal, Fence, Claim, Exec, Report, Phase,
                               DeliverClaim, rows
<1>3. FencesIssued'
  BY <1>1 DEF FencesIssued, TypeOK, Active, Terminal, Fence, Claim, Exec, Report, Phase,
              DeliverClaim, rows
<1>4. OneBearer'
  BY <1>1 DEF OneBearer, TypeOK, Active, Terminal, Fence, Claim, Exec, Report, Phase,
              DeliverClaim, rows
<1>5. RunOnce'
  BY <1>1 DEF RunOnce, TypeOK, Active, Terminal, Fence, Claim, Exec, Report, Phase,
              DeliverClaim, rows
<1>6. AcceptedIsOver'
  BY <1>1 DEF AcceptedIsOver, TypeOK, Active, Terminal, Fence, Claim, Exec, Report, Phase,
              DeliverClaim, rows
<1>7. SettlingRejected'
  BY <1>1 DEF SettlingRejected, TypeOK, Active, Terminal, Fence, Claim, Exec, Report, Phase,
              DeliverClaim, rows
<1>8. NoRunningRowForgotten'
  BY <1>1 DEF NoRunningRowForgotten, TypeOK, Active, Terminal, Fence, Claim, Exec, Report,
              Phase, DeliverClaim, rows
<1> QED BY <1>2, <1>3, <1>4, <1>5, <1>6, <1>7, <1>8

LEMMA LoseClaimKeeps ==
  ASSUME DeliveryInv, NEW c \in handing, LoseClaim(c) \/ RequeueAfterClaimFailure(c)
  PROVE  DeliveryInv'
<1> USE DEF DeliveryInv, Delivery, SameClaim, HasRun
<1>1. c \in Claim /\ c.task \in Task /\ faults' \in 0 .. MaxFault
  BY FaultCounted DEF TypeOK, Claim, LoseClaim, RequeueAfterClaimFailure
<1>2. 0 \in 0 .. MaxFence /\ \A t \in Task : issued[t] \in Nat
  BY BoundAssumption DEF TypeOK
<1>3. TypeOK'
  <2>1. CASE UNCHANGED <<rows>>
    BY <1>1, <2>1 DEF TypeOK, LoseClaim, RequeueAfterClaimFailure, rows, daemon
  <2>2. CASE /\ status' = [status EXCEPT ![c.task] = "queued"]
             /\ fence' = [fence EXCEPT ![c.task] = 0] /\ lease' = lease \ {c.task}
             /\ UNCHANGED issued
    <3>1. status' \in [Task -> {"queued"} \cup Active \cup Terminal] /\ fence' \in [Task -> 0 .. MaxFence]
      BY <1>1, <1>2, <2>2 DEF TypeOK
    <3>2. \A t \in Task : fence'[t] <= issued'[t] /\ (status'[t] \in Active => fence'[t] # 0)
      BY <1>1, <1>2, <2>2 DEF TypeOK, Active
    <3> QED BY <1>1, <2>2, <3>1, <3>2 DEF TypeOK, LoseClaim, RequeueAfterClaimFailure, daemon
  <2> QED BY <2>1, <2>2 DEF LoseClaim, RequeueAfterClaimFailure, rows
<1>4. FencesIssued'
  BY <1>1, <1>2 DEF FencesIssued, TypeOK, Active, Terminal, Fence, Claim, Exec, Report,
                    Phase, LoseClaim, RequeueAfterClaimFailure, rows, daemon
<1>5. OneBearer'
  BY <1>1, <1>2 DEF OneBearer, TypeOK, Active, Terminal, Fence, Claim, Exec, Report, Phase,
                    LoseClaim, RequeueAfterClaimFailure, rows, daemon
<1>6. RunOnce'
  BY <1>1, <1>2 DEF RunOnce, TypeOK, Active, Terminal, Fence, Claim, Exec, Report, Phase,
                    LoseClaim, RequeueAfterClaimFailure, rows, daemon
<1>7. AcceptedIsOver'
  BY <1>1, <1>2 DEF AcceptedIsOver, TypeOK, Active, Terminal, Fence, Claim, Exec, Report,
                    Phase, LoseClaim, RequeueAfterClaimFailure, rows, daemon
<1>8. SettlingRejected'
  BY <1>1, <1>2 DEF SettlingRejected, TypeOK, Active, Terminal, Fence, Claim, Exec, Report,
                    Phase, LoseClaim, RequeueAfterClaimFailure, rows, daemon
<1>9. NoRunningRowForgotten'
  BY <1>1, <1>2 DEF NoRunningRowForgotten, TypeOK, Active, Terminal, Fence, Claim, Exec,
                    Report, Phase, LoseClaim, RequeueAfterClaimFailure, rows, daemon
<1> QED BY <1>3, <1>4, <1>5, <1>6, <1>7, <1>8, <1>9

(* Leases bear on nothing else, and a row that is closed stays so. *)
LEMMA RowsClosedKeeps ==
  ASSUME DeliveryInv,
         status' \in [Task -> {"queued"} \cup Active \cup Terminal],
         \A t \in Task : status'[t] = status[t] \/ status'[t] \in Terminal,
         lease' \subseteq Task, faults' \in 0 .. MaxFault, barrier' \subseteq {"persistence", "recovery", "delivery"},
         ready' \in BOOLEAN, barrier \ {"recovery"} \subseteq barrier',
         \A t \in Task : status'[t] = "running" /\ ready' => ready \/ \E r \in outbox : r.task = t,
         UNCHANGED <<issued, fence, receipts, handing, execs, outbox, settling>>
  PROVE  DeliveryInv'
<1> USE DEF DeliveryInv, Delivery, SameClaim, HasRun
<1>1. TypeOK'
  BY BoundAssumption DEF TypeOK, Active, Terminal, Fence, Claim, Exec, Report, Phase
<1>2. FencesIssued'
  BY DEF FencesIssued, TypeOK, Active, Terminal, Fence, Claim, Exec, Report, Phase
<1>3. OneBearer'
  BY DEF OneBearer, TypeOK, Active, Terminal, Fence, Claim, Exec, Report, Phase
<1>4. RunOnce'
  BY DEF RunOnce, TypeOK, Active, Terminal, Fence, Claim, Exec, Report, Phase
<1>5. AcceptedIsOver'
  BY DEF AcceptedIsOver, TypeOK, Active, Terminal, Fence, Claim, Exec, Report, Phase
<1>6. SettlingRejected'
  BY DEF SettlingRejected, TypeOK, Active, Terminal, Fence, Claim, Exec, Report, Phase
<1>7. NoRunningRowForgotten'
  BY DEF NoRunningRowForgotten, TypeOK, Active, Terminal, Fence, Claim, Exec, Report, Phase
<1> QED BY <1>1, <1>2, <1>3, <1>4, <1>5, <1>6, <1>7

-----------------------------------------------------------------------------
(* Executing. *)

LEMMA ToPhaseKeeps ==
  ASSUME DeliveryInv, NEW e \in execs, NEW p \in Phase, execs' = ToPhase(e, p),
         \/ status' = status
         \/ status[e.task] = "dispatched" /\ status' = [status EXCEPT ![e.task] = "running"],
         HasRun(e) \/ p \in {"run", "report"} => HasRun([e EXCEPT !.phase = p]),
         p \in {"run", "report"} /\ ~HasRun(e) => status[e.task] = "dispatched" /\ status'[e.task] = "running",
         status' # status => p = "run",
         UNCHANGED <<issued, fence, lease, receipts, handing, ready, outbox, settling, barrier, faults>>
  PROVE  DeliveryInv'
<1> USE DEF DeliveryInv, Delivery, SameClaim, HasRun
<1>1. e \in Exec /\ [e EXCEPT !.phase = p] \in Exec
  BY DEF TypeOK, Exec
<1>2. [e EXCEPT !.phase = p].task = e.task /\ [e EXCEPT !.phase = p].fence = e.fence /\ [e EXCEPT !.phase = p].phase = p
  BY <1>1 DEF Exec
<1>3. TypeOK'
  BY <1>1, <1>2, BoundAssumption DEF TypeOK, Active, Terminal, Fence, Claim, Exec, Report,
                                     Phase, ToPhase
<1>4. FencesIssued'
  BY <1>1, <1>2 DEF FencesIssued, TypeOK, Active, Terminal, Fence, Claim, Exec, Report,
                    Phase, ToPhase
<1>5. OneBearer'
  BY <1>1, <1>2 DEF OneBearer, TypeOK, Active, Terminal, Fence, Claim, Exec, Report, Phase,
                    ToPhase
<1>6. RunOnce'
  BY <1>1, <1>2 DEF RunOnce, TypeOK, Active, Terminal, Fence, Claim, Exec, Report, Phase,
                    ToPhase
<1>7. AcceptedIsOver'
  BY <1>1, <1>2 DEF AcceptedIsOver, TypeOK, Active, Terminal, Fence, Claim, Exec, Report,
                    Phase, ToPhase
<1>8. SettlingRejected'
  BY <1>1, <1>2 DEF SettlingRejected, RunOnce, TypeOK, Active, Terminal, Fence, Claim, Exec,
                    Report, Phase, ToPhase
<1>9. NoRunningRowForgotten'
  BY <1>1, <1>2 DEF NoRunningRowForgotten, TypeOK, Active, Terminal, Fence, Claim, Exec,
                    Report, Phase, ToPhase
<1> QED BY <1>3, <1>4, <1>5, <1>6, <1>7, <1>8, <1>9

LEMMA SaveKeeps ==
  ASSUME DeliveryInv, NEW e \in execs, NEW kind \in Kinds, Save(e, kind), faults' \in 0 .. MaxFault,
         \/ status' = status /\ (kind = "complete" => HasRun(e))
         \/ status[e.task] = "dispatched" /\ status' = [status EXCEPT ![e.task] = "running"] /\ kind = "fail",
         UNCHANGED <<issued, fence, lease, receipts, handing>>
  PROVE  DeliveryInv'
<1> USE DEF DeliveryInv, Delivery, SameClaim, HasRun
<1>1. e \in Exec /\ [task |-> e.task, fence |-> e.fence, kind |-> kind] \in Report
  BY DEF TypeOK, Exec, Report, Kinds
<1>2. TypeOK'
  BY <1>1, BoundAssumption DEF TypeOK, Active, Terminal, Fence, Claim, Exec, Report, Phase,
                               Save, Kinds
<1>3. FencesIssued'
  BY <1>1 DEF FencesIssued, TypeOK, Active, Terminal, Fence, Claim, Exec, Report, Phase,
              Save, Kinds
<1>4. OneBearer'
  BY <1>1 DEF OneBearer, TypeOK, Active, Terminal, Fence, Claim, Exec, Report, Phase, Save,
              Kinds
<1>5. RunOnce'
  BY <1>1 DEF RunOnce, TypeOK, Active, Terminal, Fence, Claim, Exec, Report, Phase, Save, Kinds
<1>6. AcceptedIsOver'
  BY <1>1 DEF AcceptedIsOver, TypeOK, Active, Terminal, Fence, Claim, Exec, Report, Phase,
              Save, Kinds
<1>7. SettlingRejected'
  BY <1>1 DEF SettlingRejected, TypeOK, Active, Terminal, Fence, Claim, Exec, Report, Phase,
              Save, Kinds
<1>8. NoRunningRowForgotten'
  <2> DEFINE Kept(t) ==
               \/ \E x \in execs : x.task = t /\ x.phase \in {"run", "report"}
               \/ \E r \in outbox : r.task = t
               \/ "persistence" \in barrier
  <2> SUFFICES ASSUME NEW t \in Task, status'[t] = "running", ready'
               PROVE  Kept(t)'
    BY DEF NoRunningRowForgotten
  <2>1. CASE t = e.task
    BY <2>1, <1>1 DEF Save
  <2>2. CASE t # e.task
    <3>1. status[t] = "running" /\ ready
      BY <2>2, <1>1 DEF TypeOK, Save, Exec
    <3>2. Kept(t)
      BY <3>1 DEF NoRunningRowForgotten
    <3> QED BY <2>2, <3>2 DEF Save
  <2> QED BY <2>1, <2>2
<1> QED BY <1>2, <1>3, <1>4, <1>5, <1>6, <1>7, <1>8

LEMMA LostReportKeeps ==
  ASSUME DeliveryInv, NEW e \in execs, execs' = execs \ {e}, faults' \in 0 .. MaxFault,
         barrier' = barrier \cup {"persistence"} \/ (barrier' = barrier /\ status[e.task] \in Terminal),
         UNCHANGED <<status, issued, fence, lease, receipts, handing, ready, outbox, settling>>
  PROVE  DeliveryInv'
<1> USE DEF DeliveryInv, Delivery, SameClaim, HasRun
<1>1. TypeOK'
  BY BoundAssumption DEF TypeOK, Active, Terminal, Fence, Claim, Exec, Report, Phase
<1>2. FencesIssued'
  BY DEF FencesIssued, TypeOK, Active, Terminal, Fence, Claim, Exec, Report, Phase
<1>3. OneBearer'
  BY DEF OneBearer, TypeOK, Active, Terminal, Fence, Claim, Exec, Report, Phase
<1>4. RunOnce'
  BY DEF RunOnce, TypeOK, Active, Terminal, Fence, Claim, Exec, Report, Phase
<1>5. AcceptedIsOver'
  BY DEF AcceptedIsOver, TypeOK, Active, Terminal, Fence, Claim, Exec, Report, Phase
<1>6. SettlingRejected'
  BY DEF SettlingRejected, TypeOK, Active, Terminal, Fence, Claim, Exec, Report, Phase
<1>7. NoRunningRowForgotten'
  BY DEF NoRunningRowForgotten, TypeOK, Active, Terminal, Fence, Claim, Exec, Report, Phase
<1> QED BY <1>1, <1>2, <1>3, <1>4, <1>5, <1>6, <1>7

-----------------------------------------------------------------------------
(* Reporting. *)

LEMMA SendKeeps ==
  ASSUME DeliveryInv, NEW r \in outbox, Send(r)
  PROVE  DeliveryInv'
<1> USE DEF DeliveryInv, Delivery, SameClaim, HasRun
<1>1. r \in Report /\ faults' \in 0 .. MaxFault
  BY FaultCounted DEF TypeOK, Send
<1>2. [report |-> r, status |-> Outcome(r)] \in [report : Report, status : {"completed", "failed"}]
  BY <1>1 DEF Outcome
<1>3. TypeOK'
  BY <1>1, <1>2, BoundAssumption DEF TypeOK, Active, Terminal, Fence, Claim, Exec, Report,
                                     Phase, Send, Commit, Accepted, Rejected, Replay, Stale,
                                     Receipts, Open, Outcome
<1>4. FencesIssued'
  BY <1>1, <1>2 DEF FencesIssued, TypeOK, Active, Terminal, Fence, Claim, Exec, Report,
                    Phase, Send, Commit, Accepted, Rejected, Replay, Stale, Receipts, Open,
                    Outcome
<1>5. OneBearer'
  BY <1>1, <1>2 DEF OneBearer, TypeOK, Active, Terminal, Fence, Claim, Exec, Report, Phase,
                    Send, Commit, Accepted, Rejected, Replay, Stale, Receipts, Open, Outcome
<1>6. RunOnce'
  BY <1>1, <1>2 DEF RunOnce, TypeOK, Active, Terminal, Fence, Claim, Exec, Report, Phase,
                    Send, Commit, Accepted, Rejected, Replay, Stale, Receipts, Open, Outcome
<1>7. AcceptedIsOver'
  BY <1>1, <1>2 DEF AcceptedIsOver, TypeOK, Active, Terminal, Fence, Claim, Exec, Report,
                    Phase, Send, Commit, Accepted, Rejected, Replay, Stale, Receipts, Open,
                    Outcome
<1>8. SettlingRejected'
  BY <1>1, <1>2 DEF SettlingRejected, TypeOK, Active, Terminal, Fence, Claim, Exec, Report,
                    Phase, Send, Commit, Accepted, Rejected, Replay, Stale, Receipts, Open,
                    Outcome
<1>9. NoRunningRowForgotten'
  BY <1>1, <1>2 DEF NoRunningRowForgotten, AcceptedIsOver, TypeOK, Active, Terminal, Fence,
                    Claim, Exec, Report, Phase, Send, Commit, Accepted, Rejected, Replay,
                    Stale, Receipts, Open, Outcome
<1> QED BY <1>3, <1>4, <1>5, <1>6, <1>7, <1>8, <1>9

LEMMA PermanentRejectionKeeps ==
  ASSUME DeliveryInv, NEW r \in outbox, PermanentRejection(r)
  PROVE  DeliveryInv'
<1> USE DEF DeliveryInv, Delivery, SameClaim, HasRun
<1>1. TypeOK'
  BY BoundAssumption DEF TypeOK, Active, Terminal, Fence, Claim, Exec, Report, Phase,
                         PermanentRejection, Rejected, Replay, Accepted, Stale, Receipts,
                         Open, rows
<1>2. FencesIssued'
  BY DEF FencesIssued, TypeOK, Active, Terminal, Fence, Claim, Exec, Report, Phase,
         PermanentRejection, Rejected, Replay, Accepted, Stale, Receipts, Open, rows
<1>3. OneBearer'
  BY DEF OneBearer, TypeOK, Active, Terminal, Fence, Claim, Exec, Report, Phase,
         PermanentRejection, Rejected, Replay, Accepted, Stale, Receipts, Open, rows
<1>4. RunOnce'
  BY DEF RunOnce, TypeOK, Active, Terminal, Fence, Claim, Exec, Report, Phase,
         PermanentRejection, Rejected, Replay, Accepted, Stale, Receipts, Open, rows
<1>5. AcceptedIsOver'
  BY DEF AcceptedIsOver, TypeOK, Active, Terminal, Fence, Claim, Exec, Report, Phase,
         PermanentRejection, Rejected, Replay, Accepted, Stale, Receipts, Open, rows
<1>6. SettlingRejected'
  BY DEF SettlingRejected, RunOnce, AcceptedIsOver, TypeOK, Active, Terminal, Fence, Claim,
         Exec, Report, Phase, PermanentRejection, Rejected, Replay, Accepted, Stale,
         Receipts, Open, rows
<1>7. NoRunningRowForgotten'
  BY DEF NoRunningRowForgotten, TypeOK, Active, Terminal, Fence, Claim, Exec, Report, Phase,
         PermanentRejection, Rejected, Replay, Accepted, Stale, Receipts, Open, rows
<1> QED BY <1>1, <1>2, <1>3, <1>4, <1>5, <1>6, <1>7

LEMMA FallbackFailureKeeps ==
  ASSUME DeliveryInv, FallbackFailure
  PROVE  DeliveryInv'
<1> USE DEF DeliveryInv, Delivery, SameClaim, HasRun
<1>1. settling \in outbox /\ settling \in Report /\ settling.task \in Task /\ faults' \in 0 .. MaxFault
  BY FaultCounted DEF TypeOK, FallbackFailure, Report
<1>2. /\ status' \in [Task -> {"queued"} \cup Active \cup Terminal]
      /\ \A t \in Task : status'[t] \in Active => status[t] \in Active
  BY <1>1 DEF TypeOK, FallbackFailure, Active, Terminal
<1>3. TypeOK'
  <2>1. UNCHANGED <<issued, fence, lease, receipts, handing, ready, execs>> /\ settling' = NoReport /\ outbox' \subseteq outbox
        /\ barrier' \subseteq {"persistence", "recovery", "delivery"}
    BY <1>1 DEF FallbackFailure, TypeOK
  <2> QED BY <1>1, <1>2, <2>1 DEF TypeOK
<1>4. FencesIssued'
  BY <1>1, <1>2 DEF FencesIssued, TypeOK, Active, Terminal, Fence, Claim, Exec, Report,
                    Phase, FallbackFailure
<1>5. OneBearer'
  BY <1>1, <1>2 DEF OneBearer, TypeOK, Active, Terminal, Fence, Claim, Exec, Report, Phase,
                    FallbackFailure
<1>6. RunOnce'
  BY <1>1, <1>2 DEF RunOnce, TypeOK, Active, Terminal, Fence, Claim, Exec, Report, Phase,
                    FallbackFailure
<1>7. AcceptedIsOver'
  BY <1>1, <1>2 DEF AcceptedIsOver, TypeOK, Active, Terminal, Fence, Claim, Exec, Report,
                    Phase, FallbackFailure
<1>8. SettlingRejected'
  BY <1>1, <1>2 DEF SettlingRejected, TypeOK, Active, Terminal, Fence, Claim, Exec, Report,
                    Phase, FallbackFailure
<1>9. NoRunningRowForgotten'
  BY <1>1, <1>2 DEF NoRunningRowForgotten, TypeOK, Active, Terminal, Fence, Claim, Exec,
                    Report, Phase, FallbackFailure
<1> QED BY <1>3, <1>4, <1>5, <1>6, <1>7, <1>8, <1>9

LEMMA DaemonCrashKeeps ==
  ASSUME DeliveryInv, DaemonCrash
  PROVE  DeliveryInv'
<1> USE DEF DeliveryInv, Delivery, SameClaim, HasRun
<1>1. faults' \in 0 .. MaxFault
  BY FaultCounted DEF TypeOK, DaemonCrash
<1>2. TypeOK'
  BY <1>1, BoundAssumption DEF TypeOK, Active, Terminal, Fence, Claim, Exec, Report, Phase,
                               DaemonCrash, rows
<1>3. FencesIssued'
  BY <1>1 DEF FencesIssued, TypeOK, Active, Terminal, Fence, Claim, Exec, Report, Phase,
              DaemonCrash, rows
<1>4. OneBearer'
  BY <1>1 DEF OneBearer, TypeOK, Active, Terminal, Fence, Claim, Exec, Report, Phase,
              DaemonCrash, rows
<1>5. RunOnce'
  BY <1>1 DEF RunOnce, TypeOK, Active, Terminal, Fence, Claim, Exec, Report, Phase,
              DaemonCrash, rows
<1>6. AcceptedIsOver'
  BY <1>1 DEF AcceptedIsOver, TypeOK, Active, Terminal, Fence, Claim, Exec, Report, Phase,
              DaemonCrash, rows
<1>7. SettlingRejected'
  BY <1>1 DEF SettlingRejected, TypeOK, Active, Terminal, Fence, Claim, Exec, Report, Phase,
              DaemonCrash, rows
<1>8. NoRunningRowForgotten'
  BY <1>1 DEF NoRunningRowForgotten, TypeOK, Active, Terminal, Fence, Claim, Exec, Report,
              Phase, DaemonCrash, rows
<1> QED BY <1>2, <1>3, <1>4, <1>5, <1>6, <1>7, <1>8

-----------------------------------------------------------------------------
(* The actions of an execution, by what they do to it. *)

LEMMA ReportKeeps ==
  ASSUME DeliveryInv, NEW e \in execs, NEW kind \in Kinds, ReportTerminalTask(e, kind),
         kind = "complete" => HasRun(e), UNCHANGED <<rows, receipts, handing>>
  PROVE  DeliveryInv'
<1>1. faults' \in 0 .. MaxFault
  BY FaultCounted DEF ReportTerminalTask, DeliveryInv, TypeOK
<1>2. CASE Save(e, kind)
  BY <1>1, <1>2, SaveKeeps DEF rows
<1>3. CASE /\ execs' = execs \ {e} /\ barrier' = barrier \cup {"persistence"}
           /\ UNCHANGED <<ready, outbox, settling>>
  BY <1>1, <1>3, LostReportKeeps DEF rows
<1> QED BY <1>2, <1>3 DEF ReportTerminalTask

LEMMA RunKeeps == ASSUME DeliveryInv, NEW e \in execs, Run(e) PROVE DeliveryInv'
<1> USE DEF HasRun
<1>1. e \in Exec /\ \A p \in Phase : [e EXCEPT !.phase = p].phase = p
  BY DEF DeliveryInv, TypeOK, Exec
<1>2. /\ "prepare" \in Phase /\ "run" \in Phase /\ "report" \in Phase
      /\ "fail" \in Kinds /\ "complete" \in Kinds
  BY DEF Phase, Kinds
<1>3. CASE ClaimEnvRoot(e)
  <2>1. CASE ReportTerminalTask(e, "fail") /\ UNCHANGED <<rows, receipts, handing>>
    BY <1>2, <2>1, ReportKeeps
  <2>2. CASE /\ execs' = ToPhase(e, "prepare") /\ ~HasRun(e)
             /\ UNCHANGED <<rows, receipts, handing, ready, outbox, settling, barrier, faults>>
    BY <1>1, <1>2, <2>2, ToPhaseKeeps DEF rows
  <2> QED BY <1>3, <2>1, <2>2 DEF ClaimEnvRoot
<1>4. CASE StartTask(e)
  <2>1. CASE /\ status[e.task] = "dispatched" /\ status' = [status EXCEPT ![e.task] = "running"]
             /\ execs' = ToPhase(e, "run") /\ ~HasRun(e)
             /\ UNCHANGED <<issued, fence, lease, receipts, handing, ready, outbox, settling, barrier, faults>>
    <3>1. status'[e.task] = "running"
      BY <1>1, <2>1 DEF DeliveryInv, TypeOK, Exec
    <3> QED BY <1>1, <1>2, <2>1, <3>1, ToPhaseKeeps
  <2>2. CASE /\ status[e.task] = "dispatched" /\ status' = [status EXCEPT ![e.task] = "running"]
             /\ Fault /\ Save(e, "fail") /\ UNCHANGED <<issued, fence, lease, receipts, handing>>
    BY <1>2, <2>2, FaultCounted, SaveKeeps DEF DeliveryInv
  <2>3. CASE ReportTerminalTask(e, "fail") /\ UNCHANGED <<rows, receipts, handing>>
    BY <1>2, <2>3, ReportKeeps
  <2> QED BY <1>4, <2>1, <2>2, <2>3 DEF StartTask, rows
<1>5. CASE ExecutionFails(e)
  BY <1>2, <1>5, ReportKeeps DEF ExecutionFails
<1>6. CASE AgentFinishes(e)
  BY <1>1, <1>2, <1>6, ToPhaseKeeps DEF AgentFinishes, rows
<1>7. CASE ReportTaskResult(e)
  BY <1>2, <1>7, ReportKeeps DEF ReportTaskResult
<1>8. CASE NoticeTerminal(e)
  BY <1>8, LostReportKeeps DEF NoticeTerminal, rows, DeliveryInv, TypeOK
<1> QED BY <1>3, <1>4, <1>5, <1>6, <1>7, <1>8 DEF Run

-----------------------------------------------------------------------------
(* Rows that somebody closes, and leases that come and go. *)

LEMMA RowKeeps == ASSUME DeliveryInv, NEW t \in Task, Row(t) PROVE DeliveryInv'
<1> USE DEF DeliveryInv
<1>1. CASE ClaimTask(t) \/ ReclaimStaleDispatched(t)
  BY <1>1, DispatchKeeps DEF ClaimTask, ReclaimStaleDispatched
<1>2. CASE LeaseLapses(t) \/ LeaseCutOff(t) \/ CancelTask(t) \/ FailStaleTask(t) \/ FailOfflineTask(t)
  <2> DEFINE same == <<issued, fence, receipts, handing, ready, execs, outbox, settling, barrier>>
  <2>1. UNCHANGED same /\ lease' \subseteq Task /\ faults' \in 0 .. MaxFault
    BY <1>2, FaultCounted
       DEF TypeOK, LeaseLapses, LeaseCutOff, CancelTask, FailStaleTask, FailOfflineTask, daemon
  <2>2. \/ status' = status
        \/ status' = [status EXCEPT ![t] = "cancelled"]
        \/ status' = [status EXCEPT ![t] = "failed"]
    BY <1>2 DEF LeaseLapses, LeaseCutOff, CancelTask, FailStaleTask, FailOfflineTask
  <2>3. /\ status' \in [Task -> {"queued"} \cup Active \cup Terminal]
        /\ \A u \in Task : status'[u] = status[u] \/ status'[u] \in Terminal
    BY <2>2 DEF TypeOK, Terminal
  <2>4. ready' \in BOOLEAN /\ barrier' = barrier /\ barrier' \subseteq {"persistence", "recovery", "delivery"}
    BY <2>1 DEF TypeOK
  <2> QED BY <2>1, <2>3, <2>4, RowsClosedKeeps
<1> QED BY <1>1, <1>2 DEF Row

LEMMA ExtendLeaseKeeps == ASSUME DeliveryInv, NEW e \in execs, ExtendLease(e) PROVE DeliveryInv'
<1>1. e.task \in Task
  BY DEF DeliveryInv, TypeOK, Exec
<1> QED BY <1>1, RowsClosedKeeps DEF ExtendLease, daemon, DeliveryInv, TypeOK

LEMMA RecoverOrphansKeeps ==
  ASSUME DeliveryInv, RecoverOrphans, ready', barrier' \in {barrier, barrier \ {"recovery"}}
  PROVE  DeliveryInv'
<1>1. /\ status' \in [Task -> {"queued"} \cup Active \cup Terminal]
      /\ \A t \in Task : status'[t] = status[t] \/ status'[t] \in Terminal
  BY DEF DeliveryInv, TypeOK, RecoverOrphans, Terminal
<1>2. \A t \in Task : status'[t] = "running" => \E r \in outbox : r.task = t
  BY DEF DeliveryInv, TypeOK, RecoverOrphans, Preserved, Active
<1>3. lease' \subseteq Task /\ faults' \in 0 .. MaxFault /\ ready' \in BOOLEAN
  BY DEF RecoverOrphans, DeliveryInv, TypeOK
<1>4. barrier' \subseteq {"persistence", "recovery", "delivery"} /\ barrier \ {"recovery"} \subseteq barrier'
  BY DEF DeliveryInv, TypeOK
<1> QED BY <1>1, <1>2, <1>3, <1>4, RowsClosedKeeps DEF RecoverOrphans

LEMMA JoinRecoveryFailsKeeps == ASSUME DeliveryInv, JoinRecoveryFails PROVE DeliveryInv'
<1>1. faults' \in 0 .. MaxFault
  BY FaultCounted DEF JoinRecoveryFails, DeliveryInv, TypeOK
<1> QED BY <1>1, RowsClosedKeeps DEF JoinRecoveryFails, rows, DeliveryInv, TypeOK

LEMMA DeliveryStep == DeliveryInv /\ [Next]_vars => DeliveryInv'
<1> SUFFICES ASSUME DeliveryInv, [Next]_vars PROVE DeliveryInv'
  OBVIOUS
<1>1. ASSUME NEW t \in Task, Row(t) PROVE DeliveryInv'
  BY <1>1, RowKeeps
<1>2. ASSUME NEW c \in handing, Hand(c) PROVE DeliveryInv'
  BY <1>2, DeliverClaimKeeps, LoseClaimKeeps DEF Hand
<1>3. ASSUME NEW e \in execs, Run(e) \/ ExtendLease(e) PROVE DeliveryInv'
  BY <1>3, RunKeeps, ExtendLeaseKeeps
<1>4. ASSUME NEW r \in outbox, Deliver(r) PROVE DeliveryInv'
  BY <1>4, SendKeeps, PermanentRejectionKeeps DEF Deliver
<1>5. CASE FallbackFailure \/ DaemonCrash \/ JoinRecoveryFails
  BY <1>5, FallbackFailureKeeps, DaemonCrashKeeps, JoinRecoveryFailsKeeps
<1>6. CASE Restart
  BY <1>6, RecoverOrphansKeeps DEF Restart
<1>7. CASE RecoverTrackedOrphans
  BY <1>7, RecoverOrphansKeeps DEF RecoverTrackedOrphans
<1>8. CASE UNCHANGED vars
  BY <1>8 DEF vars, rows, daemon, DeliveryInv, Delivery, TypeOK, FencesIssued, OneBearer,
              RunOnce,
     AcceptedIsOver, SettlingRejected, NoRunningRowForgotten
<1> QED BY <1>1, <1>2, <1>3, <1>4, <1>5, <1>6, <1>7, <1>8 DEF Next

LEMMA DeliveryInvariant == Spec => []DeliveryInv
BY DeliveryInit, DeliveryStep, PTL DEF Spec

-----------------------------------------------------------------------------
(* The variables keep their types: in particular no generation exceeds the *)
(* ones issued, and an active row always has one.                          *)
THEOREM DeliveryTypes == Spec => []TypeOK
<1>1. DeliveryInv => TypeOK
  BY DEF DeliveryInv
<1> QED BY <1>1, DeliveryInvariant, PTL

(* While the daemon is up, every running row has an execution or a saved   *)
(* report, unless a report could not be saved and claims are paused.       *)
THEOREM RunningRowsRemembered == Spec => []NoRunningRowForgotten
<1>1. DeliveryInv => NoRunningRowForgotten
  BY DEF DeliveryInv
<1> QED BY <1>1, DeliveryInvariant, PTL

-----------------------------------------------------------------------------
(* Which steps end a row. *)

(* A row that completes does so by its own report. *)
LEMMA OnlyReportsComplete ==
  ASSUME DeliveryInv, Next, NEW t \in Task, status[t] # "completed", status'[t] = "completed"
  PROVE  [task |-> t, fence |-> fence[t], kind |-> "complete"] \in outbox
<1> USE DEF DeliveryInv
<1>1. ASSUME NEW u \in Task, Row(u) PROVE FALSE
  BY <1>1 DEF Row, ClaimTask, ReclaimStaleDispatched, Dispatch, LeaseLapses, LeaseCutOff,
              CancelTask,
     FailStaleTask, FailOfflineTask, TypeOK
<1>2. ASSUME NEW c \in handing, Hand(c) PROVE FALSE
  BY <1>2 DEF Hand, DeliverClaim, LoseClaim, RequeueAfterClaimFailure, rows, TypeOK
<1>3. ASSUME NEW e \in execs, Run(e) \/ ExtendLease(e) PROVE FALSE
  BY <1>3 DEF Run, ClaimEnvRoot, StartTask, ExecutionFails, AgentFinishes, ReportTaskResult,
              NoticeTerminal,
     ExtendLease, rows, TypeOK
<1>4. ASSUME NEW r \in outbox, Deliver(r)
      PROVE  [task |-> t, fence |-> fence[t], kind |-> "complete"] \in outbox
  <2>1. r \in Report
    BY DEF TypeOK
  <2>2. /\ Accepted(r) /\ status' = [status EXCEPT ![r.task] = Outcome(r)]
    BY <1>4 DEF Deliver, Send, Commit, PermanentRejection, rows
  <2>3. r.task = t /\ r.kind = "complete" /\ r.fence = fence[t]
    BY <2>1, <2>2 DEF Accepted, Stale, Outcome, TypeOK, Report
  <2>4. r = [task |-> t, fence |-> fence[t], kind |-> "complete"]
    BY <2>1, <2>3 DEF Report
  <2> QED BY <2>4
<1>5. CASE FallbackFailure
  BY <1>5 DEF FallbackFailure, TypeOK, Active
<1>6. CASE Restart \/ RecoverTrackedOrphans
  BY <1>6 DEF Restart, RecoverTrackedOrphans, RecoverOrphans
<1>7. CASE DaemonCrash \/ JoinRecoveryFails
  BY <1>7 DEF DaemonCrash, JoinRecoveryFails, rows
<1> QED BY <1>1, <1>2, <1>3, <1>4, <1>5, <1>6, <1>7 DEF Next

(* A row is completed by the result of the generation it is at, however    *)
(* often it was claimed again and whatever older results are on disk.      *)
THEOREM CompletedByCurrentClaim == Spec => StaleClaimNeverCompletes
<1>1. DeliveryInv /\ [Next]_vars =>
        [\A t \in Task : status[t] # "completed" /\ status'[t] = "completed" =>
           [task |-> t, fence |-> fence[t], kind |-> "complete"] \in outbox]_vars
  BY OnlyReportsComplete
<1> QED BY <1>1, DeliveryInvariant, PTL DEF Spec, StaleClaimNeverCompletes

(* While the current result of a running row is on disk, the daemon takes  *)
(* no step that fails the row.                                             *)
LEMMA OnlySweepersFail ==
  ASSUME DeliveryInv, Next, NEW r \in outbox, r.kind = "complete", ~Stale(r),
         status[r.task] = "running", status'[r.task] = "failed"
  PROVE  UNCHANGED daemon
<1> USE DEF DeliveryInv, Delivery
<1>1. r \in Report /\ r.task \in Task /\ fence[r.task] = r.fence
  BY DEF TypeOK, Report, Stale
<1>2. ASSUME NEW u \in Task, Row(u) PROVE UNCHANGED daemon
  BY <1>1, <1>2 DEF Row, ClaimTask, ReclaimStaleDispatched, Dispatch, LeaseLapses,
                    LeaseCutOff, CancelTask,
     FailStaleTask, FailOfflineTask, TypeOK
<1>3. ASSUME NEW c \in handing, Hand(c) PROVE FALSE
  BY <1>1, <1>3 DEF Hand, DeliverClaim, LoseClaim, RequeueAfterClaimFailure, rows, TypeOK
<1>4. ASSUME NEW e \in execs, Run(e) \/ ExtendLease(e) PROVE FALSE
  BY <1>1, <1>4 DEF Run, ClaimEnvRoot, StartTask, ExecutionFails, AgentFinishes,
                    ReportTaskResult, NoticeTerminal,
     ExtendLease, rows, TypeOK
<1>5. ASSUME NEW q \in outbox, Deliver(q) PROVE FALSE
  <2>1. q \in Report
    BY DEF TypeOK
  <2>2. Accepted(q) /\ status' = [status EXCEPT ![q.task] = Outcome(q)]
    BY <1>5 DEF Deliver, Send, Commit, PermanentRejection, rows
  <2>3. q.task = r.task /\ q.fence = r.fence /\ q.kind # "complete"
    BY <1>1, <2>1, <2>2 DEF Accepted, Stale, Outcome, TypeOK, Report
  <2>4. q = r
    BY <2>3 DEF OneBearer, SameClaim
  <2> QED BY <2>3, <2>4
<1>6. CASE FallbackFailure
  <2>1. settling \in outbox /\ settling.kind = "complete"
    BY <1>6 DEF FallbackFailure, TypeOK, SettlingRejected
  <2>2. settling.task = r.task
    <3>1. settling.task \in Task
      BY <2>1 DEF TypeOK, Report
    <3> QED BY <1>1, <1>6, <3>1 DEF FallbackFailure, TypeOK
  <2>3. settling = r
    BY <2>1, <2>2 DEF RunOnce
  <2> QED BY <1>1, <1>6, <2>3 DEF FallbackFailure, SettlingRejected, Terminal
<1>7. CASE Restart \/ RecoverTrackedOrphans
  <2>1. r.task \in Preserved
    BY <1>1 DEF Preserved
  <2> QED BY <1>1, <1>7, <2>1 DEF Restart, RecoverTrackedOrphans, RecoverOrphans
<1>8. CASE DaemonCrash \/ JoinRecoveryFails
  BY <1>8 DEF DaemonCrash, JoinRecoveryFails, rows
<1> QED BY <1>2, <1>3, <1>4, <1>5, <1>6, <1>7, <1>8 DEF Next

(* A finished result on disk is lost to the server's own sweepers only:    *)
(* neither recovery nor the settlement of another report fails its row.    *)
THEOREM SavedResultsDecide == Spec => SavedResultOnlySwept
<1>1. DeliveryInv /\ [Next]_vars =>
        [\A r \in outbox :
           r.kind = "complete" /\ ~Stale(r) /\ status[r.task] = "running"
           /\ status'[r.task] = "failed" => UNCHANGED daemon]_vars
  BY OnlySweepersFail
<1> QED BY <1>1, DeliveryInvariant, PTL DEF Spec, SavedResultOnlySwept

=============================================================================
