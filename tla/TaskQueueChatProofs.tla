------------------------ MODULE TaskQueueChatProofs -------------------------
(***************************************************************************)
(* Proofs about ChannelInbound, for any messages, deliveries, tasks and    *)
(* slips: a message is stored once, and a task waits for its media; about  *)
(* ReclaimCheck, for any tasks, mishaps and times that satisfy             *)
(* HintAssumption: a lost task is looked for in time; and about the run    *)
(* they share with TaskQueue.                                              *)
(***************************************************************************)
EXTENDS TaskQueueChatMC, TLAPS

Sealed == {"deferred", "queued", "running", "done", "cancelled"}

\* Tasks begin in the order of their numbers.
Numbered == \E k \in 0..MaxTurns : \A j \in Turn : turn[j].step = "none" <=> j > k

\* What is not stored has no owner, and an owner has committed.
OwnersCommitted ==
  \A m \in Message :
    /\ text[m].copies = 0 => text[m].owner = 0
    /\ text[m].owner # 0 => turn[text[m].owner].step \in Sealed

\* The media job of a message starts once, after the message is stored.
ScheduledOnce ==
  /\ \A m \in Message : job[m] # "none" => dedup[m] = "done"
  /\ \A h \in Try : try[h] = "schedule" => dedup[h[1]] = "done" /\ job[h[1]] = "none"
  /\ \A g, h \in Try : try[g] = "schedule" /\ try[h] = "schedule" /\ g[1] = h[1] => g = h

\* The deadline of a deferred task covers every marker of its batch.
DeadlineCovers ==
  \A k \in Turn, m \in Message :
    turn[k].step = "deferred" /\ text[m].owner = k /\ text[m].marker => m \in turn[k].fire

InboundInv ==
  /\ InboundTypeOK /\ Numbered /\ OwnersCommitted /\ ScheduledOnce /\ DeadlineCovers
  /\ IngestedOnce /\ HeldForMedia

-----------------------------------------------------------------------------
LEMMA InitInv == InboundInit => InboundInv
<1> SUFFICES ASSUME InboundInit PROVE InboundInv
  OBVIOUS
<1> USE InboundAssumption DEF InboundInit, Turn, Try
<1>1. InboundTypeOK
  BY DEF InboundTypeOK, TryStep, TurnStep
<1>2. Numbered
  <2>1. 0 \in 0..MaxTurns /\ \A j \in Turn : turn[j].step = "none" <=> j > 0
    OBVIOUS
  <2> QED
    BY <2>1 DEF Numbered
<1>3. OwnersCommitted /\ ScheduledOnce
  BY DEF OwnersCommitted, ScheduledOnce
<1>4. DeadlineCovers /\ IngestedOnce /\ HeldForMedia
  BY DEF DeadlineCovers, IngestedOnce, HeldForMedia, Batch, HasMarker
<1> QED
  BY <1>1, <1>2, <1>3, <1>4 DEF InboundInv

LEMMA LastType ==
  ASSUME Numbered
  PROVE  Last \in 0..MaxTurns /\ \A j \in Turn : turn[j].step = "none" <=> j > Last
BY DEF Numbered, Last

TurnRecord == [step : TurnStep, rev : Nat, fire : SUBSET Message]

\* What writing a step, and the deadlines, of a task leaves.
LEMMA StepWritten ==
  ASSUME InboundTypeOK, NEW k \in Turn, NEW s \in TurnStep, turn' = [turn EXCEPT ![k].step = s]
  PROVE  /\ turn' \in [Turn -> TurnRecord] /\ turn'[k].step = s /\ turn'[k].fire = turn[k].fire
         /\ \A j \in Turn : j # k => turn'[j] = turn[j]
<1>1. turn \in [Turn -> TurnRecord]
  BY DEF InboundTypeOK, TurnRecord
<1>2. turn[k] \in TurnRecord
  BY <1>1
<1>3. [turn[k] EXCEPT !.step = s] \in TurnRecord
  BY <1>2 DEF TurnRecord
<1>4. turn' = [turn EXCEPT ![k] = [turn[k] EXCEPT !.step = s]]
  OBVIOUS
<1>5. turn' \in [Turn -> TurnRecord] /\ \A j \in Turn : j # k => turn'[j] = turn[j]
  BY <1>1, <1>3, <1>4, Zenon
<1>6. turn'[k] = [turn[k] EXCEPT !.step = s]
  BY <1>1, <1>4
<1> QED
  BY <1>2, <1>5, <1>6 DEF TurnRecord

LEMMA StepAndFireWritten ==
  ASSUME InboundTypeOK, NEW k \in Turn, NEW s \in TurnStep, NEW F \in SUBSET Message,
         turn' = [turn EXCEPT ![k].step = s, ![k].fire = F]
  PROVE  /\ turn' \in [Turn -> TurnRecord] /\ turn'[k].step = s /\ turn'[k].fire = F
         /\ \A j \in Turn : j # k => turn'[j] = turn[j]
<1> DEFINE written == [turn[k] EXCEPT !.step = s, !.fire = F]
<1>1. turn \in [Turn -> TurnRecord]
  BY DEF InboundTypeOK, TurnRecord
<1>2. turn[k] \in TurnRecord
  BY <1>1
<1>3. written \in TurnRecord /\ written.step = s /\ written.fire = F
  BY <1>2 DEF TurnRecord
<1>4. turn' = [turn EXCEPT ![k] = written]
  BY <1>1
<1> HIDE DEF written
<1>5. turn' \in [Turn -> TurnRecord] /\ \A j \in Turn : j # k => turn'[j] = turn[j]
  BY <1>1, <1>3, <1>4, Zenon
<1>6. turn'[k] = written
  BY <1>1, <1>4
<1> QED
  BY <1>3, <1>5, <1>6

-----------------------------------------------------------------------------
(* What keeps each part, whatever the step. *)

LEMMA NumberedKept ==
  ASSUME Numbered, \A k \in Turn : turn'[k].step = "none" <=> turn[k].step = "none"
  PROVE  Numbered'
BY DEF Numbered, Turn

LEMMA ScheduledKept ==
  ASSUME ScheduledOnce,
         \A m \in Message : dedup[m] = "done" => dedup'[m] = "done",
         \A m \in Message : job'[m] = "none" <=> job[m] = "none",
         \A h \in Try : try'[h] = "schedule" => try[h] = "schedule"
  PROVE  ScheduledOnce'
BY DEF ScheduledOnce, Try

LEMMA TurnsKept ==
  ASSUME InboundInv, UNCHANGED <<text, turn, job, finalizing, unpromoted>>
  PROVE  Numbered' /\ OwnersCommitted' /\ DeadlineCovers' /\ HeldForMedia'
BY DEF InboundInv, Numbered, OwnersCommitted, DeadlineCovers, HeldForMedia, Batch, HasMarker

-----------------------------------------------------------------------------
(* The deliveries. *)

LEMMA ClaimMessageInv ==
  ASSUME InboundInv, NEW h \in Try, ClaimMessage(h), UNCHANGED kind
  PROVE  InboundInv'
<1> DEFINE m == h[1]
<1>0. m \in Message /\ h[2] \in Nat
  BY InboundAssumption DEF Try
<1>1. InboundTypeOK'
  BY <1>0 DEF InboundInv, InboundTypeOK, ClaimMessage, TryStep, tasks, losses
<1>2. Numbered' /\ OwnersCommitted' /\ DeadlineCovers' /\ HeldForMedia'
  BY TurnsKept DEF ClaimMessage, tasks, losses
<1>3. ScheduledOnce'
  BY <1>0, ScheduledKept DEF InboundInv, InboundTypeOK, ClaimMessage
<1>4. IngestedOnce'
  BY <1>0 DEF InboundInv, InboundTypeOK, IngestedOnce, ClaimMessage
<1> QED
  BY <1>1, <1>2, <1>3, <1>4 DEF InboundInv

LEMMA HeldTooLongInv ==
  ASSUME InboundInv, NEW m \in Message, HeldTooLong(m), UNCHANGED kind
  PROVE  InboundInv'
<1>1. InboundTypeOK'
  BY InboundAssumption DEF InboundInv, InboundTypeOK, HeldTooLong, Slip, router, tasks
<1>2. Numbered' /\ OwnersCommitted' /\ DeadlineCovers' /\ HeldForMedia'
  BY TurnsKept DEF HeldTooLong, router, tasks
<1>3. ScheduledOnce'
  BY ScheduledKept DEF InboundInv, InboundTypeOK, HeldTooLong, router
<1>4. IngestedOnce'
  BY DEF InboundInv, InboundTypeOK, IngestedOnce, HeldTooLong
<1> QED
  BY <1>1, <1>2, <1>3, <1>4 DEF InboundInv

LEMMA AppendInv ==
  ASSUME InboundInv, NEW h \in Try, AppendBegins(h) \/ AppendLocks(h), UNCHANGED kind
  PROVE  InboundInv'
<1>1. InboundTypeOK'
  <2>1. CASE AppendBegins(h)
    BY <2>1, LastType DEF InboundInv, InboundTypeOK, AppendBegins, TryStep, store, tasks, losses
  <2>2. CASE AppendLocks(h)
    BY <2>2 DEF InboundInv, InboundTypeOK, AppendLocks, TryStep, store, tasks, losses
  <2> QED
    BY <2>1, <2>2
<1>2. Numbered' /\ OwnersCommitted' /\ DeadlineCovers' /\ HeldForMedia'
  BY TurnsKept DEF AppendBegins, AppendLocks, store, tasks, losses
<1>3. ScheduledOnce'
  BY ScheduledKept DEF InboundInv, InboundTypeOK, AppendBegins, AppendLocks, store
<1>4. IngestedOnce'
  BY DEF InboundInv, IngestedOnce, AppendBegins, AppendLocks, store
<1> QED
  BY <1>1, <1>2, <1>3, <1>4 DEF InboundInv

\* A commit stores a message that was not stored.
LEMMA AppendCommitsInv ==
  ASSUME InboundInv, NEW h \in Try, AppendCommits(h), UNCHANGED kind
  PROVE  InboundInv'
<1> DEFINE m == h[1]
<1> USE DEF InboundInv
<1>0. m \in Message
  BY DEF Try
<1>1. CASE ~Mark(h)
  <2>1. /\ try' = [try EXCEPT ![h] = "over"]
        /\ UNCHANGED <<dedup, text, revision, stranded, slips, holder, armed, job, tasks,
                       unpromoted, kind>>
        /\ since' = [since EXCEPT ![h] = 0]
    BY <1>1 DEF AppendCommits
  <2>2. InboundTypeOK'
    BY <2>1, InboundAssumption DEF InboundTypeOK, TryStep, tasks
  <2>3. Numbered' /\ OwnersCommitted' /\ DeadlineCovers' /\ HeldForMedia'
    BY <2>1, TurnsKept DEF tasks
  <2>4. ScheduledOnce'
    BY <2>1, ScheduledKept DEF InboundTypeOK
  <2> QED
    BY <2>1, <2>2, <2>3, <2>4 DEF IngestedOnce
<1>2. CASE Mark(h)
  <2> DEFINE new == [copies |-> text[m].copies + 1, rev |-> revision', since |-> since[h],
                     owner |-> 0, marker |-> m \in Media,
                     rearm |-> {revision'} \cup {text[n].rev : n \in Unowned}]
  <2>1. /\ dedup' = [dedup EXCEPT ![m] = "done"]
        /\ revision' \in {revision, revision + 1}
        /\ text' = [text EXCEPT ![m] = new]
        /\ \/ try' = [try EXCEPT ![h] = "schedule"] /\ UNCHANGED <<stranded, slips>>
           \/ Slip /\ try' = [try EXCEPT ![h] = "over"] /\ stranded' = stranded \cup {m}
        /\ since' = [since EXCEPT ![h] = 0]
        /\ UNCHANGED <<kind, holder, armed, job, turn, finalizing, replied, unpromoted>>
    BY <1>2 DEF AppendCommits, Mark, tasks
  <2>2. new \in [copies : Nat, rev : Nat, since : 0..MaxTurns, owner : 0..MaxTurns,
                 marker : BOOLEAN, rearm : SUBSET Nat]
    BY <1>0, <2>1, InboundAssumption DEF InboundTypeOK, Unowned
  <2>3. dedup[m] # "done" /\ text[m].copies = 0 /\ text[m].owner = 0 /\ job[m] = "none"
    BY <1>0, <1>2 DEF Mark, IngestedOnce, OwnersCommitted, ScheduledOnce
  <2>4. InboundTypeOK'
    BY <1>0, <2>1, <2>2, InboundAssumption DEF InboundTypeOK, Slip, TryStep
  <2>5. \A n \in Message : n # m => text'[n] = text[n]
    BY <2>1, <1>0 DEF InboundTypeOK
  <2>6. text'[m] = new
    BY <2>1, <1>0 DEF InboundTypeOK
  <2>7. Numbered'
    BY <2>1, NumberedKept
  <2>8. OwnersCommitted'
    BY <2>1, <2>3, <2>5, <2>6 DEF OwnersCommitted, InboundTypeOK
  <2>9. ScheduledOnce'
    <3>1. \A g \in Try : try[g] = "schedule" => g[1] # m
      BY <2>3 DEF ScheduledOnce
    <3>2. \A g \in Try : try'[g] = "schedule" => g = h \/ try[g] = "schedule"
      BY <2>1 DEF InboundTypeOK
    <3> QED
      BY <1>0, <2>1, <2>3, <3>1, <3>2 DEF ScheduledOnce, InboundTypeOK, Try
  <2>10. \A k \in Turn : Batch(k)' = Batch(k) /\ m \notin Batch(k)
    BY <1>0, <2>3, <2>5, <2>6 DEF Batch, Turn
  <2>11. DeadlineCovers'
    BY <2>1, <2>5, <2>6 DEF DeadlineCovers, Turn
  <2>12. HeldForMedia'
    <3>1. \A k \in Turn : \A n \in Batch(k) : HasMarker(n)' = HasMarker(n)
      BY <2>5, <2>10 DEF Batch, HasMarker
    <3> QED
      BY <2>1, <2>10, <3>1 DEF HeldForMedia
  <2>13. IngestedOnce'
    BY <1>0, <2>1, <2>3, <2>5, <2>6 DEF IngestedOnce, InboundTypeOK
  <2> QED
    BY <2>4, <2>7, <2>8, <2>9, <2>11, <2>12, <2>13
<1> QED
  BY <1>1, <1>2

LEMMA GiveUpKeeps ==
  ASSUME InboundInv, NEW h \in Try, GiveUp(h), text' = text, job' = job
  PROVE  /\ try' \in [Try -> TryStep] /\ since' \in [Try -> 0..MaxTurns]
         /\ dedup' \in [Message -> {"free", "held", "old", "done"}]
         /\ ScheduledOnce' /\ IngestedOnce'
<1>0. h[1] \in Message
  BY DEF Try
<1>1. /\ try' \in [Try -> TryStep] /\ since' \in [Try -> 0..MaxTurns]
      /\ dedup' \in [Message -> {"free", "held", "old", "done"}]
  BY <1>0, InboundAssumption DEF InboundInv, InboundTypeOK, GiveUp, TryStep
<1>2. ScheduledOnce'
  BY <1>0, ScheduledKept DEF InboundInv, InboundTypeOK, GiveUp, Mark
<1>3. IngestedOnce'
  BY <1>0 DEF InboundInv, InboundTypeOK, IngestedOnce, GiveUp, Mark
<1> QED
  BY <1>1, <1>2, <1>3

LEMMA HandlerFailsInv ==
  ASSUME InboundInv, NEW h \in Try, HandlerFails(h), UNCHANGED kind
  PROVE  InboundInv'
<1>2. Numbered' /\ OwnersCommitted' /\ DeadlineCovers' /\ HeldForMedia'
  BY TurnsKept DEF HandlerFails, tasks
<1>3. /\ try' \in [Try -> TryStep] /\ since' \in [Try -> 0..MaxTurns]
      /\ dedup' \in [Message -> {"free", "held", "old", "done"}]
      /\ ScheduledOnce' /\ IngestedOnce'
  <2>1. CASE GiveUp(h)
    BY <2>1, GiveUpKeeps DEF HandlerFails
  <2>2. CASE /\ try' = [try EXCEPT ![h] = "over"] /\ since' = [since EXCEPT ![h] = 0]
             /\ UNCHANGED dedup
    <3>1. ScheduledOnce'
      BY <2>2, ScheduledKept DEF InboundInv, InboundTypeOK, HandlerFails
    <3> QED
      BY <2>2, <3>1, InboundAssumption
         DEF InboundInv, InboundTypeOK, IngestedOnce, HandlerFails, TryStep
  <2> QED
    BY <2>1, <2>2 DEF HandlerFails
<1>4. InboundTypeOK'
  BY <1>3, InboundAssumption DEF InboundInv, InboundTypeOK, HandlerFails, Slip, tasks
<1> QED
  BY <1>2, <1>3, <1>4 DEF InboundInv

\* Only one delivery of a message comes to schedule its media.
LEMMA ScheduleInv ==
  ASSUME InboundInv, NEW h \in Try, Schedule(h), UNCHANGED kind
  PROVE  InboundInv'
<1> DEFINE m == h[1]
<1> USE DEF InboundInv
<1>0. m \in Message /\ dedup[m] = "done" /\ job[m] = "none"
  BY DEF Try, Schedule, ScheduledOnce
<1>1. /\ try' = [try EXCEPT ![h] = "over"]
      /\ text' = [text EXCEPT ![m].rearm = {}]
      /\ armed' \subseteq armed \cup text[m].rearm
      /\ job' = job \/ job' = [job EXCEPT ![m] = "resolve"]
      /\ stranded' \subseteq stranded
      /\ UNCHANGED <<dedup, holder, revision, since, turn, finalizing, replied, unpromoted, slips>>
  BY DEF Schedule, Rearm, tasks
<1>2. \A n \in Message : /\ text'[n].copies = text[n].copies /\ text'[n].owner = text[n].owner
                         /\ text'[n].marker = text[n].marker
  BY <1>0, <1>1 DEF InboundTypeOK
<1>3. InboundTypeOK'
  <2>1. text' \in [Message -> [copies : Nat, rev : Nat, since : 0..MaxTurns,
                               owner : 0..MaxTurns, marker : BOOLEAN, rearm : SUBSET Nat]]
    BY <1>0, <1>1 DEF InboundTypeOK
  <2>2. armed' \in SUBSET Nat
    <3>1. text[m].rearm \in SUBSET Nat
      BY <1>0 DEF InboundTypeOK
    <3> QED
      BY <1>1, <3>1 DEF InboundTypeOK
  <2>3. /\ try' \in [Try -> TryStep] /\ stranded' \in SUBSET Message
        /\ job' \in [Message -> {"none", "resolve", "promote", "over"}]
    BY <1>0, <1>1 DEF InboundTypeOK, TryStep
  <2> QED
    BY <1>1, <2>1, <2>2, <2>3 DEF InboundTypeOK
<1>4. Numbered' /\ OwnersCommitted' /\ DeadlineCovers' /\ IngestedOnce'
  BY <1>1, <1>2, NumberedKept DEF OwnersCommitted, DeadlineCovers, IngestedOnce
<1>5. ScheduledOnce'
  <2>1. \A g \in Try : try'[g] = "schedule" => try[g] = "schedule" /\ g[1] # m
    BY <1>1 DEF InboundTypeOK, ScheduledOnce, Schedule
  <2> QED
    BY <1>0, <1>1, <2>1 DEF ScheduledOnce, InboundTypeOK, Try
<1>6. HeldForMedia'
  <2>1. \A k \in Turn : Batch(k)' = Batch(k)
    BY <1>2 DEF Batch
  <2>2. \A n \in Message : HasMarker(n)' = HasMarker(n)
    BY <1>2 DEF HasMarker
  <2>3. \A n \in Message : job[n] = "promote" => job'[n] = "promote"
    BY <1>0, <1>1 DEF InboundTypeOK
  <2> QED
    BY <1>1, <2>1, <2>2, <2>3 DEF HeldForMedia, Batch
<1> QED
  BY <1>3, <1>4, <1>5, <1>6

-----------------------------------------------------------------------------
(* The flush. *)

\* A step of a task that is not committed, before or after it.
LEMMA UnsealedStep ==
  ASSUME InboundInv, NEW k \in Turn, turn[k].step \notin Sealed, turn'[k].step \notin Sealed,
         turn' \in [Turn -> [step : TurnStep, rev : Nat, fire : SUBSET Message]],
         \A j \in Turn : j # k => turn'[j] = turn[j],
         \A j \in finalizing \cup unpromoted : j # k => j \in finalizing' \cup unpromoted',
         text' = text, job' = job
  PROVE  OwnersCommitted' /\ DeadlineCovers' /\ HeldForMedia'
<1>1. OwnersCommitted'
  BY DEF InboundInv, InboundTypeOK, OwnersCommitted, Turn
<1>2. DeadlineCovers'
  BY DEF InboundInv, DeadlineCovers, Sealed
<1>3. HeldForMedia'
  BY DEF InboundInv, HeldForMedia, Sealed, Batch, HasMarker
<1> QED
  BY <1>1, <1>2, <1>3

LEMMA TimerFiresInv ==
  ASSUME InboundInv, NEW r \in armed, TimerFires(r), UNCHANGED kind
  PROVE  InboundInv'
<1> DEFINE k == Last + 1
           new == [step |-> "begun", rev |-> r, fire |-> {}]
<1> USE DEF InboundInv
<1>0. /\ Last \in 0..MaxTurns /\ k \in Turn /\ turn[k].step = "none"
      /\ \A j \in Turn : turn[j].step = "none" <=> j > Last
  BY LastType, InboundAssumption DEF TimerFires, Turn
<1>1. /\ turn' = [turn EXCEPT ![k] = new] /\ armed' = armed \ {r}
      /\ UNCHANGED <<dedup, holder, text, revision, try, since, job, finalizing, replied,
                     stranded, unpromoted, slips>>
  BY DEF TimerFires, store, losses
<1> HIDE DEF k
<1>2. /\ turn' \in [Turn -> [step : TurnStep, rev : Nat, fire : SUBSET Message]]
      /\ turn'[k].step = "begun" /\ \A j \in Turn : j # k => turn'[j] = turn[j]
  BY <1>0, <1>1 DEF InboundTypeOK, TurnStep
<1>3. InboundTypeOK'
  BY <1>1, <1>2 DEF InboundTypeOK
<1>4. Numbered'
  <2>1. k \in 0..MaxTurns /\ \A j \in Turn : turn'[j].step = "none" <=> j > k
    BY <1>0, <1>2, InboundAssumption DEF Turn, k
  <2> QED
    BY <2>1 DEF Numbered
<1>5. OwnersCommitted' /\ DeadlineCovers' /\ HeldForMedia'
  BY <1>0, <1>1, <1>2, UnsealedStep DEF Sealed
<1>6. ScheduledOnce' /\ IngestedOnce'
  BY <1>1 DEF ScheduledOnce, IngestedOnce
<1> QED
  BY <1>3, <1>4, <1>5, <1>6

LEMMA LocksInv ==
  ASSUME InboundInv, NEW k \in Turn, EnqueueLocksSession(k) \/ EnqueueLocksBinding(k),
         UNCHANGED kind
  PROVE  InboundInv'
<1> USE DEF InboundInv
<1>1. /\ turn[k].step \in {"begun", "session"}
      /\ \/ turn' = [turn EXCEPT ![k].step = "session"]
         \/ \E fire \in SUBSET Message :
              turn' = [turn EXCEPT ![k].step = "binding", ![k].fire = fire]
      /\ finalizing \subseteq finalizing' /\ finalizing' \subseteq finalizing \cup {k}
      /\ UNCHANGED <<dedup, holder, text, revision, try, since, armed, job, replied,
                     stranded, unpromoted, slips>>
  <2>1. CASE EnqueueLocksSession(k)
    BY <2>1 DEF EnqueueLocksSession, store, router, losses
  <2>2. CASE EnqueueLocksBinding(k)
    <3> DEFINE fire == {m \in Message : HasMarker(m) /\ text[m].rev = turn[k].rev}
    <3>1. fire \in SUBSET Message
      OBVIOUS
    <3>2. turn' = [turn EXCEPT ![k].step = "binding", ![k].fire = fire]
      BY <2>2 DEF EnqueueLocksBinding
    <3> QED
      BY <2>2, <3>1, <3>2 DEF EnqueueLocksBinding, store, router, losses
  <2> QED
    BY <2>1, <2>2
<1>2. /\ turn' \in [Turn -> [step : TurnStep, rev : Nat, fire : SUBSET Message]]
      /\ turn'[k].step \in {"session", "binding"}
      /\ \A j \in Turn : j # k => turn'[j] = turn[j]
  <2>1. "session" \in TurnStep /\ "binding" \in TurnStep
    BY DEF TurnStep
  <2>2. CASE turn' = [turn EXCEPT ![k].step = "session"]
    BY <2>1, <2>2, StepWritten DEF TurnRecord
  <2>3. CASE \E fire \in SUBSET Message :
               turn' = [turn EXCEPT ![k].step = "binding", ![k].fire = fire]
    BY <2>1, <2>3, StepAndFireWritten DEF TurnRecord
  <2> QED
    BY <1>1, <2>2, <2>3
<1>3. InboundTypeOK'
  BY <1>1, <1>2 DEF InboundTypeOK
<1>4. Numbered'
  BY <1>1, <1>2, NumberedKept
<1>5. OwnersCommitted' /\ DeadlineCovers' /\ HeldForMedia'
  BY <1>1, <1>2, UnsealedStep DEF Sealed
<1>6. ScheduledOnce' /\ IngestedOnce'
  BY <1>1 DEF ScheduledOnce, IngestedOnce
<1> QED
  BY <1>3, <1>4, <1>5, <1>6

\* The batch of a task is empty until it commits.
LEMMA EnqueueCommitsInv ==
  ASSUME InboundInv, NEW k \in Turn, EnqueueCommits(k), UNCHANGED kind
  PROVE  InboundInv'
<1> DEFINE batch == {m \in Unowned : text[m].rev = turn[k].rev /\ ~Answered(m)}
           late  == {m \in batch : HasMarker(m)}
           step  == IF k \in finalizing' THEN "deferred" ELSE "queued"
<1> USE DEF InboundInv
<1>1. /\ turn[k].step = "binding"
      /\ text' = [m \in Message |->
           IF m \in batch THEN [text[m] EXCEPT !.owner = k] ELSE text[m]]
      /\ finalizing' = IF late = {} THEN finalizing ELSE finalizing \cup {k}
      /\ turn' = [turn EXCEPT ![k].step = step, ![k].fire = @ \cup late]
      /\ UNCHANGED <<dedup, holder, revision, try, since, armed, job, replied, stranded,
                     unpromoted, slips>>
  BY DEF EnqueueCommits, router, losses
<1>2. /\ batch \in SUBSET Message /\ late = {m \in batch : text[m].marker}
      /\ \A m \in batch : text[m].copies # 0 /\ text[m].owner = 0
      /\ step \in {"deferred", "queued"}
      /\ step = "deferred" <=> k \in finalizing'
  BY DEF HasMarker, Unowned, InboundTypeOK
<1>3. k \in 1..MaxTurns /\ k # 0 /\ MaxTurns \in Nat
  BY InboundAssumption DEF Turn
<1>4. \A m \in Message : text[m].owner # k
  BY <1>1, <1>3 DEF OwnersCommitted, Sealed
<1> HIDE DEF batch, late, step
<1>5. /\ turn'[k].step = step /\ turn'[k].fire = turn[k].fire \cup late
      /\ \A j \in Turn : j # k => turn'[j] = turn[j]
      /\ turn' \in [Turn -> [step : TurnStep, rev : Nat, fire : SUBSET Message]]
  <2> DEFINE fire == turn[k].fire \cup late
  <2>1. fire \in SUBSET Message /\ step \in TurnStep
    BY <1>2 DEF InboundTypeOK, TurnStep
  <2>2. turn' = [turn EXCEPT ![k].step = step, ![k].fire = fire]
    BY <1>1 DEF InboundTypeOK
  <2> HIDE DEF fire
  <2>3. /\ turn' \in [Turn -> TurnRecord] /\ turn'[k].step = step /\ turn'[k].fire = fire
        /\ \A j \in Turn : j # k => turn'[j] = turn[j]
    BY <2>1, <2>2, StepAndFireWritten
  <2> QED
    BY <2>3 DEF TurnRecord, fire
<1>6. \A m \in Message : /\ text'[m].copies = text[m].copies
                         /\ text'[m].marker = text[m].marker
                         /\ text'[m].owner = IF m \in batch THEN k ELSE text[m].owner
  BY <1>1 DEF InboundTypeOK
<1>7. InboundTypeOK'
  <2>1. text' \in [Message -> [copies : Nat, rev : Nat, since : 0..MaxTurns,
                               owner : 0..MaxTurns, marker : BOOLEAN, rearm : SUBSET Nat]]
    <3>1. ASSUME NEW m \in Message
          PROVE  text'[m] \in [copies : Nat, rev : Nat, since : 0..MaxTurns,
                               owner : 0..MaxTurns, marker : BOOLEAN, rearm : SUBSET Nat]
      <4>1. CASE m \in batch
        <5>1. text'[m] = [text[m] EXCEPT !.owner = k]
          BY <1>1, <4>1
        <5>2. k \in 0..MaxTurns
          BY <1>3
        <5>3. text[m] \in [copies : Nat, rev : Nat, since : 0..MaxTurns,
                           owner : 0..MaxTurns, marker : BOOLEAN, rearm : SUBSET Nat]
          BY DEF InboundTypeOK
        <5> QED
          BY <5>1, <5>2, <5>3
      <4>2. CASE m \notin batch
        BY <1>1, <4>2 DEF InboundTypeOK
      <4> QED
        BY <4>1, <4>2
    <3> QED
      BY <1>1, <3>1
  <2> QED
    BY <1>1, <1>5, <2>1 DEF InboundTypeOK
<1>8. Numbered'
  BY <1>1, <1>2, <1>5, NumberedKept
<1>9. OwnersCommitted'
  <2>1. \A m \in batch : text'[m].copies # 0 /\ turn'[text'[m].owner].step \in Sealed
    BY <1>2, <1>5, <1>6 DEF Sealed
  <2>2. \A m \in Message \ batch : text[m].owner # 0 => turn'[text[m].owner] = turn[text[m].owner]
    BY <1>3, <1>4, <1>5 DEF InboundTypeOK, Turn
  <2> QED
    BY <1>2, <1>6, <2>1, <2>2 DEF OwnersCommitted
<1>10. DeadlineCovers'
  <2>1. ASSUME NEW m \in Message, text'[m].owner = k, text'[m].marker
        PROVE  m \in turn'[k].fire
    BY <1>2, <1>4, <1>5, <1>6, <2>1
  <2>2. ASSUME NEW j \in Turn, j # k, NEW m \in Message, text'[m].owner = j
        PROVE  text[m].owner = j
    BY <1>6, <2>2
  <2> QED
    BY <1>5, <1>6, <2>1, <2>2 DEF DeadlineCovers
<1>11. ScheduledOnce' /\ IngestedOnce'
  BY <1>1, <1>6 DEF ScheduledOnce, IngestedOnce
<1>12. HeldForMedia'
  <2>1. \A j \in Turn : j # k => Batch(j)' = Batch(j)
    BY <1>2, <1>6 DEF Batch, Turn
  <2>2. Batch(k)' = batch
    BY <1>2, <1>4, <1>6 DEF Batch
  <2>3. \A m \in Message : HasMarker(m)' = HasMarker(m)
    BY <1>6 DEF HasMarker
  <2>4. k \notin finalizing' => \A m \in batch : ~HasMarker(m)
    BY <1>1, <1>2 DEF HasMarker
  <2>5. \A j \in finalizing \cup unpromoted : j \in finalizing' \cup unpromoted'
    BY <1>1
  <2>6. ASSUME NEW j \in Turn, j # k
        PROVE  /\ turn'[j].step \in {"queued", "running"} => \A m \in Batch(j)' : ~HasMarker(m)'
               /\ turn'[j].step = "deferred" =>
                    \/ j \in finalizing' \cup unpromoted' \/ turn'[j].fire = {}
                    \/ \E m \in Batch(j)' : HasMarker(m)'
                    \/ \E m \in Message : job'[m] = "promote"
    BY <1>1, <1>5, <2>1, <2>3, <2>5, <2>6 DEF HeldForMedia, Batch
  <2>7. /\ turn'[k].step \in {"queued", "running"} => \A m \in Batch(k)' : ~HasMarker(m)'
        /\ turn'[k].step = "deferred" => k \in finalizing'
    BY <1>2, <1>5, <2>2, <2>3, <2>4
  <2> QED
    BY <2>6, <2>7 DEF HeldForMedia
<1> QED
  BY <1>7, <1>8, <1>9, <1>10, <1>11, <1>12

LEMMA AbortKeeps ==
  ASSUME InboundInv, NEW k \in Turn, turn[k].step \in {"begun", "session", "binding"},
         Abort(k), text' = text, job' = job, unpromoted' = unpromoted
  PROVE  /\ turn' \in [Turn -> [step : TurnStep, rev : Nat, fire : SUBSET Message]]
         /\ finalizing' \in SUBSET Turn /\ stranded' \in SUBSET Message
         /\ Numbered' /\ OwnersCommitted' /\ DeadlineCovers' /\ HeldForMedia'
<1>1. /\ turn' \in [Turn -> [step : TurnStep, rev : Nat, fire : SUBSET Message]]
      /\ turn'[k].step = "over" /\ \A j \in Turn : j # k => turn'[j] = turn[j]
      /\ finalizing' = finalizing \ {k} /\ stranded' \in SUBSET Message
  BY DEF InboundInv, InboundTypeOK, TurnStep, Abort, Unowned
<1>2. Numbered'
  BY <1>1, NumberedKept DEF InboundInv
<1>3. OwnersCommitted' /\ DeadlineCovers' /\ HeldForMedia'
  BY <1>1, UnsealedStep DEF Sealed
<1> QED
  BY <1>1, <1>2, <1>3 DEF InboundInv, InboundTypeOK

LEMMA FlushFailsInv ==
  ASSUME InboundInv, NEW k \in Turn, FlushFails(k), UNCHANGED kind
  PROVE  InboundInv'
<1>1. /\ turn[k].step \in {"begun", "session", "binding"} /\ Abort(k) /\ Slip
      /\ UNCHANGED <<dedup, holder, text, revision, try, since, armed, job, replied, unpromoted>>
  BY DEF FlushFails, store, router
<1>2. ScheduledOnce' /\ IngestedOnce'
  BY <1>1 DEF InboundInv, ScheduledOnce, IngestedOnce
<1> QED
  BY <1>1, <1>2, AbortKeeps, InboundAssumption DEF InboundInv, InboundTypeOK, Slip

LEMMA DeadlockBrokenInv ==
  ASSUME InboundInv, NEW h \in Try, NEW k \in Turn, DeadlockBroken(h, k), UNCHANGED kind
  PROVE  InboundInv'
<1>1. /\ turn[k].step = "session"
      /\ UNCHANGED <<holder, text, revision, armed, job, replied, unpromoted, slips>>
  BY DEF DeadlockBroken, Deadlocked
<1>2. CASE GiveUp(h) /\ UNCHANGED <<turn, finalizing, stranded>>
  <2>1. Numbered' /\ OwnersCommitted' /\ DeadlineCovers' /\ HeldForMedia'
    BY <1>1, <1>2, TurnsKept
  <2> QED
    BY <1>1, <1>2, <2>1, GiveUpKeeps DEF InboundInv, InboundTypeOK
<1>3. CASE Abort(k) /\ UNCHANGED <<try, since, dedup>>
  <2>1. ScheduledOnce' /\ IngestedOnce'
    BY <1>1, <1>3 DEF InboundInv, ScheduledOnce, IngestedOnce
  <2> QED
    BY <1>1, <1>3, <2>1, AbortKeeps DEF InboundInv, InboundTypeOK
<1> QED
  BY <1>2, <1>3 DEF DeadlockBroken

-----------------------------------------------------------------------------
(* Media and turns. *)

\* A step that moves tasks from one committed state to another, or does nothing.
LEMMA CommittedStep ==
  ASSUME InboundInv,
         turn' \in [Turn -> [step : TurnStep, rev : Nat, fire : SUBSET Message]],
         \A k \in Turn : turn'[k] = turn[k] \/ {turn[k].step, turn'[k].step} \subseteq Sealed,
         \A m \in Message : text'[m].copies = text[m].copies /\ text'[m].owner = text[m].owner
  PROVE  Numbered' /\ OwnersCommitted'
<1>1. \A k \in Turn : turn'[k].step = "none" <=> turn[k].step = "none"
  BY DEF Sealed
<1>2. Numbered'
  BY <1>1, NumberedKept DEF InboundInv
<1>3. OwnersCommitted'
  BY DEF InboundInv, InboundTypeOK, OwnersCommitted, Turn
<1> QED
  BY <1>2, <1>3

LEMMA PromoteReadyKeeps ==
  ASSUME InboundInv, PromoteReady, text' = text
  PROVE  /\ turn' \in [Turn -> [step : TurnStep, rev : Nat, fire : SUBSET Message]]
         /\ Numbered' /\ OwnersCommitted' /\ DeadlineCovers' /\ HeldForMedia'
<1> USE DEF InboundInv
<1>1. /\ \A k \in Turn : k \notin MediaReady => turn'[k] = turn[k]
      /\ \A k \in MediaReady : /\ turn[k].step = "deferred" /\ turn'[k].step = "queued"
                               /\ turn'[k].fire = {} /\ turn'[k].rev = turn[k].rev
                               /\ \A m \in Batch(k) : ~HasMarker(m)
      /\ turn' \in [Turn -> [step : TurnStep, rev : Nat, fire : SUBSET Message]]
  <2>1. turn' = [k \in Turn |-> IF k \in MediaReady THEN Queued(k) ELSE turn[k]]
    BY DEF PromoteReady
  <2>2. \A k \in Turn : /\ Queued(k) \in [step : TurnStep, rev : Nat, fire : SUBSET Message]
                         /\ Queued(k).step = "queued" /\ Queued(k).fire = {}
                         /\ Queued(k).rev = turn[k].rev
    BY DEF Queued, InboundTypeOK, TurnStep
  <2>3. \A k \in MediaReady : /\ k \in Turn /\ turn[k].step = "deferred"
                              /\ \A m \in Batch(k) : ~HasMarker(m)
    BY DEF MediaReady, At
  <2> QED
    BY <2>1, <2>2, <2>3 DEF InboundTypeOK
<1>2. Numbered' /\ OwnersCommitted'
  BY <1>1, CommittedStep DEF Sealed
<1>3. DeadlineCovers'
  BY <1>1 DEF DeadlineCovers
<1>4. HeldForMedia'
  <2>1. \A k \in Turn : Batch(k)' = Batch(k)
    BY DEF Batch
  <2>2. \A m \in Message : HasMarker(m)' = HasMarker(m)
    BY DEF HasMarker
  <2>3. \A k \in Turn : turn'[k].step = "deferred" => \E m \in Batch(k) : HasMarker(m)
    BY <1>1 DEF MediaReady, At
  <2>4. \A k \in Turn : turn'[k].step \in {"queued", "running"} =>
                          \A m \in Batch(k) : ~HasMarker(m)
    BY <1>1 DEF HeldForMedia
  <2> QED
    BY <2>1, <2>2, <2>3, <2>4 DEF HeldForMedia, Batch
<1> QED
  BY <1>1, <1>2, <1>3, <1>4

LEMMA PromotionFailsKeeps ==
  ASSUME InboundInv, PromotionFails, text' = text
  PROVE  /\ turn' = turn /\ unpromoted' \in SUBSET Turn
         /\ Numbered' /\ OwnersCommitted' /\ DeadlineCovers' /\ HeldForMedia'
<1> USE DEF InboundInv
<1>1. turn' = turn /\ unpromoted' = unpromoted \cup MediaReady /\ MediaReady \in SUBSET Turn
  BY DEF PromotionFails, MediaReady, At
<1>2. Numbered' /\ OwnersCommitted' /\ DeadlineCovers'
  BY <1>1 DEF Numbered, OwnersCommitted, DeadlineCovers
<1>3. HeldForMedia'
  <2>1. \A k \in Turn : turn[k].step = "deferred" =>
          k \in unpromoted' \/ \E m \in Batch(k) : HasMarker(m)
    BY <1>1 DEF MediaReady, At
  <2> QED
    BY <1>1, <2>1 DEF HeldForMedia, Batch, HasMarker
<1> QED
  BY <1>1, <1>2, <1>3 DEF InboundTypeOK

LEMMA FinalizeInv ==
  ASSUME InboundInv, NEW k \in Turn, FinalizeEnqueue(k), UNCHANGED kind
  PROVE  InboundInv'
<1>1. /\ finalizing' = finalizing \ {k}
      /\ UNCHANGED <<dedup, holder, text, revision, try, since, armed, job, replied, stranded>>
      /\ PromoteReady \/ PromotionFails
  BY DEF FinalizeEnqueue, store, router
<1>2. ScheduledOnce' /\ IngestedOnce'
  BY <1>1 DEF InboundInv, ScheduledOnce, IngestedOnce
<1>3. CASE PromoteReady
  <2>1. unpromoted' = {} /\ slips' = slips
    BY <1>3 DEF PromoteReady
  <2> QED
    BY <1>1, <1>2, <1>3, <2>1, PromoteReadyKeeps DEF InboundInv, InboundTypeOK
<1>4. CASE PromotionFails
  <2>1. slips' \in 0..MaxSlips
    BY <1>4, InboundAssumption DEF PromotionFails, Slip, InboundInv, InboundTypeOK
  <2> QED
    BY <1>1, <1>2, <1>4, <2>1, PromotionFailsKeeps DEF InboundInv, InboundTypeOK
<1> QED
  BY <1>1, <1>3, <1>4

LEMMA PromoteMediaReadyInv ==
  ASSUME InboundInv, NEW m \in Message, PromoteMediaReady(m), UNCHANGED kind
  PROVE  InboundInv'
<1>1. /\ job[m] = "promote" /\ job' = [job EXCEPT ![m] = "over"]
      /\ UNCHANGED <<dedup, holder, text, revision, try, since, armed, finalizing, replied,
                     stranded>>
      /\ PromoteReady \/ PromotionFails
  BY DEF PromoteMediaReady, store
<1>2. ScheduledOnce'
  BY <1>1, ScheduledKept DEF InboundInv, InboundTypeOK
<1>3. IngestedOnce' /\ job' \in [Message -> {"none", "resolve", "promote", "over"}]
  BY <1>1 DEF InboundInv, InboundTypeOK, IngestedOnce
<1>4. CASE PromoteReady
  <2>1. unpromoted' = {} /\ slips' = slips
    BY <1>4 DEF PromoteReady
  <2> QED
    BY <1>1, <1>2, <1>3, <1>4, <2>1, PromoteReadyKeeps DEF InboundInv, InboundTypeOK
<1>5. CASE PromotionFails
  <2>1. slips' \in 0..MaxSlips
    BY <1>5, InboundAssumption DEF PromotionFails, Slip, InboundInv, InboundTypeOK
  <2> QED
    BY <1>1, <1>2, <1>3, <1>5, <2>1, PromotionFailsKeeps DEF InboundInv, InboundTypeOK
<1> QED
  BY <1>1, <1>4, <1>5

LEMMA MarkerCleared ==
  ASSUME InboundTypeOK, NEW m \in Message, text' = [text EXCEPT ![m].marker = FALSE]
  PROVE  text' \in [Message -> [copies : Nat, rev : Nat, since : 0..MaxTurns,
                                owner : 0..MaxTurns, marker : BOOLEAN, rearm : SUBSET Nat]]
<1> DEFINE Text == [copies : Nat, rev : Nat, since : 0..MaxTurns,
                    owner : 0..MaxTurns, marker : BOOLEAN, rearm : SUBSET Nat]
<1>1. text \in [Message -> Text]
  BY DEF InboundTypeOK
<1>2. text[m] \in Text
  BY <1>1
<1>3. [text[m] EXCEPT !.marker = FALSE] \in Text
  BY <1>2, Zenon
<1> HIDE DEF Text
<1>4. text' \in [Message -> Text]
  BY <1>1, <1>3, Zenon
<1> QED
  BY <1>4 DEF Text

LEMMA BindMediaInv ==
  ASSUME InboundInv, NEW m \in Message, BindMedia(m), UNCHANGED kind
  PROVE  InboundInv'
<1> USE DEF InboundInv
<1>1. /\ job[m] = "resolve" /\ job' = [job EXCEPT ![m] = "promote"]
      /\ UNCHANGED <<dedup, holder, revision, try, since, armed, turn, finalizing, replied,
                     stranded, unpromoted>>
      /\ \/ text' = [text EXCEPT ![m].marker = FALSE] /\ UNCHANGED slips
         \/ Slip /\ UNCHANGED text
  BY DEF BindMedia, tasks
<1>2. \A n \in Message : /\ text'[n].copies = text[n].copies /\ text'[n].owner = text[n].owner
                         /\ text'[n].marker => text[n].marker
  <2>1. CASE text' = [text EXCEPT ![m].marker = FALSE]
    BY <2>1 DEF InboundTypeOK
  <2>2. CASE UNCHANGED text
    BY <2>2
  <2> QED
    BY <1>1, <2>1, <2>2
<1>3. InboundTypeOK'
  <2>1. text' \in [Message -> [copies : Nat, rev : Nat, since : 0..MaxTurns,
                               owner : 0..MaxTurns, marker : BOOLEAN, rearm : SUBSET Nat]]
    <3>1. CASE text' = [text EXCEPT ![m].marker = FALSE]
      BY <3>1, MarkerCleared
    <3>2. CASE UNCHANGED text
      BY <3>2 DEF InboundTypeOK
    <3> QED
      BY <1>1, <3>1, <3>2
  <2>2. slips' \in 0..MaxSlips
    BY <1>1, InboundAssumption DEF InboundTypeOK, Slip
  <2>3. job' \in [Message -> {"none", "resolve", "promote", "over"}]
    BY <1>1 DEF InboundTypeOK
  <2> QED
    BY <1>1, <2>1, <2>2, <2>3 DEF InboundTypeOK
<1>4. Numbered' /\ OwnersCommitted'
  BY <1>1, <1>2, CommittedStep DEF InboundTypeOK
<1>5. ScheduledOnce'
  BY <1>1, ScheduledKept DEF InboundTypeOK
<1>6. DeadlineCovers' /\ IngestedOnce'
  BY <1>1, <1>2 DEF DeadlineCovers, IngestedOnce
<1>7. HeldForMedia'
  <2>1. job'[m] = "promote"
    BY <1>1 DEF InboundTypeOK
  <2> QED
    BY <1>1, <1>2, <2>1 DEF HeldForMedia, Batch, HasMarker
<1> QED
  BY <1>3, <1>4, <1>5, <1>6, <1>7

LEMMA DeadlinePassesInv ==
  ASSUME InboundInv, NEW m \in Message, DeadlinePasses(m), UNCHANGED kind
  PROVE  InboundInv'
<1> DEFINE passed == {k \in At({"deferred"}) : /\ text[m].owner = k /\ turn[k].fire # {m}
                                               /\ \A n \in Batch(k) \ {m} : ~HasMarker(n)}
<1> USE DEF InboundInv
<1>1. /\ text' = [text EXCEPT ![m].marker = FALSE]
      /\ turn' = [k \in Turn |-> [turn[k] EXCEPT !.fire = @ \ {m}]]
      /\ unpromoted' = IF HasMarker(m) THEN unpromoted \cup passed ELSE unpromoted
      /\ UNCHANGED <<dedup, holder, revision, try, since, armed, job, finalizing, replied,
                     stranded, slips>>
  BY DEF DeadlinePasses, router
<1>2. /\ \A n \in Message : /\ text'[n].copies = text[n].copies
                            /\ text'[n].owner = text[n].owner
                            /\ text'[n].marker <=> text[n].marker /\ n # m
      /\ \A k \in Turn : turn'[k].step = turn[k].step /\ turn'[k].fire = turn[k].fire \ {m}
      /\ passed \in SUBSET Turn
  BY <1>1 DEF InboundTypeOK, At
<1>3. turn' \in [Turn -> [step : TurnStep, rev : Nat, fire : SUBSET Message]]
  BY <1>1 DEF InboundTypeOK
<1>4. InboundTypeOK'
  <2>1. text' \in [Message -> [copies : Nat, rev : Nat, since : 0..MaxTurns,
                               owner : 0..MaxTurns, marker : BOOLEAN, rearm : SUBSET Nat]]
    BY <1>1, MarkerCleared
  <2> QED
    BY <1>1, <1>2, <1>3, <2>1 DEF InboundTypeOK
<1>5. Numbered'
  BY <1>2, NumberedKept
<1>6. OwnersCommitted'
  BY <1>2 DEF OwnersCommitted, InboundTypeOK, Turn
<1>7. DeadlineCovers' /\ ScheduledOnce' /\ IngestedOnce'
  BY <1>1, <1>2 DEF DeadlineCovers, ScheduledOnce, IngestedOnce
<1>8. HeldForMedia'
  <2>1. \A k \in Turn : Batch(k)' = Batch(k)
    BY <1>2 DEF Batch
  <2>2. \A n \in Message : HasMarker(n)' <=> HasMarker(n) /\ n # m
    BY <1>2 DEF HasMarker
  <2>3. ASSUME NEW k \in Turn, turn[k].step = "deferred", k \notin finalizing \cup unpromoted',
               turn'[k].fire # {}, \A n \in Message : job[n] # "promote"
        PROVE  \E n \in Batch(k) : HasMarker(n)'
    <3>1. turn[k].fire # {} /\ turn[k].fire # {m} /\ k \notin unpromoted
      BY <1>1, <1>2, <2>3
    <3>2. PICK n \in Batch(k) : HasMarker(n)
      BY <2>3, <3>1 DEF HeldForMedia
    <3>3. CASE n # m
      BY <2>2, <3>2, <3>3 DEF Batch
    <3>4. CASE n = m
      <4>1. k \notin passed /\ text[m].owner = k
        BY <1>1, <2>3, <3>2, <3>4 DEF Batch
      <4>2. \E i \in Batch(k) \ {m} : HasMarker(i)
        BY <2>3, <3>1, <4>1 DEF At
      <4> QED
        BY <2>2, <4>2 DEF Batch
    <3> QED
      BY <3>3, <3>4
  <2>4. \A k \in Turn : turn[k].step \in {"queued", "running"} =>
                          \A n \in Batch(k) : ~HasMarker(n)'
    BY <2>2 DEF HeldForMedia, Batch
  <2> QED
    BY <1>1, <1>2, <2>1, <2>3, <2>4 DEF HeldForMedia
<1> QED
  BY <1>4, <1>5, <1>6, <1>7, <1>8

\* A task that is due has no marker left: its deadline covered them all.
LEMMA PromoteDueInv ==
  ASSUME InboundInv, NEW k \in Turn, PromoteDue(k), UNCHANGED kind
  PROVE  InboundInv'
<1> USE DEF InboundInv
<1>1. /\ turn[k].step = "deferred" /\ turn[k].fire = {}
      /\ UNCHANGED <<dedup, holder, text, revision, try, since, armed, job, finalizing, replied,
                     stranded, unpromoted, slips>>
  BY DEF PromoteDue, store, router, losses
<1>2. /\ turn'[k].step = "queued" /\ \A j \in Turn : j # k => turn'[j] = turn[j]
      /\ turn' \in [Turn -> [step : TurnStep, rev : Nat, fire : SUBSET Message]]
  <2>1. Queued(k) \in TurnRecord /\ Queued(k).step = "queued"
    BY DEF Queued, InboundTypeOK, TurnStep, TurnRecord
  <2>2. turn' = [turn EXCEPT ![k] = Queued(k)]
    BY DEF PromoteDue
  <2>3. turn \in [Turn -> TurnRecord]
    BY DEF InboundTypeOK, TurnRecord
  <2> QED
    BY <2>1, <2>2, <2>3 DEF TurnRecord
<1>3. InboundTypeOK'
  BY <1>1, <1>2 DEF InboundTypeOK
<1>4. Numbered' /\ OwnersCommitted'
  BY <1>1, <1>2, CommittedStep DEF Sealed
<1>5. DeadlineCovers' /\ ScheduledOnce' /\ IngestedOnce'
  BY <1>1, <1>2 DEF DeadlineCovers, ScheduledOnce, IngestedOnce
<1>6. HeldForMedia'
  <2>1. \A m \in Batch(k) : ~HasMarker(m)
    BY <1>1 DEF DeadlineCovers, Batch, HasMarker
  <2> QED
    BY <1>1, <1>2, <2>1 DEF HeldForMedia, Batch, HasMarker
<1> QED
  BY <1>3, <1>4, <1>5, <1>6

LEMMA TurnInv ==
  ASSUME InboundInv, NEW k \in Turn, RunTurn(k) \/ TurnEnds(k), UNCHANGED kind
  PROVE  InboundInv'
<1> USE DEF InboundInv
<1>1. /\ turn[k].step \in {"queued", "running"} /\ replied' \in {replied, replied \cup {k}}
      /\ UNCHANGED <<dedup, holder, text, revision, try, since, armed, job, finalizing,
                     stranded, unpromoted, slips>>
  BY DEF RunTurn, TurnEnds, store, router, losses
<1>2. /\ turn'[k].step \in {"running", "cancelled", "done"}
      /\ \A j \in Turn : j # k => turn'[j] = turn[j]
      /\ turn' \in [Turn -> [step : TurnStep, rev : Nat, fire : SUBSET Message]]
  <2>1. PICK s \in {"running", "cancelled", "done"} : turn' = [turn EXCEPT ![k].step = s]
    <3>1. CASE RunTurn(k)
      <4>1. CASE Batch(k) = {}
        BY <3>1, <4>1 DEF RunTurn
      <4>2. CASE Batch(k) # {}
        BY <3>1, <4>2 DEF RunTurn
      <4> QED
        BY <4>1, <4>2
    <3>2. CASE TurnEnds(k)
      BY <3>2 DEF TurnEnds
    <3> QED
      BY <3>1, <3>2
  <2>2. s \in TurnStep
    BY DEF TurnStep
  <2> QED
    BY <2>1, <2>2, StepWritten DEF TurnRecord
<1>3. InboundTypeOK'
  BY <1>1, <1>2 DEF InboundTypeOK
<1>4. Numbered' /\ OwnersCommitted'
  BY <1>1, <1>2, CommittedStep DEF Sealed
<1>5. DeadlineCovers' /\ ScheduledOnce' /\ IngestedOnce'
  BY <1>1, <1>2 DEF DeadlineCovers, ScheduledOnce, IngestedOnce
<1>6. HeldForMedia'
  BY <1>1, <1>2 DEF HeldForMedia, Batch, HasMarker
<1> QED
  BY <1>3, <1>4, <1>5, <1>6

\* What a dead server will not promote is remembered.
LEMMA ServerDiesInv ==
  ASSUME InboundInv, ServerDies, UNCHANGED kind
  PROVE  InboundInv'
<1> DEFINE open == {"begun", "session", "binding"}
<1> USE DEF InboundInv
<1>1. /\ try' = [h \in Try |-> IF try[h] = "none" THEN "none" ELSE "over"]
      /\ since' = [h \in Try |-> 0] /\ armed' = {} /\ finalizing' = {}
      /\ turn' = [k \in Turn |-> IF turn[k].step \in open
                                 THEN [step |-> "over", rev |-> 0, fire |-> {}] ELSE turn[k]]
      /\ job' = [m \in Message |-> IF job[m] = "none" THEN "none" ELSE "over"]
      /\ stranded' = Unowned /\ Slip
      /\ unpromoted' = unpromoted \cup (finalizing \cap At({"deferred"}))
           \cup (IF \E m \in Message : job[m] = "promote" THEN At({"deferred"}) ELSE {})
      /\ UNCHANGED <<dedup, holder, text, revision, replied>>
  BY DEF ServerDies, store
<1>2. /\ turn' \in [Turn -> [step : TurnStep, rev : Nat, fire : SUBSET Message]]
      /\ \A k \in Turn : turn[k].step \notin open => turn'[k] = turn[k]
      /\ \A k \in Turn : turn[k].step \in open => turn'[k].step = "over"
  BY <1>1 DEF InboundTypeOK, TurnStep
<1>3. InboundTypeOK'
  <2>1. unpromoted' \in SUBSET Turn /\ stranded' \in SUBSET Message
    BY <1>1 DEF InboundTypeOK, At, Unowned
  <2>2. /\ try' \in [Try -> TryStep] /\ since' \in [Try -> 0..MaxTurns]
        /\ job' \in [Message -> {"none", "resolve", "promote", "over"}]
    BY <1>1, InboundAssumption DEF InboundTypeOK, TryStep
  <2>3. slips' \in 0..MaxSlips
    BY <1>1, InboundAssumption DEF InboundTypeOK, Slip
  <2> QED
    BY <1>1, <1>2, <2>1, <2>2, <2>3 DEF InboundTypeOK
<1>4. Numbered'
  BY <1>2, NumberedKept
<1>5. OwnersCommitted'
  BY <1>1, <1>2 DEF OwnersCommitted, Sealed, InboundTypeOK, Turn
<1>6. ScheduledOnce'
  BY <1>1, ScheduledKept DEF InboundTypeOK
<1>7. DeadlineCovers' /\ IngestedOnce'
  BY <1>1, <1>2 DEF DeadlineCovers, IngestedOnce
<1>8. HeldForMedia'
  <2>1. \A k \in Turn : turn'[k].step \in {"queued", "running", "deferred"} => turn'[k] = turn[k]
    BY <1>2
  <2>2. \A k \in Turn :
          /\ turn[k].step = "deferred" /\ k \in finalizing \cup unpromoted => k \in unpromoted'
          /\ turn[k].step = "deferred" /\ (\E m \in Message : job[m] = "promote")
               => k \in unpromoted'
    BY <1>1 DEF At
  <2> QED
    BY <1>1, <2>1, <2>2 DEF HeldForMedia, Batch, HasMarker
<1> QED
  BY <1>3, <1>4, <1>5, <1>6, <1>7, <1>8

-----------------------------------------------------------------------------
LEMMA NextInv == InboundInv /\ [InboundNext]_inboundVars => InboundInv'
<1> SUFFICES ASSUME InboundInv, [InboundNext]_inboundVars PROVE InboundInv'
  OBVIOUS
<1>1. CASE UNCHANGED inboundVars
  <2>1. UNCHANGED <<kind, dedup, holder, text, revision, try, since, armed, job, turn,
                    finalizing, replied, stranded, unpromoted, slips>>
    BY <1>1 DEF inboundVars, store, router, tasks, losses
  <2> QED
    BY <2>1, TurnsKept DEF InboundInv, InboundTypeOK, ScheduledOnce, IngestedOnce
<1>2. CASE Progress
  <2>1. UNCHANGED kind
    BY <1>2 DEF Progress
  <2>2. CASE \E h \in Try : AppendBegins(h) \/ AppendLocks(h) \/ AppendCommits(h) \/ Schedule(h)
    BY <2>1, <2>2, AppendInv, AppendCommitsInv, ScheduleInv
  <2>3. CASE \E r \in armed : TimerFires(r)
    BY <2>1, <2>3, TimerFiresInv
  <2>4. CASE \E k \in Turn : EnqueueLocksSession(k) \/ EnqueueLocksBinding(k) \/ EnqueueCommits(k)
                             \/ FinalizeEnqueue(k) \/ PromoteDue(k) \/ RunTurn(k) \/ TurnEnds(k)
    BY <2>1, <2>4, LocksInv, EnqueueCommitsInv, FinalizeInv, PromoteDueInv, TurnInv
  <2>5. CASE \E h \in Try, k \in Turn : DeadlockBroken(h, k)
    BY <2>1, <2>5, DeadlockBrokenInv
  <2>6. CASE \E m \in Message : BindMedia(m) \/ PromoteMediaReady(m) \/ DeadlinePasses(m)
    BY <2>1, <2>6, BindMediaInv, PromoteMediaReadyInv, DeadlinePassesInv
  <2> QED
    BY <1>2, <2>2, <2>3, <2>4, <2>5, <2>6 DEF Progress
<1>3. CASE /\ UNCHANGED kind
           /\ \/ \E h \in Try : ClaimMessage(h) \/ HandlerFails(h)
              \/ \E m \in Message : HeldTooLong(m)
              \/ \E k \in Turn : FlushFails(k)
              \/ ServerDies
  BY <1>3, ClaimMessageInv, HandlerFailsInv, HeldTooLongInv, FlushFailsInv, ServerDiesInv
<1> QED
  BY <1>1, <1>2, <1>3 DEF InboundNext

\* Every reachable state of the inbound path is well typed.
THEOREM InboundTypes == InboundSpec => []InboundTypeOK
<1>1. InboundInv => InboundTypeOK
  BY DEF InboundInv
<1> QED
  BY InitInv, NextInv, <1>1, PTL DEF InboundSpec

\* A message is stored once, exactly when its claim is marked processed, for any
\* number of deliveries, slow handlers, lost releases and crashes.
THEOREM MessagesStoredOnce == InboundSpec => []IngestedOnce
<1>1. InboundInv => IngestedOnce
  BY DEF InboundInv
<1> QED
  BY InitInv, NextInv, <1>1, PTL DEF InboundSpec

\* For any messages and tasks, no task starts while media of its batch is to
\* come, and none is deferred without a reason.
THEOREM TasksWaitForMedia == InboundSpec => []HeldForMedia
<1>1. InboundInv => HeldForMedia
  BY DEF InboundInv
<1> QED
  BY InitInv, NextInv, <1>1, PTL DEF InboundSpec

-----------------------------------------------------------------------------
(* ReclaimCheck: what the cache of a runtime may delay.  A task is not lost *)
(* from sight for longer than the backstop runs; and while nothing fails,   *)
(* its hint is there, because the key outlives what is left to wait for.    *)

USE ReclaimAssumption, HintAssumption

LEMMA ReclaimInitTypes == ReclaimInit => ReclaimTypeOK
  BY DEF ReclaimInit, ReclaimTypeOK, Score, Absent, FirstHint, KeyTTL

\* Values a statement writes to a row or to Redis.
LEMMA WrittenScores ==
  /\ Absent \in Score /\ FirstHint \in Score /\ RetryInterval \in Score
  /\ PrepareLease \in Score
  /\ Absent \in Int /\ Absent < -PollInterval /\ Absent < 0
  /\ \A x \in Score : x \in Int /\ Closer(x) \in Score
  /\ KeyTTL \in 0..KeyTTL
  BY DEF Score, Absent, FirstHint, KeyTTL, Closer

LEMMA ClaimTypes ==
  ASSUME ReclaimTypeOK, NEW t \in Dispatch, ClaimDispatch(t)  PROVE ReclaimTypeOK'
  <1>1. age' \in [Dispatch -> {Absent} \cup 0..Window + 1]
        /\ lease' \in [Dispatch -> 0..PrepareLease] /\ tracking' \in [Dispatch -> Score]
    BY WrittenScores DEF ReclaimTypeOK, ClaimDispatch, Deliver
  <1>2. mishaps' \in 0..MaxMishaps
    BY DEF ReclaimTypeOK, ClaimDispatch, Mishap
  <1> QED  BY <1>1, <1>2 DEF ReclaimTypeOK, ClaimDispatch, redis, rhythm

LEMMA TrackTypes ==
  ASSUME ReclaimTypeOK, NEW t \in Dispatch, Track(t)  PROVE ReclaimTypeOK'
  <1>1. hint' \in [Dispatch -> Score] /\ tracking' \in [Dispatch -> Score]
        /\ keyTTL' \in 0..KeyTTL
    BY WrittenScores DEF ReclaimTypeOK, Track
  <1>2. mishaps' \in 0..MaxMishaps
    BY DEF ReclaimTypeOK, Track, Mishap
  <1> QED  BY <1>1, <1>2 DEF ReclaimTypeOK, Track, rhythm

LEMMA ExtendTypes ==
  ASSUME ReclaimTypeOK, NEW t \in Dispatch, Extend(t)  PROVE ReclaimTypeOK'
  <1>1. hint' \in [Dispatch -> Score] /\ lease' \in [Dispatch -> 0..PrepareLease]
        /\ keyTTL' \in 0..KeyTTL
    BY WrittenScores DEF ReclaimTypeOK, Extend
  <1> QED  BY <1>1 DEF ReclaimTypeOK, Extend, rhythm, writes

LEMMA SettleTypes ==
  ASSUME ReclaimTypeOK, NEW t \in Dispatch, Settle(t)  PROVE ReclaimTypeOK'
  BY DEF ReclaimTypeOK, Settle, redis, rhythm

LEMMA ForgetTypes ==
  ASSUME ReclaimTypeOK, NEW t \in Dispatch, Forget(t)  PROVE ReclaimTypeOK'
  <1>1. hint' \in [Dispatch -> Score]
    BY WrittenScores DEF ReclaimTypeOK, Forget
  <1>2. mishaps' \in 0..MaxMishaps
    BY DEF ReclaimTypeOK, Forget, Mishap
  <1> QED  BY <1>1, <1>2 DEF ReclaimTypeOK, Forget, rhythm

LEMMA PollTypes ==
  ASSUME ReclaimTypeOK, BeginPoll \/ Reclaim \/ ReclaimFails \/ MarkChecked
  PROVE  ReclaimTypeOK'
  <1>1. CASE BeginPoll
    BY <1>1 DEF ReclaimTypeOK, BeginPoll, Mishap, redis, writes
  <1>2. CASE Reclaim
    <2>1. /\ age' \in [Dispatch -> {Absent} \cup 0..Window + 1]
          /\ lease' \in [Dispatch -> 0..PrepareLease] /\ tracking' \in [Dispatch -> Score]
      BY <1>2, WrittenScores DEF ReclaimTypeOK, Reclaim, Deliver
    <2>2. mishaps' \in 0..MaxMishaps
      BY <1>2 DEF ReclaimTypeOK, Reclaim, Mishap
    <2> QED  BY <1>2, <2>1, <2>2 DEF ReclaimTypeOK, Reclaim, redis
  <1>3. CASE ReclaimFails
    BY <1>3 DEF ReclaimTypeOK, ReclaimFails, Mishap, redis, writes
  <1>4. CASE MarkChecked
    <2>1. hint' \in [Dispatch -> Score]
      BY <1>4, WrittenScores DEF ReclaimTypeOK, MarkChecked
    <2>2. LeftOf(Window) \in 0..Window
      BY DEF ReclaimTypeOK, LeftOf
    <2>3. mishaps' \in 0..MaxMishaps /\ backstop' \in 0..Window
      BY <1>4, <2>2 DEF ReclaimTypeOK, MarkChecked, Mishap
    <2> QED  BY <1>4, <2>1, <2>3 DEF ReclaimTypeOK, MarkChecked, writes
  <1> QED  BY <1>1, <1>2, <1>3, <1>4

LEMMA TickTypes == ASSUME ReclaimTypeOK, ReclaimTick  PROVE ReclaimTypeOK'
  <1>1. hint' \in [Dispatch -> Score]
    BY WrittenScores DEF ReclaimTypeOK, ReclaimTick
  <1>2. age' \in [Dispatch -> {Absent} \cup 0..Window + 1]
    BY WrittenScores DEF ReclaimTypeOK, ReclaimTick
  <1>3. /\ lease' \in [Dispatch -> 0..PrepareLease] /\ keyTTL' \in 0..KeyTTL
        /\ backstop' \in 0..Window
    BY DEF ReclaimTypeOK, ReclaimTick, Sooner, KeyTTL
  <1>4. overdue' \in [Dispatch -> Nat] /\ pollAge' \in 0..PollInterval
    BY DEF ReclaimTypeOK, ReclaimTick
  <1> QED  BY <1>1, <1>2, <1>3, <1>4 DEF ReclaimTypeOK, ReclaimTick

LEMMA ReclaimStepTypes ==
  ASSUME ReclaimTypeOK, [ReclaimNext]_reclaimVars  PROVE ReclaimTypeOK'
  <1>1. CASE Flush
    BY <1>1, WrittenScores DEF ReclaimTypeOK, Flush, Mishap, writes, rhythm, KeyTTL
  <1>2. CASE Outage
    BY <1>2 DEF ReclaimTypeOK, Outage, Mishap, redis, writes, rhythm
  <1>3. CASE UNCHANGED reclaimVars
    BY <1>3 DEF ReclaimTypeOK, reclaimVars, redis, writes, rhythm
  <1> QED
    BY <1>1, <1>2, <1>3, ClaimTypes, TrackTypes, ExtendTypes, SettleTypes, ForgetTypes,
       PollTypes, TickTypes DEF ReclaimNext

\* Every reachable state of the cache is well typed.
THEOREM ReclaimTypes == ReclaimSpec => []ReclaimTypeOK
  BY ReclaimInitTypes, ReclaimStepTypes, PTL DEF ReclaimSpec

-----------------------------------------------------------------------------
Late == PollInterval * mishaps

\* A task is overdue by what of the window the backstop has run down, by one poll
\* that goes on for as long as the poll before it could put it off, and by a poll
\* for each mishap.
BackstopBound ==
  \A t \in Dispatch :
    /\ checking = "reclaimed" => overdue[t] <= pollAge
    /\ backstop > 0 /\ checking # "reclaimed" => overdue[t] + backstop <= Window + Late
    /\ backstop = 0 /\ checking = "idle" => overdue[t] <= Window + Late + pollAge
    /\ checking = "due" => overdue[t] <= Window + Late + PollInterval + pollAge

LEMMA MishapIsLate ==
  ASSUME NEW m \in Nat
  PROVE  /\ PollInterval * m \in Nat
         /\ PollInterval * (m + 1) = PollInterval * m + PollInterval
         /\ PollInterval * (m + 2) = PollInterval * m + PollInterval + PollInterval
  OBVIOUS

LEMMA LateGrows ==
  ASSUME ReclaimTypeOK
  PROVE  /\ Late \in Nat
         /\ mishaps' = mishaps => Late' = Late
         /\ Mishap => Late' = Late + PollInterval
  BY MishapIsLate DEF ReclaimTypeOK, Late, Mishap

LEMMA StepKeepsBackstopBound ==
  ASSUME ReclaimTypeOK, BackstopBound, [ReclaimNext]_reclaimVars
  PROVE  BackstopBound'
  <1> DEFINE Bound(s) ==
        /\ checking = "reclaimed" => overdue[s] <= pollAge
        /\ backstop > 0 /\ checking # "reclaimed" => overdue[s] + backstop <= Window + Late
        /\ backstop = 0 /\ checking = "idle" => overdue[s] <= Window + Late + pollAge
        /\ checking = "due" => overdue[s] <= Window + Late + PollInterval + pollAge
  <1> SUFFICES ASSUME NEW s \in Dispatch  PROVE Bound(s)'
    BY DEF BackstopBound
  <1>1. Bound(s)
    BY DEF BackstopBound
  <1>2. /\ overdue[s] \in Nat /\ pollAge \in 0..PollInterval /\ backstop \in 0..Window
        /\ Late \in Nat /\ checking \in {"idle", "due", "reclaimed"}
    BY LateGrows DEF ReclaimTypeOK
  <1> HIDE DEF Late
  <1>3. ASSUME NEW t \in Dispatch,
               ClaimDispatch(t) \/ Track(t) \/ Extend(t) \/ Settle(t) \/ Forget(t)
        PROVE  Bound(s)'
    <2>1. checking' = checking /\ pollAge' = pollAge /\ backstop' = backstop
      BY <1>3 DEF ClaimDispatch, Track, Extend, Settle, Forget, rhythm, redis
    <2>2. overdue'[s] \in {overdue[s], 0}
      BY <1>3 DEF ClaimDispatch, Track, Extend, Settle, Forget, ReclaimTypeOK
    <2>3. (Late' = Late \/ Late' = Late + PollInterval)
      BY <1>3, LateGrows DEF ClaimDispatch, Track, Extend, Settle, Forget
    <2> QED  BY <1>1, <1>2, <2>1, <2>2, <2>3
  <1>4. CASE BeginPoll
    <2>1. /\ checking = "idle" /\ pollAge' = 0 /\ overdue' = overdue /\ backstop' = backstop
          /\ backstop = 0 => checking' = "due"
          /\ checking' \in {"idle", "due"}
          /\ (Late' = Late \/ Late' = Late + PollInterval)
      BY <1>4, LateGrows DEF BeginPoll, Due, redis
    <2> QED  BY <1>1, <1>2, <2>1
  <1>5. CASE Reclaim
    BY <1>2, <1>5 DEF Reclaim, redis
  <1>6. CASE ReclaimFails
    BY <1>1, <1>2, <1>6, LateGrows DEF ReclaimFails, redis
  <1>7. CASE MarkChecked
    <2>1. /\ checking = "reclaimed" /\ checking' = "idle" /\ pollAge' = pollAge
          /\ overdue' = overdue
          /\ \/ backstop' = LeftOf(Window) /\ Late' = Late
             \/ backstop' = backstop /\ Late' = Late + PollInterval
      BY <1>7, LateGrows DEF MarkChecked
    <2> QED  BY <1>1, <1>2, <2>1 DEF LeftOf
  <1>8. CASE Flush
    <2>1. /\ checking' = checking /\ pollAge' = pollAge /\ overdue' = overdue
          /\ backstop' = 0 /\ Late' = Late + PollInterval
      BY <1>8, LateGrows DEF Flush, rhythm
    <2> QED  BY <1>1, <1>2, <2>1
  <1>9. CASE Outage
    <2>1. /\ checking' = checking /\ pollAge' = pollAge /\ overdue'[s] = 0
          /\ backstop' = backstop /\ (Late' = Late \/ Late' = Late + PollInterval)
      BY <1>9, LateGrows DEF Outage, rhythm, redis
    <2> QED  BY <1>2, <2>1
  <1>10. CASE ReclaimTick
    <2>1. /\ checking' = checking /\ pollAge' = pollAge + 1
          /\ overdue'[s] \in {overdue[s] + 1, 0}
          /\ backstop' = Sooner(backstop) /\ Late' = Late
      BY <1>10, LateGrows DEF ReclaimTick
    <2> QED  BY <1>1, <1>2, <2>1 DEF Sooner
  <1>11. CASE UNCHANGED reclaimVars
    BY <1>1, <1>11, LateGrows DEF reclaimVars, redis, rhythm
  <1> QED
    BY <1>3, <1>4, <1>5, <1>6, <1>7, <1>8, <1>9, <1>10, <1>11 DEF ReclaimNext

LEMMA BackstopBoundInvariant == ReclaimSpec => []BackstopBound
  <1>1. ReclaimInit => BackstopBound
    BY MishapIsLate DEF ReclaimInit, BackstopBound, Late
  <1> QED  BY <1>1, ReclaimTypes, StepKeepsBackstopBound, PTL DEF ReclaimSpec

\* Whatever the hints do, and however many writes, statements and servers fail,
\* an eligible task is looked for within a window, two polls, and one for each
\* failure (DueRuntimeIDs, MarkChecked).
THEOREM BackstopFinds == ReclaimSpec => []FoundByBackstop
  <1>1. ReclaimTypeOK /\ BackstopBound => FoundByBackstop
    <2> SUFFICES ASSUME ReclaimTypeOK, BackstopBound, NEW t \in Dispatch
                 PROVE  overdue[t] <= Window + PollInterval * (mishaps + 2)
      BY DEF FoundByBackstop
    <2>1. /\ overdue[t] \in Nat /\ pollAge \in 0..PollInterval /\ backstop \in 0..Window
          /\ checking \in {"idle", "due", "reclaimed"}
          /\ Late \in Nat /\ PollInterval * (mishaps + 2) = Late + PollInterval + PollInterval
      BY MishapIsLate DEF ReclaimTypeOK, Late
    <2>2. overdue[t] <= Window + Late + PollInterval + pollAge
      BY <2>1 DEF BackstopBound
    <2> QED  BY <2>1, <2>2
  <1> QED  BY <1>1, ReclaimTypes, BackstopBoundInvariant, PTL

-----------------------------------------------------------------------------
\* A Track on its way renews the key before time passes.
Tracking == \E t \in Dispatch : tracking[t] # Absent
Hinted(t) == Dispatched(t) /\ tracking[t] = Absent
AllKeyed(t) == keyTTL + overdue[t] >= KeyTTL

\* The task is overdue by no more than its hint leaves, and the poll under way.
Within(t, bound) ==
  /\ hint[t] > 0 => hint[t] + overdue[t] <= bound
  /\ hint[t] <= 0 /\ checking = "idle" => overdue[t] <= bound + pollAge
  /\ checking = "due" => overdue[t] <= bound + PollInterval + pollAge
  /\ checking = "reclaimed" => overdue[t] <= pollAge

\* Before the task is eligible: the hint is later, but not by more than the
\* margin, and the key lives until then and a window longer.
NotYet(t) ==
  /\ hint[t] >= lease[t]
  /\ age[t] <= Window => hint[t] >= FirstHint - age[t] /\ keyTTL >= KeyTTL - age[t]
  /\ lease[t] > 0 => keyTTL >= KeyTTL - PrepareLease + lease[t]
  /\ hint[t] <= FirstHint - age[t] \/ hint[t] <= lease[t]
  /\ overdue[t] = 0

\* Once it is eligible: the hint is in reach of a retry and a poll.  Until a poll
\* has moved it for the first time it is in reach of the margin, and the key of
\* the first hint is enough; a hint is moved only after the key was renewed.
Sought(t) ==
  /\ Within(t, RetryInterval + PollInterval)
  /\ \/ Tracking \/ AllKeyed(t)
     \/ Within(t, HintMargin - 1) /\ keyTTL + overdue[t] >= FirstHint - 1

\* Every dispatched task has its hint, or the Track that brings it.
Followed(t) ==
  /\ Dispatched(t) => t \notin forgetting
  /\ ~Dispatched(t) => overdue[t] = 0
  /\ Dispatched(t) /\ tracking[t] # Absent =>
       tracking[t] = FirstHint /\ age[t] = 0 /\ lease[t] = PrepareLease /\ overdue[t] = 0
  /\ Hinted(t) =>
       /\ hint[t] # Absent
       /\ Reclaimable(t) => Sought(t)
       /\ ~Reclaimable(t) => NotYet(t)
       /\ checking = "reclaimed" => hint[t] + pollAge > 0 \/ Tracking \/ AllKeyed(t)

HintInv == mishaps = 0 => healthy /\ \A t \in Dispatch : Followed(t)

\* What the types say of one task.
LEMMA OneTask ==
  ASSUME ReclaimTypeOK, NEW t \in Dispatch
  PROVE  /\ age[t] \in Int /\ age[t] <= Window + 1 /\ (age[t] # Absent => age[t] >= 0)
         /\ lease[t] \in 0..PrepareLease /\ hint[t] \in Int /\ tracking[t] \in Int
         /\ hint[t] # Absent => hint[t] >= -PollInterval
         /\ keyTTL \in 0..KeyTTL /\ overdue[t] \in Nat /\ pollAge \in 0..PollInterval
         /\ checking \in {"idle", "due", "reclaimed"} /\ healthy \in BOOLEAN
  <1>1. age[t] \in {Absent} \cup 0..Window + 1 /\ hint[t] \in Score /\ tracking[t] \in Score
    BY DEF ReclaimTypeOK
  <1>2. /\ lease[t] \in 0..PrepareLease /\ keyTTL \in 0..KeyTTL /\ overdue[t] \in Nat
        /\ pollAge \in 0..PollInterval /\ checking \in {"idle", "due", "reclaimed"}
        /\ healthy \in BOOLEAN
    BY DEF ReclaimTypeOK
  <1> QED  BY <1>1, <1>2 DEF Score, Absent, FirstHint

\* The hint of a task that is not eligible is not due.
LEMMA NotYetDue ==
  ASSUME ReclaimTypeOK, healthy, NEW t \in Dispatch, NotYet(t), ~Reclaimable(t), Dispatched(t)
  PROVE  hint[t] >= 1 /\ (age[t] <= Window \/ lease[t] > 0)
  <1>1. age[t] <= Window \/ lease[t] > 0
    BY OneTask DEF Reclaimable
  <1> QED  BY <1>1, OneTask DEF NotYet, FirstHint

\* A statement that leaves the row, the hint and the poll of s alone, and the
\* lifetime of the key too or renews it.
LEMMA UntouchedFollowed ==
  ASSUME ReclaimTypeOK, ReclaimTypeOK', NEW s \in Dispatch, Followed(s), healthy,
         age'[s] = age[s], lease'[s] = lease[s], healthy' = healthy, hint'[s] = hint[s],
         overdue'[s] = overdue[s], checking' = checking, pollAge' = pollAge,
         tracking'[s] = tracking[s], s \in forgetting' => s \in forgetting,
         (keyTTL' = keyTTL /\ (Tracking => Tracking')) \/ keyTTL' = KeyTTL
  PROVE  Followed(s)'
  <1>1. (Dispatched(s)' <=> Dispatched(s)) /\ (Reclaimable(s)' <=> Reclaimable(s))
        /\ (Hinted(s)' <=> Hinted(s))
    BY DEF Dispatched, Reclaimable, Hinted
  <1>2. /\ Dispatched(s)' => s \notin forgetting'
        /\ ~Dispatched(s)' => overdue'[s] = 0
        /\ Dispatched(s)' /\ tracking'[s] # Absent =>
             tracking'[s] = FirstHint /\ age'[s] = 0 /\ lease'[s] = PrepareLease
             /\ overdue'[s] = 0
    BY <1>1 DEF Followed
  <1>3. Hinted(s) => hint'[s] # Absent
    BY DEF Followed
  <1>4. AllKeyed(s)' \/ (keyTTL' = keyTTL /\ (Tracking => Tracking') /\ ~AllKeyed(s))
    BY OneTask DEF AllKeyed, KeyTTL, FirstHint
  <1>5. ASSUME Hinted(s), Reclaimable(s)  PROVE Sought(s)'
    <2>1. Sought(s)
      BY <1>5 DEF Followed
    <2>2. \A b \in Int : Within(s, b) => Within(s, b)'
      BY DEF Within
    <2>3. HintMargin - 1 \in Int /\ RetryInterval + PollInterval \in Int
      OBVIOUS
    <2> QED  BY <1>4, <2>1, <2>2, <2>3 DEF Sought
  <1>6. ASSUME Hinted(s), ~Reclaimable(s)  PROVE NotYet(s)'
    <2>1. NotYet(s)
      BY <1>6 DEF Followed
    <2>2. age[s] >= 0
      BY <1>6, OneTask DEF Hinted, Dispatched
    <2>3. keyTTL' = keyTTL \/ keyTTL' = KeyTTL
      OBVIOUS
    <2>4. age[s] \in Int /\ lease[s] \in 0..PrepareLease /\ KeyTTL \in Nat
      BY OneTask DEF KeyTTL
    <2> QED  BY <2>1, <2>2, <2>3, <2>4 DEF NotYet
  <1>7. ASSUME Hinted(s), checking = "reclaimed"
        PROVE  hint'[s] + pollAge' > 0 \/ Tracking' \/ AllKeyed(s)'
    BY <1>4, <1>7 DEF Followed
  <1> QED  BY <1>1, <1>2, <1>3, <1>5, <1>6, <1>7 DEF Followed

LEMMA ClaimFollowed ==
  ASSUME ReclaimTypeOK, ReclaimTypeOK', HintInv, NEW t \in Dispatch, ClaimDispatch(t)
  PROVE  HintInv'
  <1> SUFFICES ASSUME mishaps' = 0  PROVE healthy' /\ \A s \in Dispatch : Followed(s)'
    BY DEF HintInv
  <1>1. mishaps = 0 /\ t \notin forgetting
    BY DEF ClaimDispatch, Mishap, ReclaimTypeOK
  <1>2. healthy /\ \A s \in Dispatch : Followed(s)
    BY <1>1 DEF HintInv
  <1>3. /\ healthy' = healthy /\ hint' = hint /\ keyTTL' = keyTTL /\ overdue' = overdue
        /\ checking' = checking /\ pollAge' = pollAge /\ forgetting' = forgetting
        /\ \A s \in Dispatch \ {t} : age'[s] = age[s] /\ lease'[s] = lease[s]
                                    /\ tracking'[s] = tracking[s]
        /\ age'[t] = 0 /\ lease'[t] = PrepareLease /\ tracking'[t] = FirstHint
        /\ age[t] = Absent
    BY DEF ClaimDispatch, Deliver, redis, rhythm, ReclaimTypeOK
  <1>4. FirstHint # Absent /\ Absent # 0 /\ Tracking'
    BY <1>3 DEF Tracking, FirstHint, Absent
  <1>5. Followed(t)'
    <2>1. overdue[t] = 0
      BY <1>2, <1>3 DEF Followed, Dispatched
    <2> QED  BY <1>1, <1>3, <1>4, <2>1 DEF Followed, Dispatched, Hinted
  <1>6. ASSUME NEW s \in Dispatch \ {t}  PROVE Followed(s)'
    BY <1>2, <1>3, <1>4, UntouchedFollowed
  <1> QED  BY <1>2, <1>3, <1>5, <1>6

LEMMA TrackFollowed ==
  ASSUME ReclaimTypeOK, ReclaimTypeOK', HintInv, NEW t \in Dispatch, Track(t)
  PROVE  HintInv'
  <1> SUFFICES ASSUME mishaps' = 0  PROVE healthy' /\ \A s \in Dispatch : Followed(s)'
    BY DEF HintInv
  <1>1. mishaps = 0 /\ hint' = [hint EXCEPT ![t] = tracking[t]] /\ keyTTL' = KeyTTL
    BY DEF Track, Mishap, ReclaimTypeOK
  <1>2. healthy /\ \A s \in Dispatch : Followed(s)
    BY <1>1 DEF HintInv
  <1>3. /\ healthy' = healthy /\ overdue' = overdue /\ age' = age /\ lease' = lease
        /\ checking' = checking /\ pollAge' = pollAge /\ forgetting' = forgetting
        /\ \A s \in Dispatch \ {t} : hint'[s] = hint[s] /\ tracking'[s] = tracking[s]
        /\ hint'[t] = tracking[t] /\ tracking'[t] = Absent /\ tracking[t] # Absent
    BY <1>1 DEF Track, rhythm, ReclaimTypeOK
  <1>4. Followed(t)'
    <2>1. /\ Dispatched(t) => t \notin forgetting
          /\ ~Dispatched(t) => overdue[t] = 0
          /\ Dispatched(t) => tracking[t] = FirstHint /\ age[t] = 0 /\ lease[t] = PrepareLease
                                /\ overdue[t] = 0
          /\ Dispatched(t)' = Dispatched(t)
      BY <1>2, <1>3 DEF Followed, Dispatched
    <2>2. AllKeyed(t)' /\ FirstHint # Absent
      BY <1>1, <1>3, OneTask DEF AllKeyed, FirstHint, KeyTTL, Absent
    <2>3. Dispatched(t) => ~Reclaimable(t)' /\ NotYet(t)'
      BY <1>1, <1>3, <2>1 DEF NotYet, Reclaimable, FirstHint, KeyTTL
    <2> QED  BY <1>3, <2>1, <2>2, <2>3 DEF Followed, Hinted
  <1>5. ASSUME NEW s \in Dispatch \ {t}  PROVE Followed(s)'
    BY <1>1, <1>2, <1>3, UntouchedFollowed
  <1> QED  BY <1>2, <1>3, <1>4, <1>5

LEMMA ExtendFollowed ==
  ASSUME ReclaimTypeOK, ReclaimTypeOK', HintInv, NEW t \in Dispatch, Extend(t)
  PROVE  HintInv'
  <1> SUFFICES ASSUME mishaps' = 0  PROVE healthy' /\ \A s \in Dispatch : Followed(s)'
    BY DEF HintInv
  <1>1. mishaps = 0
    BY DEF Extend
  <1>2. healthy /\ \A s \in Dispatch : Followed(s)
    BY <1>1 DEF HintInv
  <1>3. /\ healthy' = healthy /\ overdue' = overdue /\ age' = age /\ tracking' = tracking
        /\ checking' = checking /\ pollAge' = pollAge /\ forgetting' = forgetting
        /\ \A s \in Dispatch \ {t} : hint'[s] = hint[s] /\ lease'[s] = lease[s]
        /\ lease'[t] = PrepareLease /\ Dispatched(t) /\ lease[t] > 0
        /\ hint[t] = Absent => hint'[t] = hint[t] /\ keyTTL' = keyTTL
        /\ hint[t] # Absent =>
             /\ hint'[t] = IF hint[t] < PrepareLease THEN PrepareLease ELSE hint[t]
             /\ keyTTL' = KeyTTL
    BY DEF Extend, rhythm, writes, ReclaimTypeOK
  <1>4. Tracking' <=> Tracking
    BY <1>3 DEF Tracking
  <1>5. Followed(t)'
    <2>1. /\ Dispatched(t) => t \notin forgetting
          /\ tracking[t] # Absent => tracking[t] = FirstHint /\ age[t] = 0 /\ overdue[t] = 0
          /\ tracking[t] = Absent => Hinted(t)
          /\ Dispatched(t)' = Dispatched(t) /\ Hinted(t)' = Hinted(t)
      BY <1>2, <1>3 DEF Followed, Dispatched, Hinted
    <2>2. ASSUME Hinted(t)  PROVE hint'[t] # Absent /\ keyTTL' = KeyTTL
      BY <1>2, <1>3, <2>2, WrittenScores DEF Followed
    <2>3. ASSUME Hinted(t)  PROVE NotYet(t)' /\ ~Reclaimable(t)' /\ AllKeyed(t)'
      <3>1. NotYet(t) /\ age[t] >= 0
        BY <1>2, <1>3, <2>3, OneTask DEF Followed, Reclaimable, Dispatched
      <3>2. hint'[t] \in Int /\ hint'[t] >= hint[t] /\ hint'[t] >= PrepareLease
            /\ (hint'[t] = hint[t] \/ hint'[t] = PrepareLease)
            /\ (hint'[t] = hint[t] => hint[t] >= PrepareLease)
        BY <1>2, <1>3, <2>3, OneTask DEF Followed
      <3>3. lease'[t] > 0
        BY <1>3, OneTask
      <3>4. NotYet(t)'
        BY <1>3, <2>2, <2>3, <3>1, <3>2, OneTask DEF NotYet, KeyTTL, FirstHint
      <3> QED  BY <1>3, <2>2, <2>3, <3>3, <3>4, OneTask DEF Reclaimable, AllKeyed, KeyTTL
    <2> QED  BY <1>3, <2>1, <2>2, <2>3 DEF Followed
  <1>6. ASSUME NEW s \in Dispatch \ {t}  PROVE Followed(s)'
    BY <1>2, <1>3, <1>4, UntouchedFollowed
  <1> QED  BY <1>2, <1>3, <1>5, <1>6

LEMMA SettleFollowed ==
  ASSUME ReclaimTypeOK, ReclaimTypeOK', HintInv, NEW t \in Dispatch, Settle(t) \/ Forget(t)
  PROVE  HintInv'
  <1> SUFFICES ASSUME mishaps' = 0  PROVE healthy' /\ \A s \in Dispatch : Followed(s)'
    BY DEF HintInv
  <1>1. mishaps = 0
    BY DEF Settle, Forget, Mishap, ReclaimTypeOK
  <1>2. healthy /\ \A s \in Dispatch : Followed(s)
    BY <1>1 DEF HintInv
  <1>3. /\ healthy' = healthy /\ tracking' = tracking /\ keyTTL' = keyTTL
        /\ checking' = checking /\ pollAge' = pollAge
        /\ forgetting' \subseteq forgetting \cup {t}
        /\ \A s \in Dispatch \ {t} : /\ hint'[s] = hint[s] /\ lease'[s] = lease[s]
                                    /\ age'[s] = age[s] /\ overdue'[s] = overdue[s]
    BY DEF Settle, Forget, redis, rhythm, ReclaimTypeOK
  <1>4. Tracking' <=> Tracking
    BY <1>3 DEF Tracking
  <1>5. age'[t] = Absent /\ overdue'[t] = 0
    <2>1. CASE Settle(t)
      BY <2>1 DEF Settle, ReclaimTypeOK
    <2>2. CASE Forget(t)
      BY <1>2, <2>2 DEF Forget, Followed, Dispatched
    <2> QED  BY <2>1, <2>2
  <1>6. Followed(t)'
    BY <1>5 DEF Followed, Dispatched, Hinted
  <1>7. ASSUME NEW s \in Dispatch \ {t}  PROVE Followed(s)'
    BY <1>2, <1>3, <1>4, UntouchedFollowed
  <1> QED  BY <1>2, <1>3, <1>6, <1>7

LEMMA BeginPollFollowed ==
  ASSUME ReclaimTypeOK, ReclaimTypeOK', HintInv, BeginPoll  PROVE HintInv'
  <1> SUFFICES ASSUME mishaps' = 0  PROVE healthy' /\ \A s \in Dispatch : Followed(s)'
    BY DEF HintInv
  <1>0. healthy'
    BY DEF HintInv, BeginPoll, Mishap, ReclaimTypeOK
  <1> SUFFICES ASSUME NEW s \in Dispatch  PROVE Followed(s)'
    BY <1>0
  <1>1. mishaps = 0 /\ (Due => checking' = "due") /\ (~Due => checking' = "idle")
    BY DEF BeginPoll, Mishap, ReclaimTypeOK
  <1>2. healthy /\ Followed(s)
    BY <1>1 DEF HintInv
  <1>3. /\ healthy' = healthy /\ hint' = hint /\ keyTTL' = keyTTL /\ overdue' = overdue
        /\ age' = age /\ lease' = lease /\ tracking' = tracking /\ forgetting' = forgetting
        /\ checking = "idle" /\ pollAge' = 0
    BY DEF BeginPoll, redis, writes
  <1>4. /\ Dispatched(s)' = Dispatched(s) /\ Reclaimable(s)' = Reclaimable(s)
        /\ Hinted(s)' = Hinted(s) /\ NotYet(s)' = NotYet(s) /\ Tracking' = Tracking
        /\ AllKeyed(s)' = AllKeyed(s)
    BY <1>3 DEF Dispatched, Reclaimable, Hinted, NotYet, Tracking, AllKeyed
  <1>5. ASSUME NEW b \in Int, b >= 0, Within(s, b), hint[s] # Absent  PROVE Within(s, b)'
    <2>1. checking' = "due" \/ (checking' = "idle" /\ hint[s] > 0)
      BY <1>1, <1>5, OneTask DEF Due
    <2>2. overdue[s] <= b + PollInterval
      BY <1>3, <1>5, OneTask DEF Within
    <2> QED  BY <1>3, <1>5, <2>1, <2>2, OneTask DEF Within
  <1>6. ASSUME Sought(s), hint[s] # Absent  PROVE Sought(s)'
    <2>1. HintMargin - 1 \in Int /\ HintMargin - 1 >= 0
          /\ RetryInterval + PollInterval \in Int /\ RetryInterval + PollInterval >= 0
      OBVIOUS
    <2> QED  BY <1>3, <1>4, <1>5, <1>6, <2>1 DEF Sought
  <1> QED  BY <1>1, <1>2, <1>3, <1>4, <1>6 DEF Followed

LEMMA ReclaimFollowed ==
  ASSUME ReclaimTypeOK, ReclaimTypeOK', HintInv, Reclaim  PROVE HintInv'
  <1> SUFFICES ASSUME mishaps' = 0  PROVE healthy' /\ \A s \in Dispatch : Followed(s)'
    BY DEF HintInv
  <1>1. /\ mishaps = 0
        /\ \/ \E t \in Dispatch : Reclaimable(t) /\ tracking[t] = Absent /\ Deliver(t)
           \/ /\ \A t \in Dispatch : ~Reclaimable(t)
              /\ UNCHANGED <<age, lease, tracking>>
    BY DEF Reclaim, Mishap, ReclaimTypeOK
  <1>2. healthy /\ \A s \in Dispatch : Followed(s)
    BY <1>1 DEF HintInv
  <1>3. /\ healthy' = healthy /\ hint' = hint /\ keyTTL' = keyTTL
        /\ overdue' = [s \in Dispatch |-> 0]
        /\ forgetting' = forgetting /\ checking = "due" /\ checking' = "reclaimed"
        /\ pollAge' = pollAge
    BY DEF Reclaim, redis
  <1>4. ASSUME NEW t \in Dispatch, Reclaimable(t), tracking[t] = Absent, Deliver(t),
               NEW s \in Dispatch
        PROVE  Followed(s)'
    <2>1. /\ age'[t] = 0 /\ lease'[t] = PrepareLease /\ tracking'[t] = FirstHint
          /\ \A u \in Dispatch \ {t} : age'[u] = age[u] /\ lease'[u] = lease[u]
                                      /\ tracking'[u] = tracking[u]
      BY <1>4 DEF Deliver, ReclaimTypeOK
    <2>2. FirstHint # Absent /\ Absent # 0 /\ Tracking'
      BY <2>1 DEF Tracking, FirstHint, Absent
    <2>3. CASE s = t
      <3>1. Dispatched(t)
        BY <1>4, OneTask, WrittenScores DEF Reclaimable, Dispatched
      <3> QED  BY <1>2, <1>3, <2>1, <2>2, <2>3, <3>1 DEF Followed, Dispatched, Hinted
    <2>4. CASE s # t
      <3>1. /\ Dispatched(s)' = Dispatched(s) /\ Reclaimable(s)' = Reclaimable(s)
            /\ Hinted(s)' = Hinted(s)
        BY <1>3, <2>1, <2>4 DEF Dispatched, Reclaimable, Hinted
      <3>2. NotYet(s) => NotYet(s)'
        BY <1>3, <2>1, <2>4 DEF NotYet
      <3>3. Sought(s) => Sought(s)'
        BY <1>3, <2>2, OneTask DEF Sought, Within
      <3> QED  BY <1>2, <1>3, <2>1, <2>2, <2>4, <3>1, <3>2, <3>3 DEF Followed
    <2> QED  BY <2>3, <2>4
  <1>5. ASSUME \A t \in Dispatch : ~Reclaimable(t), UNCHANGED <<age, lease, tracking>>,
               NEW s \in Dispatch
        PROVE  Followed(s)'
    <2>1. /\ Dispatched(s)' = Dispatched(s) /\ Reclaimable(s)' = Reclaimable(s)
          /\ Hinted(s)' = Hinted(s)
      BY <1>3, <1>5 DEF Dispatched, Reclaimable, Hinted
    <2>2. NotYet(s) => NotYet(s)'
      BY <1>3, <1>5 DEF NotYet
    <2>3. Hinted(s) => hint[s] + pollAge > 0
      BY <1>2, <1>5, NotYetDue, OneTask DEF Followed, Hinted
    <2> QED  BY <1>2, <1>3, <1>5, <2>1, <2>2, <2>3 DEF Followed
  <1> QED  BY <1>1, <1>2, <1>3, <1>4, <1>5

LEMMA MarkFollowed ==
  ASSUME ReclaimTypeOK, ReclaimTypeOK', HintInv, MarkChecked  PROVE HintInv'
  <1> SUFFICES ASSUME mishaps' = 0  PROVE healthy' /\ \A s \in Dispatch : Followed(s)'
    BY DEF HintInv
  <1>0. healthy'
    BY DEF HintInv, MarkChecked, Mishap, ReclaimTypeOK
  <1> SUFFICES ASSUME NEW s \in Dispatch  PROVE Followed(s)'
    BY <1>0
  <1>1. /\ mishaps = 0
        /\ hint'[s] = IF hint[s] # Absent /\ hint[s] <= -pollAge THEN RetryInterval ELSE hint[s]
    BY DEF MarkChecked, Mishap, ReclaimTypeOK
  <1>2. healthy /\ Followed(s)
    BY <1>1 DEF HintInv
  <1>3. /\ healthy' = healthy /\ keyTTL' = keyTTL /\ overdue' = overdue
        /\ age' = age /\ lease' = lease /\ tracking' = tracking /\ forgetting' = forgetting
        /\ checking = "reclaimed" /\ checking' = "idle" /\ pollAge' = pollAge
    BY DEF MarkChecked, writes
  <1>4. /\ Dispatched(s)' = Dispatched(s) /\ Reclaimable(s)' = Reclaimable(s)
        /\ Hinted(s)' = Hinted(s) /\ Tracking' = Tracking
        /\ AllKeyed(s)' = AllKeyed(s)
    BY <1>3 DEF Dispatched, Reclaimable, Hinted, Tracking, AllKeyed
  <1>5. ASSUME Hinted(s)  PROVE hint'[s] # Absent
    BY <1>1, <1>2, <1>5, WrittenScores DEF Followed
  <1>6. ASSUME Hinted(s), ~Reclaimable(s)  PROVE NotYet(s)'
    <2>1. NotYet(s) /\ hint'[s] = hint[s]
      BY <1>1, <1>2, <1>6, NotYetDue, OneTask DEF Followed, Hinted
    <2> QED  BY <1>3, <2>1 DEF NotYet
  <1>7. ASSUME Hinted(s), Reclaimable(s)  PROVE Sought(s)'
    <2>1. Sought(s) /\ overdue[s] <= pollAge
      BY <1>2, <1>3, <1>7 DEF Followed, Sought, Within
    <2>2. CASE hint[s] <= -pollAge
      <3>1. hint'[s] = RetryInterval /\ (Tracking \/ AllKeyed(s))
        BY <1>1, <1>2, <1>3, <1>7, <2>2, OneTask DEF Followed
      <3>2. Within(s, RetryInterval + PollInterval)'
        BY <1>3, <2>1, <3>1, OneTask DEF Within
      <3> QED  BY <1>4, <3>1, <3>2 DEF Sought
    <2>3. CASE ~(hint[s] <= -pollAge)
      <3>1. hint'[s] = hint[s]
        BY <1>1, <2>3
      <3>2. \A b \in Nat : Within(s, b) => Within(s, b)'
        BY <1>3, <2>1, <3>1, OneTask DEF Within
      <3>3. HintMargin - 1 \in Nat /\ RetryInterval + PollInterval \in Nat
        OBVIOUS
      <3> QED  BY <1>3, <1>4, <2>1, <3>2, <3>3 DEF Sought
    <2> QED  BY <2>2, <2>3
  <1> QED  BY <1>2, <1>3, <1>4, <1>5, <1>6, <1>7 DEF Followed

LEMMA TickFollowed ==
  ASSUME ReclaimTypeOK, ReclaimTypeOK', HintInv, ReclaimTick  PROVE HintInv'
  <1> SUFFICES ASSUME mishaps' = 0  PROVE healthy' /\ \A s \in Dispatch : Followed(s)'
    BY DEF HintInv
  <1>0. healthy'
    BY DEF HintInv, ReclaimTick, Mishap, ReclaimTypeOK
  <1> SUFFICES ASSUME NEW s \in Dispatch  PROVE Followed(s)'
    BY <1>0
  <1>1. mishaps = 0
    BY DEF ReclaimTick
  <1>2. healthy /\ Followed(s)
    BY <1>1 DEF HintInv
  <1>3. /\ healthy' = healthy /\ tracking' = tracking /\ forgetting' = forgetting
        /\ checking' = checking /\ pollAge' = pollAge + 1 /\ pollAge < PollInterval
        /\ keyTTL' = Sooner(keyTTL) /\ lease'[s] = Sooner(lease[s])
        /\ age'[s] = IF age[s] \in {Absent, Window + 1} THEN age[s] ELSE age[s] + 1
        /\ hint'[s] = IF keyTTL <= 1 THEN Absent ELSE Closer(hint[s])
        /\ overdue'[s] = IF Reclaimable(s) THEN overdue[s] + 1 ELSE 0
        /\ tracking[s] = Absent
    BY DEF ReclaimTick
  <1>4. ~Tracking
    BY DEF Tracking, ReclaimTick
  <1>5. /\ Hinted(s) <=> Dispatched(s)
        /\ Hinted(s)' <=> Dispatched(s)'
        /\ Dispatched(s)' <=> Dispatched(s)
    BY <1>3, OneTask, WrittenScores DEF Hinted, Dispatched
  <1>6. ASSUME ~Dispatched(s)  PROVE Followed(s)'
    <2>1. ~Reclaimable(s)
      BY <1>6, WrittenScores DEF Reclaimable, Dispatched
    <2> QED  BY <1>3, <1>5, <1>6, <2>1 DEF Followed
  <1>7. ASSUME Dispatched(s)
        PROVE  /\ age[s] >= 0 /\ s \notin forgetting' /\ hint[s] # Absent
               /\ hint[s] >= -PollInterval /\ age'[s] >= 0
               /\ age'[s] = IF age[s] = Window + 1 THEN Window + 1 ELSE age[s] + 1
    <2>1. s \notin forgetting' /\ hint[s] # Absent
      BY <1>2, <1>3, <1>5, <1>7 DEF Followed
    <2> QED  BY <1>3, <1>7, <2>1, OneTask DEF Dispatched
  <1>8. ASSUME Dispatched(s), ~Reclaimable(s)  PROVE Followed(s)'
    <2>1. NotYet(s) /\ hint[s] >= 1 /\ (age[s] <= Window \/ lease[s] > 0)
      BY <1>2, <1>5, <1>8, NotYetDue DEF Followed
    <2>2. keyTTL > 1 /\ keyTTL >= FirstHint /\ keyTTL' = keyTTL - 1
      <3>1. keyTTL > 1 /\ keyTTL >= FirstHint
        BY <1>7, <1>8, <2>1, OneTask DEF NotYet, KeyTTL, FirstHint
      <3> QED  BY <1>3, <3>1, OneTask DEF Sooner
    <2>3. hint'[s] = hint[s] - 1 /\ overdue'[s] = 0 /\ hint'[s] # Absent
      BY <1>3, <1>8, <2>1, <2>2, OneTask, WrittenScores DEF Closer
    <2>4. lease'[s] = IF lease[s] > 0 THEN lease[s] - 1 ELSE 0
      BY <1>3 DEF Sooner
    <2>5. ASSUME ~Reclaimable(s)'  PROVE NotYet(s)'
      <3>1. age'[s] <= Window \/ lease'[s] > 0
        BY <1>2, <1>3, <1>7, <1>8, <2>4, <2>5, OneTask DEF Reclaimable
      <3>2. hint'[s] >= lease'[s]
        BY <2>1, <2>3, <2>4, OneTask DEF NotYet
      <3>3. age'[s] <= Window =>
              hint'[s] >= FirstHint - age'[s] /\ keyTTL' >= KeyTTL - age'[s]
        BY <1>7, <1>8, <2>1, <2>2, <2>3, OneTask DEF NotYet, FirstHint, KeyTTL
      <3>4. lease'[s] > 0 => keyTTL' >= KeyTTL - PrepareLease + lease'[s]
        BY <2>1, <2>2, <2>4, OneTask DEF NotYet, KeyTTL
      <3>5. hint'[s] <= FirstHint - age'[s] \/ hint'[s] <= lease'[s]
        BY <1>7, <1>8, <2>1, <2>3, <2>4, OneTask DEF NotYet, FirstHint
      <3> QED  BY <2>3, <3>2, <3>3, <3>4, <3>5 DEF NotYet
    <2>6. ASSUME Reclaimable(s)'  PROVE Sought(s)'
      <3>1. age[s] \in {Window, Window + 1} /\ lease[s] \in {0, 1}
        BY <1>7, <1>8, <2>4, <2>6, OneTask DEF Reclaimable
      <3>2. hint'[s] <= HintMargin - 1
        BY <2>1, <2>3, <3>1, OneTask DEF NotYet, FirstHint
      <3>3. \A b \in Nat : b >= HintMargin - 1 => Within(s, b)'
        BY <1>3, <2>3, <3>2, OneTask DEF Within
      <3>4. HintMargin - 1 \in Nat /\ RetryInterval + PollInterval \in Nat
            /\ RetryInterval + PollInterval >= HintMargin - 1
        OBVIOUS
      <3>5. keyTTL' + overdue'[s] >= FirstHint - 1
        BY <2>2, <2>3, OneTask DEF FirstHint
      <3> QED  BY <3>3, <3>4, <3>5 DEF Sought
    <2>7. hint'[s] + pollAge' > 0
      BY <1>3, <2>1, <2>3, OneTask
    <2>8. Dispatched(s)'  /\ tracking'[s] = Absent
      BY <1>3, <1>5, <1>8
    <2> QED  BY <1>7, <1>8, <2>3, <2>5, <2>6, <2>7, <2>8 DEF Followed
  <1>9. ASSUME Dispatched(s), Reclaimable(s)  PROVE Followed(s)'
    <2>1. Sought(s) /\ overdue'[s] = overdue[s] + 1
      BY <1>2, <1>3, <1>5, <1>9 DEF Followed
    <2>2. Reclaimable(s)'
      BY <1>2, <1>3, <1>7, <1>9, OneTask DEF Reclaimable, Sooner
    <2>3. ASSUME NEW b \in Nat, Within(s, b)  PROVE overdue[s] < b + 2 * PollInterval
      BY <1>3, <2>3, OneTask DEF Within
    <2>4. keyTTL > 1
      <3>1. RetryInterval + PollInterval \in Nat /\ HintMargin - 1 \in Nat
        OBVIOUS
      <3>2. overdue[s] < RetryInterval + PollInterval + 2 * PollInterval
        BY <2>1, <2>3, <3>1 DEF Sought
      <3>3. CASE AllKeyed(s)
        BY <3>2, <3>3, OneTask DEF AllKeyed, KeyTTL
      <3>4. CASE Within(s, HintMargin - 1) /\ keyTTL + overdue[s] >= FirstHint - 1
        <4>1. overdue[s] < HintMargin - 1 + 2 * PollInterval
          BY <2>3, <3>1, <3>4
        <4> QED  BY <3>4, <4>1, OneTask DEF FirstHint
      <3> QED  BY <1>4, <2>1, <3>3, <3>4 DEF Sought
    <2>5. /\ keyTTL' = keyTTL - 1
          /\ hint'[s] = IF hint[s] = -PollInterval THEN hint[s] ELSE hint[s] - 1
          /\ hint'[s] # Absent
      BY <1>3, <1>7, <1>9, <2>4, OneTask, WrittenScores DEF Sooner, Closer, Absent
    <2>6. ASSUME NEW b \in Nat, Within(s, b)  PROVE Within(s, b)'
      BY <1>3, <1>7, <1>9, <2>1, <2>5, <2>6, OneTask DEF Within
    <2>7. Sought(s)'
      <3>1. RetryInterval + PollInterval \in Nat /\ HintMargin - 1 \in Nat
        OBVIOUS
      <3>2. AllKeyed(s) => AllKeyed(s)'
        BY <2>1, <2>5, OneTask DEF AllKeyed
      <3>3. keyTTL + overdue[s] >= FirstHint - 1 => keyTTL' + overdue'[s] >= FirstHint - 1
        BY <2>1, <2>5, OneTask
      <3> QED  BY <1>4, <2>1, <2>6, <3>1, <3>2, <3>3 DEF Sought
    <2>8. checking' = "reclaimed" => hint'[s] + pollAge' > 0 \/ AllKeyed(s)'
      <3>1. checking = "reclaimed" => hint[s] + pollAge > 0 \/ AllKeyed(s)
        BY <1>2, <1>4, <1>5, <1>9 DEF Followed
      <3>2. AllKeyed(s) => AllKeyed(s)'
        BY <2>1, <2>5, OneTask DEF AllKeyed
      <3>3. hint[s] + pollAge > 0 => hint'[s] + pollAge' > 0
        BY <1>3, <1>7, <1>9, <2>5, OneTask
      <3> QED  BY <1>3, <3>1, <3>2, <3>3
    <2>9. Dispatched(s)' /\ tracking'[s] = Absent
      BY <1>3, <1>5, <1>9
    <2> QED  BY <1>7, <1>9, <2>2, <2>5, <2>7, <2>8, <2>9 DEF Followed
  <1> QED  BY <1>2, <1>3, <1>6, <1>8, <1>9

LEMMA HintStep ==
  ASSUME ReclaimTypeOK, ReclaimTypeOK', HintInv, [ReclaimNext]_reclaimVars
  PROVE  HintInv'
  <1>1. CASE ReclaimFails \/ Flush
    BY <1>1 DEF ReclaimFails, Flush, Mishap, ReclaimTypeOK, HintInv
  <1>2. CASE Outage
    BY <1>2 DEF Outage, Mishap, ReclaimTypeOK, HintInv
  <1>3. CASE UNCHANGED reclaimVars
    <2> SUFFICES ASSUME mishaps = 0, NEW s \in Dispatch  PROVE Followed(s)'
      BY <1>3 DEF HintInv, reclaimVars
    <2>1. Followed(s)
      BY DEF HintInv
    <2> QED  BY <1>3, <2>1 DEF reclaimVars, redis, writes, rhythm, Followed, Hinted, Dispatched,
               Reclaimable, Sought, NotYet, Within, Tracking, AllKeyed
  <1> QED
    BY <1>1, <1>2, <1>3, ClaimFollowed, TrackFollowed, ExtendFollowed, SettleFollowed,
       BeginPollFollowed, ReclaimFollowed, MarkFollowed, TickFollowed DEF ReclaimNext

LEMMA HintInvariant == ReclaimSpec => []HintInv
  <1>1. ReclaimInit => HintInv
    BY DEF ReclaimInit, HintInv, Followed, Hinted, Dispatched
  <1>2. ReclaimTypeOK /\ ReclaimTypeOK' /\ HintInv /\ [ReclaimNext]_reclaimVars => HintInv'
    BY HintStep
  <1> QED  BY <1>1, <1>2, ReclaimTypes, PTL DEF ReclaimSpec

\* While nothing fails, an eligible task is looked for within a retry and three
\* polls: its hint neither expires nor moves away from it (Track, ExtendHint,
\* MarkChecked).
THEOREM HintFinds == ReclaimSpec => []FoundByHint
  <1>1. ReclaimTypeOK /\ HintInv => FoundByHint
    <2> SUFFICES ASSUME ReclaimTypeOK, HintInv, mishaps = 0, NEW t \in Dispatch
                 PROVE  overdue[t] <= RetryInterval + 3 * PollInterval
      BY DEF FoundByHint
    <2>1. overdue[t] = 0 \/ Within(t, RetryInterval + PollInterval)
      BY DEF HintInv, Followed, Hinted, NotYet, Sought
    <2> QED  BY <2>1, OneTask DEF Within
  <1> QED  BY <1>1, ReclaimTypes, HintInvariant, PTL

-----------------------------------------------------------------------------
\* In the run that picks one of the parts, each of them takes its own steps only.
THEOREM ChatRunParts ==
  ChatRunSpec => Spec /\ ReclaimSpec /\ InboundInit /\ [][InboundNext]_inboundVars
  <1>1. ChatRunInit => Init /\ ReclaimInit /\ InboundInit
    BY DEF ChatRunInit
  <1>2. [ChatRunNext]_<<vars, reclaimVars, inboundVars, part>> =>
          [Next]_vars /\ [ReclaimNext]_reclaimVars /\ [InboundNext]_inboundVars
    BY DEF ChatRunNext
  <1> QED  BY <1>1, <1>2, PTL DEF ChatRunSpec, Spec, ReclaimSpec

\* So every state of the cache and of the inbound path is well typed there.
THEOREM ChatRunTypes == ChatRunSpec => []ChatRunTypesOK
  <1>1. ReclaimTypeOK /\ InboundInv => ChatRunTypesOK
    BY DEF ChatRunTypesOK, InboundInv
  <1> QED  BY <1>1, ChatRunParts, ReclaimTypes, InitInv, NextInv, PTL
=============================================================================
