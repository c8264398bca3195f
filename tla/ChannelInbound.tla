--------------------------- MODULE ChannelInbound ---------------------------
(***************************************************************************)
(* How messages of one chat become agent turns: the two-phase dedup claim  *)
(* of each delivery, the append transaction, the debounced flush that      *)
(* enqueues a task for everything not yet owned, the media markers that    *)
(* defer such a task, and the turn (internal/integrations/channel/engine,  *)
(* router.go, session.go, batcher.go; internal/service/task.go,            *)
(* enqueueChatTaskTx).                                                     *)
(*                                                                         *)
(* One session with one current binding.  Row locks decide the order of    *)
(* the transactions and are derived from where each of them stands: the    *)
(* binding is locked FOR UPDATE by appends and enqueues, the session FOR   *)
(* NO KEY UPDATE by an enqueue from its first statement and by an append   *)
(* only when it touches the session before it commits.                     *)
(***************************************************************************)
EXTENDS Integers

CONSTANTS
  Message,    \* what the platform delivers
  Kinds,      \* what they may be: a set of functions from Message to subsets of Kind
  MaxTries,   \* bound on the deliveries of a message that get a claim
  MaxTurns,   \* bound on the tasks
  MaxSlips    \* bound on crashes, failed requests and slow handlers

\* A message may come with media, may be a /clear with a body, which opens a new
\* context revision, and may be delivered again.
Kind == {"media", "clear", "again"}

ASSUME InboundAssumption ==
  /\ Kinds \subseteq [Message -> SUBSET Kind]
  /\ MaxTries \in Nat \ {0} /\ MaxTurns \in Nat /\ MaxSlips \in Nat

VARIABLES
  kind,       \* kind[m]: what m is
  dedup,      \* dedup[m]: the claim on m: "free", "held", "old" (for 60 s) or "done"
  holder,     \* holder[m]: the delivery whose claim_token the claim bears
  try,        \* try[h]: how far the handler of a delivery has come
  since,      \* since[h]: the last task begun before h's open transaction (created_at)
  text,       \* text[m]: the chat_message of m
  revision,   \* binding.context_revision
  armed,      \* the revisions whose flush the batcher has armed
  turn,       \* turn[k]: the k-th task, from the begin of its enqueue
  finalizing, \* tasks whose enqueue has found media, until its last step
  replied,    \* tasks that have left an assistant message
  job,        \* job[m]: the media job of m
  stranded,   \* history: messages whose trigger was lost with a process or a flush
  unpromoted, \* history: deferred tasks that missed a promotion
  slips

store  == <<dedup, holder, text, revision>>
router == <<try, since, armed, job>>
tasks  == <<turn, finalizing, replied>>
losses == <<stranded, unpromoted, slips>>
inboundVars == <<kind, store, router, tasks, losses>>

Try      == Message \X (1..MaxTries)
Turn     == 1..MaxTurns
Media    == {m \in Message : "media" \in kind[m]}
TryStep  == {"none", "claimed", "begun", "binding", "schedule", "over"}
TurnStep == {"none", "begun", "session", "binding", "deferred", "queued", "running",
            "done", "cancelled", "over"}

InboundTypeOK ==
  /\ kind \in Kinds
  /\ dedup \in [Message -> {"free", "held", "old", "done"}]
  /\ holder \in [Message -> Nat]
  /\ try \in [Try -> TryStep] /\ since \in [Try -> 0..MaxTurns]
  /\ text \in [Message -> [copies : Nat, rev : Nat, since : 0..MaxTurns,
                           owner : 0..MaxTurns, marker : BOOLEAN, rearm : SUBSET Nat]]
  /\ revision \in Nat \ {0} /\ armed \in SUBSET Nat
  /\ turn \in [Turn -> [step : TurnStep, rev : Nat, fire : SUBSET Message]]
  /\ finalizing \in SUBSET Turn /\ replied \in SUBSET Turn /\ unpromoted \in SUBSET Turn
  /\ job \in [Message -> {"none", "resolve", "promote", "over"}]
  /\ stranded \in SUBSET Message /\ slips \in 0..MaxSlips

InboundInit ==
  /\ kind \in Kinds
  /\ dedup = [m \in Message |-> "free"] /\ holder = [m \in Message |-> 0]
  /\ try = [h \in Try |-> "none"] /\ since = [h \in Try |-> 0]
  /\ text = [m \in Message |-> [copies |-> 0, rev |-> 0, since |-> 0, owner |-> 0,
                                marker |-> FALSE, rearm |-> {}]]
  /\ revision = 1 /\ armed = {}
  /\ turn = [k \in Turn |-> [step |-> "none", rev |-> 0, fire |-> {}]]
  /\ finalizing = {} /\ replied = {} /\ unpromoted = {}
  /\ job = [m \in Message |-> "none"]
  /\ stranded = {} /\ slips = 0

-----------------------------------------------------------------------------
Slip == slips < MaxSlips /\ slips' = slips + 1

At(steps) == {k \in Turn : turn[k].step \in steps}

\* Tasks are numbered as they begin.
Last == CHOOSE k \in 0..MaxTurns : \A j \in Turn : turn[j].step = "none" <=> j > k

BindingFree == At({"binding"}) = {} /\ \A h \in Try : try[h] # "binding"
SessionFree == At({"session", "binding"}) = {}

Unowned    == {m \in Message : text[m].copies > 0 /\ text[m].owner = 0}
Batch(k)   == {m \in Message : text[m].owner = k}
HasMarker(m) == text[m].marker

\* A task younger than the message has replied: the seal passes the message over.
\* The task is compared by the begin of its transaction, like the message.
Answered(m) == \E k \in replied : k > text[m].since

-----------------------------------------------------------------------------
(* A delivery: claim, append, schedule. *)

\* Deliveries of one message may overlap: a claim is granted when there is none,
\* or an old one; otherwise the delivery is a duplicate, which changes nothing.
ClaimMessage(h) ==
  LET m == h[1] IN
  /\ try[h] = "none"
  /\ h[2] > 1 => "again" \in kind[m] /\ try[<<m, h[2] - 1>>] # "none"
  /\ dedup[m] \in {"free", "old"}
  /\ dedup' = [dedup EXCEPT ![m] = "held"]
  /\ holder' = [holder EXCEPT ![m] = h[2]]
  /\ try' = [try EXCEPT ![h] = "claimed"]
  /\ UNCHANGED <<text, revision, since, armed, job, tasks, losses>>

\* 60 s have passed: the handler is gone, or has been very slow.
HeldTooLong(m) ==
  /\ dedup[m] = "held"
  /\ IF try[<<m, holder[m]>>] = "over" THEN UNCHANGED slips ELSE Slip
  /\ dedup' = [dedup EXCEPT ![m] = "old"]
  /\ UNCHANGED <<holder, text, revision, router, tasks, stranded, unpromoted>>

\* The transaction begins, and takes the shared lock on the session.
AppendBegins(h) ==
  /\ try[h] = "claimed"
  /\ try' = [try EXCEPT ![h] = "begun"]
  /\ since' = [since EXCEPT ![h] = Last]
  /\ UNCHANGED <<store, armed, job, tasks, losses>>

AppendLocks(h) ==
  /\ try[h] = "begun" /\ BindingFree
  /\ try' = [try EXCEPT ![h] = "binding"]
  /\ UNCHANGED <<store, since, armed, job, tasks, losses>>

\* Mutation: the number of rows the statement changed is not looked at.
MarkUnchecked(h) == TRUE

\* MarkChannelInboundDedupProcessed changes the row.
Mark(h) == dedup[h[1]] \in {"held", "old"} /\ holder[h[1]] = h[2]

\* The title of a first turn, TouchChatSession, Mark and commit.  The updates
\* of the session need its lock while the binding's is held.  Without the mark
\* everything is rolled back (ErrClaimLost).  The answer to the commit may be
\* lost.
AppendCommits(h) ==
  LET m == h[1] IN
  /\ try[h] = "binding" /\ SessionFree
  /\ \/ /\ ~Mark(h)
        /\ try' = [try EXCEPT ![h] = "over"]
        /\ UNCHANGED <<dedup, text, revision, stranded, slips>>
     \/ /\ Mark(h)
        /\ dedup' = [dedup EXCEPT ![m] = "done"]
        /\ revision' = IF "clear" \in kind[m] THEN revision + 1 ELSE revision
        /\ text' = [text EXCEPT ![m] =
             [copies |-> @.copies + 1, rev |-> revision', since |-> since[h], owner |-> 0,
              marker |-> m \in Media,
              rearm |-> {revision'} \cup {text[n].rev : n \in Unowned}]]
        /\ \/ try' = [try EXCEPT ![h] = "schedule"] /\ UNCHANGED <<stranded, slips>>
           \/ Slip /\ try' = [try EXCEPT ![h] = "over"] /\ stranded' = stranded \cup {m}
  /\ since' = [since EXCEPT ![h] = 0]
  /\ UNCHANGED <<holder, armed, job, tasks, unpromoted>>

\* The transaction is rolled back and the claim released, if it is still this one.
GiveUp(h) ==
  /\ try' = [try EXCEPT ![h] = "over"] /\ since' = [since EXCEPT ![h] = 0]
  /\ dedup' = IF Mark(h) THEN [dedup EXCEPT ![h[1]] = "free"] ELSE dedup

\* The release is best effort.
HandlerFails(h) ==
  /\ try[h] \in {"claimed", "begun", "binding"} /\ Slip
  /\ \/ GiveUp(h)
     \/ try' = [try EXCEPT ![h] = "over"] /\ since' = [since EXCEPT ![h] = 0] /\ UNCHANGED dedup
  /\ UNCHANGED <<holder, text, revision, armed, job, tasks, stranded, unpromoted>>

\* Mutation: only the message's own revision is armed.
RearmOwn(m) == {text[m].rev}

\* Every revision that had messages without an owner when the append read them.
Rearm(m) == text[m].rearm

Schedule(h) ==
  LET m == h[1] IN
  /\ try[h] = "schedule"
  /\ try' = [try EXCEPT ![h] = "over"]
  /\ armed' = armed \cup Rearm(m)
  /\ text' = [text EXCEPT ![m].rearm = {}]
  /\ stranded' = {n \in stranded : text[n].rev \notin text[m].rearm}
  /\ job' = IF m \in Media THEN [job EXCEPT ![m] = "resolve"] ELSE job
  /\ UNCHANGED <<dedup, holder, revision, since, tasks, unpromoted, slips>>

-----------------------------------------------------------------------------
(* The flush of a revision. *)

TimerFires(r) ==
  /\ Last < MaxTurns
  /\ armed' = armed \ {r}
  /\ turn' = [turn EXCEPT ![Last + 1] = [step |-> "begun", rev |-> r, fire |-> {}]]
  /\ UNCHANGED <<store, try, since, job, finalizing, replied, losses>>

EnqueueLocksSession(k) ==
  /\ turn[k].step = "begun" /\ SessionFree
  /\ turn' = [turn EXCEPT ![k].step = "session"]
  /\ UNCHANGED <<store, router, finalizing, replied, losses>>

\* GetChannelMediaPendingUntil follows: the markers of the whole revision, also
\* of messages that have an owner.
EnqueueLocksBinding(k) ==
  LET fire == {m \in Message : HasMarker(m) /\ text[m].rev = turn[k].rev} IN
  /\ turn[k].step = "session" /\ BindingFree
  /\ turn' = [turn EXCEPT ![k].step = "binding", ![k].fire = fire]
  /\ finalizing' = IF fire = {} THEN finalizing ELSE finalizing \cup {k}
  /\ UNCHANGED <<store, router, replied, losses>>

\* The task, the seal of its batch, and the correction for markers in the batch.
EnqueueCommits(k) ==
  LET batch == {m \in Unowned : text[m].rev = turn[k].rev /\ ~Answered(m)}
      late  == {m \in batch : HasMarker(m)} IN
  /\ turn[k].step = "binding"
  /\ text' = [m \in Message |->
       IF m \in batch THEN [text[m] EXCEPT !.owner = k] ELSE text[m]]
  /\ finalizing' = IF late = {} THEN finalizing ELSE finalizing \cup {k}
  /\ turn' = [turn EXCEPT ![k].step = IF k \in finalizing' THEN "deferred" ELSE "queued",
                          ![k].fire = @ \cup late]
  /\ UNCHANGED <<dedup, holder, revision, router, replied, losses>>

\* The error is logged; nothing arms the revision again.
Abort(k) ==
  /\ turn' = [turn EXCEPT ![k] = [step |-> "over", rev |-> 0, fire |-> {}]]
  /\ finalizing' = finalizing \ {k}
  /\ stranded' = stranded \cup {m \in Unowned : text[m].rev = turn[k].rev}

FlushFails(k) ==
  /\ turn[k].step \in {"begun", "session", "binding"} /\ Slip
  /\ Abort(k)
  /\ UNCHANGED <<store, router, replied, unpromoted>>

\* An append holds the binding and wants the session, an enqueue the other way
\* round: the database ends one of them.
Deadlocked(h, k) == try[h] = "binding" /\ turn[k].step = "session"

DeadlockBroken(h, k) ==
  /\ Deadlocked(h, k)
  /\ \/ GiveUp(h) /\ UNCHANGED <<turn, finalizing, stranded>>
     \/ Abort(k) /\ UNCHANGED <<try, since, dedup>>
  /\ UNCHANGED <<holder, text, revision, armed, job, replied, unpromoted, slips>>

-----------------------------------------------------------------------------
(* Media, and the turns. *)

\* Deferred tasks without a marker in their own batch become claimable.
MediaReady == {k \in At({"deferred"}) : \A m \in Batch(k) : ~HasMarker(m)}

Queued(k) == [turn[k] EXCEPT !.step = "queued", !.fire = {}]

PromoteReady ==
  /\ turn' = [k \in Turn |-> IF k \in MediaReady THEN Queued(k) ELSE turn[k]]
  /\ unpromoted' = {}
  /\ UNCHANGED slips

PromotionFails == Slip /\ unpromoted' = unpromoted \cup MediaReady /\ UNCHANGED turn

\* Mutation: nothing follows the commit of a deferred task.
FinalizeSilently(k) ==
  /\ k \in finalizing /\ turn[k].step # "binding"
  /\ finalizing' = finalizing \ {k}
  /\ UNCHANGED <<store, router, turn, replied, losses>>

\* The media may have become ready before the task could be seen.
FinalizeEnqueue(k) ==
  /\ k \in finalizing /\ turn[k].step # "binding"
  /\ finalizing' = finalizing \ {k}
  /\ PromoteReady \/ PromotionFails
  /\ UNCHANGED <<store, router, replied, stranded>>

\* The marker goes with the binding of the attachments, or without them when
\* the binding fails.
BindMedia(m) ==
  /\ job[m] = "resolve"
  /\ job' = [job EXCEPT ![m] = "promote"]
  /\ \/ text' = [text EXCEPT ![m].marker = FALSE] /\ UNCHANGED slips
     \/ Slip /\ UNCHANGED text
  /\ UNCHANGED <<dedup, holder, revision, try, since, armed, tasks, stranded, unpromoted>>

PromoteMediaReady(m) ==
  /\ job[m] = "promote"
  /\ job' = [job EXCEPT ![m] = "over"]
  /\ PromoteReady \/ PromotionFails
  /\ UNCHANGED <<store, try, since, armed, finalizing, replied, stranded>>

\* A marker past its deadline counts as gone, and a task waits for the last of
\* the deadlines that were read (fire_at), wherever their markers are by then:
\* nobody promotes it when that of its own batch passes first.
DeadlinePasses(m) ==
  LET passed == {k \in At({"deferred"}) : /\ text[m].owner = k /\ turn[k].fire # {m}
                                           /\ \A n \in Batch(k) \ {m} : ~HasMarker(n)} IN
  /\ HasMarker(m) \/ \E k \in Turn : m \in turn[k].fire
  /\ text' = [text EXCEPT ![m].marker = FALSE]
  /\ turn' = [k \in Turn |-> [turn[k] EXCEPT !.fire = @ \ {m}]]
  /\ unpromoted' = IF HasMarker(m) THEN unpromoted \cup passed ELSE unpromoted
  /\ UNCHANGED <<dedup, holder, revision, router, finalizing, replied, stranded, slips>>

PromoteDue(k) ==
  /\ turn[k].step = "deferred" /\ turn[k].fire = {}
  /\ turn' = [turn EXCEPT ![k] = Queued(k)]
  /\ UNCHANGED <<store, router, finalizing, replied, losses>>

\* A task whose batch is empty is cancelled by its claim.
RunTurn(k) ==
  /\ turn[k].step = "queued" /\ At({"running"}) = {}
  /\ turn' = [turn EXCEPT ![k].step = IF Batch(k) = {} THEN "cancelled" ELSE "running"]
  /\ UNCHANGED <<store, router, finalizing, replied, losses>>

TurnEnds(k) ==
  /\ turn[k].step = "running"
  /\ turn' = [turn EXCEPT ![k].step = "done"]
  /\ replied' \in {replied, replied \cup {k}}
  /\ UNCHANGED <<store, router, finalizing, losses>>

-----------------------------------------------------------------------------
\* The server dies: claims stay held, uncommitted transactions are rolled back,
\* timers and media jobs are forgotten.
ServerDies ==
  /\ Slip
  /\ try' = [h \in Try |-> IF try[h] = "none" THEN "none" ELSE "over"]
  /\ since' = [h \in Try |-> 0]
  /\ armed' = {} /\ finalizing' = {}
  /\ turn' = [k \in Turn |-> IF turn[k].step \in {"begun", "session", "binding"}
                             THEN [step |-> "over", rev |-> 0, fire |-> {}] ELSE turn[k]]
  /\ job' = [m \in Message |-> IF job[m] = "none" THEN "none" ELSE "over"]
  /\ stranded' = Unowned
  /\ unpromoted' = unpromoted \cup (finalizing \cap At({"deferred"}))
       \cup (IF \E m \in Message : job[m] = "promote" THEN At({"deferred"}) ELSE {})
  /\ UNCHANGED <<store, replied>>

\* What goes on by itself.
Progress ==
  /\ UNCHANGED kind
  /\ \/ \E h \in Try : AppendBegins(h) \/ AppendLocks(h) \/ AppendCommits(h) \/ Schedule(h)
     \/ \E r \in armed : TimerFires(r)
     \/ \E k \in Turn : EnqueueLocksSession(k) \/ EnqueueLocksBinding(k) \/ EnqueueCommits(k)
                        \/ FinalizeEnqueue(k) \/ PromoteDue(k) \/ RunTurn(k) \/ TurnEnds(k)
     \/ \E h \in Try, k \in Turn : DeadlockBroken(h, k)
     \/ \E m \in Message : BindMedia(m) \/ PromoteMediaReady(m) \/ DeadlinePasses(m)

InboundNext ==
  \/ Progress
  \/ /\ UNCHANGED kind
     /\ \/ \E h \in Try : ClaimMessage(h) \/ HandlerFails(h)
        \/ \E m \in Message : HeldTooLong(m)
        \/ \E k \in Turn : FlushFails(k)
        \/ ServerDies

\* Progress steps come to an end, so one fairness condition drives them all.
InboundSpec == InboundInit /\ [][InboundNext]_inboundVars /\ WF_inboundVars(Progress)

-----------------------------------------------------------------------------
\* A message is stored once, and exactly when its claim is marked processed,
\* however often it is delivered and whichever handler loses its claim.
IngestedOnce ==
  \A m \in Message : text[m].copies = IF dedup[m] = "done" THEN 1 ELSE 0

\* A task never starts while media of its batch is to come, and is not deferred
\* without a reason: a marker in its batch, or a promotion that is still to be
\* made, has failed, or is due.
HeldForMedia ==
  \A k \in Turn :
    /\ turn[k].step \in {"queued", "running"} => \A m \in Batch(k) : ~HasMarker(m)
    /\ turn[k].step = "deferred" =>
         \/ k \in finalizing \cup unpromoted \/ turn[k].fire = {}
         \/ \E m \in Batch(k) : HasMarker(m)
         \/ \E m \in Message : job[m] = "promote"

\* A stored message gets its turn, unless a younger turn is taken for its answer
\* or its trigger was lost and no later message has armed its revision again.
Served(m) ==
  \/ text[m].owner # 0 /\ turn[text[m].owner].step = "done"
  \/ text[m].owner = 0 /\ Answered(m)
  \/ m \in stranded

EveryMessageServed == \A m \in Message : text[m].copies > 0 ~> Served(m)

\* What session.go:650 says of the lock order: the append's last update never
\* waits for an enqueue that waits for the append.
NeverDeadlocked == \A h \in Try, k \in Turn : ~Deadlocked(h, k)
=============================================================================
