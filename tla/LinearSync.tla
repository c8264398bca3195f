----------------------------- MODULE LinearSync -----------------------------
(***************************************************************************)
(* The two-way synchronisation of one issue with Linear (internal/         *)
(* integrations/linearsync): local edits put rows in linear_sync_outbox,   *)
(* workers claim them under a lease and publish the issue; webhooks and    *)
(* polls bring remote edits back, which are merged against the last common *)
(* snapshot of the link.                                                   *)
(*                                                                         *)
(* The shared fields are one field, and each edit gives it a new value.    *)
(* Times are those of Linear.  A row whose lease has run out has no owner: *)
(* every use of the lease checks locked_until, under the lock of the row.  *)
(***************************************************************************)
EXTENDS Naturals, Sequences, FiniteSets

CONSTANTS
  SyncWorker,   \* the Run loops of the replicas
  NoWorker,
  MaxAttempts,  \* max_attempts of an outbox row
  MaxUpsets     \* bound on edits of users, lapsed leases and failed requests together

ASSUME SyncAssumption ==
  /\ NoWorker \notin SyncWorker
  /\ MaxAttempts \in Nat \ {0} /\ MaxUpsets \in Nat

VARIABLES
  local,     \* the value of the issue
  outbox,    \* rows of linear_sync_outbox, oldest first
  link,      \* the linear_issue_link of the issue; `to` is 0 while there is none
  conflict,  \* its open linear_sync_conflict
  remote,    \* Linear's issues that carry the marker of the issue
  twins,     \* those of them imported as another local issue
  job,       \* what each worker is doing
  flying,    \* requests that their senders have given up
  late,      \* history: how many of them took effect
  crossed,   \* history: a push and a merge crossed, or a conflict was resolved late
  clock, upsets

provider == <<remote, flying, late, clock>>
tables == <<local, outbox, link, conflict, twins>>
syncVars == <<tables, provider, job, crossed, upsets>>

NoLink == [to |-> 0, base |-> 0, seen |-> 0, remoteAt |-> 0, event |-> 0, status |-> "active"]
NoConflict == [local |-> 0, remote |-> 0]
NewRow == [state |-> "open", attempts |-> 0, owner |-> NoWorker]
Idle == [at |-> "idle", row |-> 0, value |-> 0, link |-> 0, target |-> 0, time |-> 0, stamp |-> 0]

Values == 0..1 + MaxUpsets
Rows == DOMAIN outbox
Loaded == {"read", "relinked", "fetch", "list", "send", "sent", "answered"}
Stages == {"idle", "pulled", "claimed", "prepush", "reload", "failed"} \cup Loaded

SyncTypeOK ==
  /\ local \in Values
  /\ \A k \in Rows : /\ outbox[k].state \in {"open", "done", "dead"}
                     /\ outbox[k].attempts \in 0..MaxAttempts + MaxUpsets
                     /\ outbox[k].owner \in SyncWorker \cup {NoWorker}
  /\ link.to \in 0..Len(remote) /\ link.base \in Values
  /\ link.status \in {"active", "conflict"}
  /\ conflict \in [local : Values, remote : Values]
  /\ \A i \in DOMAIN remote : remote[i].value \in Values /\ remote[i].time \in 1..clock
  /\ twins \subseteq DOMAIN remote
  /\ \A w \in SyncWorker : job[w].at \in Stages
  /\ crossed \in BOOLEAN /\ upsets \in 0..MaxUpsets

\* The issue has just been created in a project with a two_way binding.
SyncInit ==
  /\ local = 1 /\ outbox = <<NewRow>>
  /\ link = NoLink /\ conflict = NoConflict
  /\ remote = <<>> /\ twins = {}
  /\ job = [w \in SyncWorker |-> Idle]
  /\ flying = {} /\ late = 0
  /\ clock = 0 /\ upsets = 0 /\ crossed = FALSE

-----------------------------------------------------------------------------
Upset == upsets < MaxUpsets /\ upsets' = upsets + 1

Becomes(w, record) == job' = [job EXCEPT ![w] = record]
Turns(w, stage) == Becomes(w, [job[w] EXCEPT !.at = stage])
Fails(w) == Becomes(w, [Idle EXCEPT !.at = "failed", !.row = job[w].row])

Owns(w) == outbox[job[w].row].owner = w

\* The worker goes on if its claim still holds, and drops the row otherwise.
IfOwned(w, stage) == IF Owns(w) THEN Turns(w, stage) ELSE Becomes(w, Idle)

\* The link moves on stale grounds, or while a push holds a value it has read.
Crosses(stale) == crossed' = (crossed \/ stale \/ \E w \in SyncWorker : job[w].at \in Loaded)

-----------------------------------------------------------------------------
(* Merging a remote issue: applyRemote, one transaction.  UpdateIssue      *)
(* compares the revision, so that a local edit in between aborts it.       *)

Merge(value, time, stamp, event) ==
  LET clash == local # link.base /\ value # link.base /\ local # value IN
  /\ local' = IF clash \/ value = link.base THEN local ELSE value
  /\ conflict' = IF clash THEN [local |-> local, remote |-> value] ELSE conflict
  /\ link' = [link EXCEPT !.base = IF clash THEN local ELSE value,
                          !.status = IF clash THEN "conflict" ELSE "active",
                          !.seen = stamp, !.remoteAt = time, !.event = event]
  /\ Crosses(FALSE)
  /\ UNCHANGED twins

\* A remote issue without a link is taken for one created in Linear.
ApplyRemote(i, value, time, stamp, event) ==
  IF link.to # i
    THEN twins' = twins \cup {i} /\ UNCHANGED <<local, link, conflict, crossed>>
    ELSE IF stamp <= link.seen \/ (event # 0 /\ event = link.event)
           THEN UNCHANGED <<local, link, conflict, twins, crossed>>
           ELSE Merge(value, time, stamp, event)

\* The issue is fetched when the inbox row is processed.  The stamp is the
\* time of the webhook, or the updatedAt that a poll lists.
PullAt(w, i, stamp) ==
  /\ job[w].at = "idle" /\ i \notin twins
  /\ Becomes(w, [Idle EXCEPT !.at = "pulled", !.target = i, !.value = remote[i].value,
                             !.time = remote[i].time, !.stamp = stamp])
  /\ UNCHANGED <<tables, provider, crossed, upsets>>

Webhook(w) == \E i \in DOMAIN remote, stamp \in 1..clock : PullAt(w, i, stamp)
PollRemote(w) == \E i \in DOMAIN remote : i = link.to /\ PullAt(w, i, remote[i].time)

ApplyPulled(w) ==
  /\ job[w].at = "pulled"
  /\ ApplyRemote(job[w].target, job[w].value, job[w].time, job[w].stamp, 0)
  /\ Becomes(w, Idle)
  /\ UNCHANGED <<outbox, provider, upsets>>

-----------------------------------------------------------------------------
(* Publishing: claimOutbox and handleOutbox. *)

\* Mutation: the rows of an issue are claimed in any order.
ClaimAnyOutbox(w, k) ==
  /\ job[w].at = "idle"
  /\ outbox[k].state = "open" /\ outbox[k].owner = NoWorker
  /\ outbox' = [outbox EXCEPT ![k].owner = w, ![k].attempts = @ + 1]
  /\ Becomes(w, [Idle EXCEPT !.at = "claimed", !.row = k])
  /\ UNCHANGED <<local, link, conflict, twins, provider, crossed, upsets>>

\* Only the oldest open row of the issue can be claimed.  Its backoff is any
\* delay.
ClaimOutbox(w, k) ==
  /\ job[w].at = "idle"
  /\ outbox[k].state = "open" /\ outbox[k].owner = NoWorker
  /\ \A older \in 1..k - 1 : outbox[older].state # "open"
  /\ outbox' = [outbox EXCEPT ![k].owner = w, ![k].attempts = @ + 1]
  /\ Becomes(w, [Idle EXCEPT !.at = "claimed", !.row = k])
  /\ UNCHANGED <<local, link, conflict, twins, provider, crossed, upsets>>

LeaseLapses(k) ==
  /\ outbox[k].owner # NoWorker /\ Upset
  /\ outbox' = [outbox EXCEPT ![k].owner = NoWorker]
  /\ UNCHANGED <<local, link, conflict, twins, provider, job, crossed>>

\* The issue is read before its link, and after it once a merge has been made.
ReadIssue(w) ==
  /\ job[w].at \in {"claimed", "relinked"}
  /\ Becomes(w, [job[w] EXCEPT !.value = local, !.at = IF @ = "claimed" THEN "read" ELSE "send"])
  /\ UNCHANGED <<tables, provider, crossed, upsets>>

ReadLink(w) ==
  /\ job[w].at \in {"read", "reload"}
  /\ IF link.status = "conflict"
       THEN Fails(w)
       ELSE Becomes(w, [job[w] EXCEPT !.link = link.to, !.target = link.to, !.time = link.remoteAt,
              !.at = IF @ = "reload" THEN "relinked" ELSE IF link.to = 0 THEN "list" ELSE "fetch"])
  /\ UNCHANGED <<tables, provider, crossed, upsets>>

FetchLinked(w) ==
  /\ job[w].at = "fetch"
  /\ LET found == remote[job[w].link] IN
       IF found.time > job[w].time
         THEN Becomes(w, [job[w] EXCEPT !.at = "prepush", !.value = found.value, !.time = found.time])
         ELSE Turns(w, "send")
  /\ UNCHANGED <<tables, provider, crossed, upsets>>

MergeBeforePush(w) ==
  /\ job[w].at = "prepush"
  /\ IfOwned(w, "reload")
  /\ IF Owns(w)
       THEN ApplyRemote(job[w].link, job[w].value, job[w].time, job[w].time, job[w].row)
       ELSE UNCHANGED <<local, link, conflict, twins, crossed>>
  /\ UNCHANGED <<outbox, provider, upsets>>

\* Mutation: every attempt without a link creates an issue.
ListNothing(w) ==
  /\ job[w].at = "list"
  /\ Turns(w, "send")
  /\ UNCHANGED <<tables, provider, crossed, upsets>>

\* A later attempt looks for an issue that an earlier one created.
ListByMarker(w) ==
  /\ job[w].at = "list"
  /\ IF outbox[job[w].row].attempts > 1 /\ remote # <<>>
       THEN \E i \in DOMAIN remote : Becomes(w, [job[w] EXCEPT !.at = "send", !.target = i])
       ELSE Turns(w, "send")
  /\ UNCHANGED <<tables, provider, crossed, upsets>>

Send(w) ==
  /\ job[w].at = "send"
  /\ IfOwned(w, "sent")
  /\ UNCHANGED <<tables, provider, crossed, upsets>>

\* CreateIssue when there is no target, UpdateIssue otherwise.
Effect(target, value) ==
  /\ clock' = clock + 1
  /\ remote' = IF target = 0
                 THEN Append(remote, [value |-> value, time |-> clock + 1])
                 ELSE [remote EXCEPT ![target] = [value |-> value, time |-> clock + 1]]

Answered(w) ==
  /\ job[w].at = "sent"
  /\ Effect(job[w].target, job[w].value)
  /\ Becomes(w, [job[w] EXCEPT !.at = "answered", !.time = clock + 1,
       !.target = IF @ = 0 THEN Len(remote) + 1 ELSE @])
  /\ late' = IF Owns(w) THEN late ELSE late + 1
  /\ UNCHANGED <<tables, flying, crossed, upsets>>

\* A request that has been sent and given up: it may still be under way.
MayFly(w) ==
  flying' \in {flying, flying \cup {[target |-> job[w].target, value |-> job[w].value]}}

\* renewLease cancels the request when the claim is lost.
CancelSent(w) ==
  /\ job[w].at = "sent" /\ ~Owns(w)
  /\ MayFly(w)
  /\ Becomes(w, Idle)
  /\ UNCHANGED <<tables, remote, late, clock, crossed, upsets>>

LandsLate(request) ==
  /\ flying' = flying \ {request}
  /\ Effect(request.target, request.value)
  /\ late' = late + 1
  /\ UNCHANGED <<tables, job, crossed, upsets>>

\* Linear refuses or does not answer, before the mutation, at it, or for the
\* work products that are published after it.
RequestFails(w) ==
  /\ job[w].at \in {"fetch", "list", "sent", "answered"} /\ Upset
  /\ IF job[w].at = "sent" THEN MayFly(w) ELSE UNCHANGED flying
  /\ Fails(w)
  /\ UNCHANGED <<tables, remote, late, clock, crossed>>

\* The link and the row in one transaction.  A remote issue that a twin has
\* been linked to violates uq_linear_issue_link_remote.
CommitPush(w) ==
  LET new == job[w].link = 0 IN
  /\ job[w].at = "answered"
  /\ IF new /\ job[w].target \in twins
       THEN Fails(w) /\ UNCHANGED <<link, outbox>>
       ELSE /\ Becomes(w, Idle)
            /\ IF Owns(w)
                 THEN /\ outbox' = [outbox EXCEPT ![job[w].row].state = "done", ![job[w].row].owner = NoWorker]
                      /\ link' = [to |-> IF new THEN job[w].target ELSE link.to, base |-> job[w].value,
                                  seen |-> job[w].time, remoteAt |-> job[w].time,
                                  event |-> 0, status |-> "active"]
                 ELSE UNCHANGED <<link, outbox>>
  /\ UNCHANGED <<local, conflict, twins, provider, crossed, upsets>>

\* Mutation: rows are never given up.
FinishReopened(w) ==
  /\ job[w].at = "failed"
  /\ Becomes(w, Idle)
  /\ outbox' = IF Owns(w) THEN [outbox EXCEPT ![job[w].row].owner = NoWorker] ELSE outbox
  /\ UNCHANGED <<local, link, conflict, twins, provider, crossed, upsets>>

\* finish, for an attempt that failed.
FinishFailed(w) ==
  /\ job[w].at = "failed"
  /\ Becomes(w, Idle)
  /\ outbox' = IF Owns(w)
       THEN [outbox EXCEPT ![job[w].row].owner = NoWorker,
                           ![job[w].row].state = IF outbox[job[w].row].attempts >= MaxAttempts THEN "dead" ELSE "open"]
       ELSE outbox
  /\ UNCHANGED <<local, link, conflict, twins, provider, crossed, upsets>>

-----------------------------------------------------------------------------
(* Users. *)

EditLocal ==
  /\ Upset
  /\ local' = upsets + 2
  /\ outbox' = Append(outbox, NewRow)
  /\ UNCHANGED <<link, conflict, twins, provider, job, crossed>>

EditRemote(i) ==
  /\ Upset
  /\ Effect(i, upsets + 2)
  /\ UNCHANGED <<tables, flying, late, job, crossed>>

\* The row is skipped when the value is the one Linear had.  A merge may have
\* come since: it leaves the conflict open and the link active.
ResolveConflict(chosen) ==
  /\ conflict # NoConflict
  /\ local' = chosen
  /\ conflict' = NoConflict
  /\ link' = [link EXCEPT !.base = chosen, !.status = "active"]
  /\ outbox' = IF chosen = conflict.remote THEN outbox ELSE Append(outbox, NewRow)
  /\ Crosses(link.status = "active")
  /\ UNCHANGED <<twins, provider, job, upsets>>

-----------------------------------------------------------------------------
Works(w) ==
  \/ ApplyPulled(w) \/ ReadIssue(w) \/ ReadLink(w) \/ FetchLinked(w) \/ MergeBeforePush(w) \/ ListByMarker(w)
  \/ Send(w) \/ Answered(w) \/ CommitPush(w) \/ FinishFailed(w)

SyncNext ==
  \/ \E w \in SyncWorker :
       \/ Works(w) \/ Webhook(w) \/ PollRemote(w) \/ CancelSent(w) \/ RequestFails(w)
       \/ \E k \in Rows : ClaimOutbox(w, k)
  \/ \E k \in Rows : LeaseLapses(k)
  \/ \E request \in flying : LandsLate(request)
  \/ EditLocal \/ \E i \in DOMAIN remote : EditRemote(i)
  \/ \E side \in {"local", "remote"} : ResolveConflict(conflict[side])

SyncSpec == SyncInit /\ [][SyncNext]_syncVars

\* Workers get on, and each takes up inbox and outbox rows.
FairSyncSpec ==
  /\ SyncSpec
  /\ \A w \in SyncWorker : WF_syncVars(Works(w))
  /\ SF_syncVars(\E w \in SyncWorker, k \in Rows : ClaimOutbox(w, k))
  /\ SF_syncVars(\E w \in SyncWorker : PollRemote(w))

-----------------------------------------------------------------------------
GivenUp == \E k \in Rows : outbox[k].state = "dead"

\* Retries find the issue that an earlier attempt created: Linear has two only
\* if a request that its sender had given up was carried out all the same, or
\* a row was given up.
OneRemoteIssue == Len(remote) <= 1 \/ late > 0 \/ GivenUp

\* The two sides agree in the end, or a conflict is open, or something the
\* workers cannot make good has happened.
EndsInSync ==
  <>[](\/ link.to # 0 /\ local = remote[link.to].value
       \/ conflict # NoConflict \/ GivenUp \/ late > 0 \/ crossed)

=============================================================================
