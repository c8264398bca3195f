---------------------------- MODULE MediaLedger ----------------------------
(***************************************************************************)
(* The intent ledger of channel media: one object that a media job uploads *)
(* and attaches to a chat message, and the reconcilers of the replicas,    *)
(* which settle what the job left behind.  Database and object store are   *)
(* two systems; the row of the ledger is what ties them together.          *)
(*                                                                         *)
(* How long a row waits before it is due (settle delay, backoff, re-delete *)
(* times) is left out: it may be claimed at any time, and a lease may      *)
(* lapse at any time.                                                      *)
(***************************************************************************)
EXTENDS Integers

CONSTANTS
  Reconciler,   \* the replicas' reconcilers
  NoLease,      \* "no lease token"; not a reconciler
  Passes,       \* length of channelMediaTombstoneRedelete
  MaxSlips      \* bound on errors, lapsed leases and deaths

ASSUME LedgerAssumption == NoLease \notin Reconciler /\ Passes \in Nat \ {0} /\ MaxSlips \in Nat

VARIABLES
  mediaJob,  \* the media job: "start", "recorded", "uploaded", "binding", "over"
  intent,    \* state of the ledger row: "none", "pending", "deleting", "tombstoned"
  pass,      \* its tombstone_pass
  lease,     \* its lease_token: the reconciler that claimed it last
  lapsed,    \* lease_expires_at has passed
  attached,  \* an attachment row carries the object's URL
  object,    \* the object is in the store
  abandoned, \* requests the store may still execute: "put", "delete"
  settler,   \* each reconciler: "idle", "check", "delete", "write", "release"
  seen,      \* the row each reconciler was given by its claim
  slips

ledgerRow == <<intent, pass, lease, lapsed>>
store == <<object, abandoned>>
ledgerVars == <<mediaJob, ledgerRow, attached, store, settler, seen, slips>>

Fresh == [state |-> "deleting", pass |-> 0]

LedgerInit ==
  /\ mediaJob = "start" /\ intent = "none" /\ pass = 0 /\ lease = NoLease /\ lapsed = FALSE
  /\ attached = FALSE /\ object = FALSE /\ abandoned = {}
  /\ settler = [w \in Reconciler |-> "idle"] /\ seen = [w \in Reconciler |-> Fresh] /\ slips = 0

Slip == slips < MaxSlips /\ slips' = slips + 1

-----------------------------------------------------------------------------
(* The media job of one message. *)

\* The intent is written before the upload; if the answer is lost, or the
\* process dies, the row may exist and nothing is uploaded.
Record ==
  /\ mediaJob = "start"
  /\ \/ mediaJob' = "recorded" /\ intent' = "pending" /\ UNCHANGED slips
     \/ mediaJob' = "over" /\ intent' \in {"none", "pending"} /\ Slip
  /\ UNCHANGED <<pass, lease, lapsed, attached, store, settler, seen>>

\* nextTombstonePass: the position the next successful delete records.
NextPass(r) == IF r.state = "tombstoned" THEN r.pass + 1 ELSE 0

\* The schedule of re-deletes (31 hours) outlasts every PUT: none lands after
\* the delete that ends it.
ScheduleOpen ==
  /\ intent # "none"
  /\ \A w \in Reconciler : settler[w] = "write" => NextPass(seen[w]) < Passes

Upload ==
  /\ mediaJob = "recorded" /\ ScheduleOpen
  /\ object' = TRUE /\ mediaJob' = "uploaded"
  /\ UNCHANGED <<ledgerRow, attached, abandoned, settler, seen, slips>>

\* The upload fails for the client; the store may still execute it.
UploadFails ==
  /\ mediaJob = "recorded" /\ Slip
  /\ mediaJob' = "over" /\ abandoned' \in {abandoned, abandoned \cup {"put"}}
  /\ UNCHANGED <<ledgerRow, attached, object, settler, seen>>

LatePutLands ==
  /\ "put" \in abandoned /\ ScheduleOpen
  /\ object' = TRUE /\ abandoned' = abandoned \ {"put"}
  /\ UNCHANGED <<mediaJob, ledgerRow, attached, settler, seen, slips>>

\* The deadline passes, or the process dies: the references are dropped.
JobEnds ==
  /\ mediaJob \in {"recorded", "uploaded"} /\ Slip /\ mediaJob' = "over"
  /\ UNCHANGED <<ledgerRow, attached, store, settler, seen>>

\* Mutation: the bind does not ask for the row's state.
ClaimAnyForBind ==
  /\ mediaJob = "uploaded"
  /\ mediaJob' = IF intent # "none" THEN "binding" ELSE "over"
  /\ UNCHANGED <<ledgerRow, attached, store, settler, seen, slips>>

\* The bind transaction deletes the row if it is still pending, and holds its
\* lock; without it the object is not attached.
ClaimForBind ==
  /\ mediaJob = "uploaded"
  /\ mediaJob' = IF intent = "pending" THEN "binding" ELSE "over"
  /\ UNCHANGED <<ledgerRow, attached, store, settler, seen, slips>>

\* Its end, whoever still waits for it: attachment and row change together.
BindCommits ==
  /\ mediaJob = "binding" /\ mediaJob' = "over"
  /\ attached' = TRUE /\ intent' = "none"
  /\ UNCHANGED <<pass, lease, lapsed, store, settler, seen, slips>>

BindRollsBack ==
  /\ mediaJob = "binding" /\ Slip /\ mediaJob' = "over"
  /\ UNCHANGED <<ledgerRow, attached, store, settler, seen>>

-----------------------------------------------------------------------------
(* The reconcilers. *)

Due ==
  \/ intent = "pending" /\ mediaJob # "binding"          \* SKIP LOCKED
  \/ intent \in {"deleting", "tombstoned"} /\ (lease = NoLease \/ lapsed)

ClaimNext(w) ==
  /\ settler[w] = "idle" /\ Due
  /\ intent' = (IF intent = "tombstoned" THEN "tombstoned" ELSE "deleting")
  /\ lease' = w /\ lapsed' = FALSE
  /\ seen' = [seen EXCEPT ![w] = [state |-> intent', pass |-> pass]]
  /\ settler' = [settler EXCEPT ![w] = "check"]
  /\ UNCHANGED <<mediaJob, pass, attached, store, slips>>

LeaseExpires ==
  /\ lease # NoLease /\ ~lapsed /\ Slip /\ lapsed' = TRUE
  /\ UNCHANGED <<mediaJob, intent, pass, lease, attached, store, settler, seen>>

\* Every write of a reconciler asks for its lease token.
ClearRow(w) ==
  IF lease = w
    THEN intent' = "none" /\ pass' = 0 /\ lease' = NoLease /\ lapsed' = FALSE ELSE UNCHANGED ledgerRow

CheckReference(w) ==
  /\ settler[w] = "check"
  /\ IF attached THEN ClearRow(w) /\ settler' = [settler EXCEPT ![w] = "idle"]
                 ELSE UNCHANGED ledgerRow /\ settler' = [settler EXCEPT ![w] = "delete"]
  /\ UNCHANGED <<mediaJob, attached, store, seen, slips>>

DeleteObject(w) ==
  /\ settler[w] = "delete"
  /\ object' = FALSE /\ settler' = [settler EXCEPT ![w] = "write"]
  /\ UNCHANGED <<mediaJob, ledgerRow, attached, abandoned, seen, slips>>

\* The query or the request fails; a DELETE given up may still be executed.
SettleFails(w) ==
  /\ settler[w] \in {"check", "delete"} /\ Slip
  /\ settler' = [settler EXCEPT ![w] = "release"]
  /\ abandoned' \in {abandoned}
       \cup (IF settler[w] = "delete" THEN {abandoned \cup {"delete"}} ELSE {})
  /\ UNCHANGED <<mediaJob, ledgerRow, attached, object, seen>>

LateDeleteLands ==
  /\ "delete" \in abandoned
  /\ object' = FALSE /\ abandoned' = abandoned \ {"delete"}
  /\ UNCHANGED <<mediaJob, ledgerRow, attached, settler, seen, slips>>

\* Mutation: one successful delete ends the row.
ClearDeleted(w) ==
  /\ settler[w] = "write" /\ settler' = [settler EXCEPT ![w] = "idle"]
  /\ ClearRow(w)
  /\ UNCHANGED <<mediaJob, attached, store, seen, slips>>

\* The row stays as a tombstone until the schedule is exhausted.
Tombstone(w) ==
  /\ settler[w] = "write" /\ settler' = [settler EXCEPT ![w] = "idle"]
  /\ IF NextPass(seen[w]) < Passes
       THEN IF lease = w
              THEN /\ intent' = "tombstoned" /\ pass' = NextPass(seen[w])
                   /\ lease' = NoLease /\ lapsed' = FALSE
              ELSE UNCHANGED ledgerRow
       ELSE ClearRow(w)
  /\ UNCHANGED <<mediaJob, attached, store, seen, slips>>

ReleaseRow(w) ==
  /\ settler[w] = "release" /\ settler' = [settler EXCEPT ![w] = "idle"]
  /\ IF lease = w THEN lease' = NoLease /\ lapsed' = FALSE ELSE UNCHANGED <<lease, lapsed>>
  /\ UNCHANGED <<mediaJob, intent, pass, attached, store, seen, slips>>

\* A write fails or the replica dies: the lease stays until it expires, which
\* then is no slip of its own.
SettlerDies(w) ==
  /\ settler[w] # "idle" /\ Slip /\ settler' = [settler EXCEPT ![w] = "idle"]
  /\ lapsed' = (lease = w \/ lapsed)
  /\ UNCHANGED <<mediaJob, intent, pass, lease, attached, store, seen>>

Settle(w) == CheckReference(w) \/ DeleteObject(w) \/ Tombstone(w) \/ ReleaseRow(w)
JobStep == Record \/ Upload \/ ClaimForBind \/ BindCommits

LedgerNext ==
  \/ JobStep \/ UploadFails \/ LatePutLands \/ JobEnds \/ BindRollsBack
  \/ LeaseExpires \/ LateDeleteLands
  \/ \E w \in Reconciler : ClaimNext(w) \/ Settle(w) \/ SettleFails(w) \/ SettlerDies(w)

LedgerSpec == LedgerInit /\ [][LedgerNext]_ledgerVars

-----------------------------------------------------------------------------
(* Properties. *)

LedgerTypeOK ==
  /\ mediaJob \in {"start", "recorded", "uploaded", "binding", "over"}
  /\ intent \in {"none", "pending", "deleting", "tombstoned"} /\ pass \in 0 .. Passes - 1
  /\ lease \in Reconciler \cup {NoLease} /\ {lapsed, attached, object} \subseteq BOOLEAN
  /\ abandoned \subseteq {"put", "delete"} /\ slips \in 0 .. MaxSlips
  /\ settler \in [Reconciler -> {"idle", "check", "delete", "write", "release"}]
  /\ seen \in [Reconciler -> [state : {"deleting", "tombstoned"}, pass : 0 .. Passes - 1]]

\* channel_media_reconciler.go, 17-46: reclaiming an orphan never outranks
\* keeping an object something durably reads.  An attached object is in the
\* store and no reconciler, live or late, is after it.
NothingDangles == attached => object /\ intent = "none" /\ "delete" \notin abandoned

\* The other half: what the job uploaded and did not attach is gone in the end,
\* with its row, also when a PUT lands after the first deletes.
OrphansGo == <>[](intent = "none" /\ object = attached)
=============================================================================
