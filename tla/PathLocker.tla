----------------------------- MODULE PathLocker -----------------------------
(***************************************************************************)
(* LocalPathLocker (internal/daemon/local_directory.go) and its two users: *)
(* an in_place task, which holds the path from before its preparation to   *)
(* after its report (acquireLocalDirectoryLockIfNeeded), and a worktree    *)
(* task, which holds it for the snapshot of the user's tree.  One path of  *)
(* one daemon process; its entry is created once and never pruned.         *)
(* Chat tasks are exempt and do not appear.                                *)
(***************************************************************************)
CONSTANTS
  Caller,    \* executions that Acquire the path; used again once they are gone
  Worktree,  \* those that only take a snapshot
  Nobody

ASSUME CallerAssumption == Worktree \subseteq Caller /\ Nobody \notin Caller

VARIABLES
  mutex,      \* the caller entry.mu is locked for, by itself or its goroutine
  holderID,   \* entry.holderID
  call,       \* where each caller is
  waiter,     \* its goroutine: "none", "locking" or "locked" (acquired closed)
  abandoned,  \* callers whose goroutine is left to the clean-up goroutine
  ctxDone,    \* queued callers whose waitCtx is done
  taskRow     \* the row on the server

lockerVars == <<mutex, holderID, call, waiter, abandoned, ctxDone, taskRow>>

Owning == {"won", "inside", "running", "leaving", "unlocking"}
Queued == {"parking", "parked"}
OpenRow == {"dispatched", "waiting_local_directory", "running"}

LockerTypeOK ==
  /\ mutex \in Caller \cup {Nobody}
  /\ holderID \in Caller \cup {Nobody}
  /\ call \in [Caller -> {"idle", "gone"} \cup Queued \cup Owning]
  /\ waiter \in [Caller -> {"none", "locking", "locked"}]
  /\ abandoned \in SUBSET Caller
  /\ ctxDone \in SUBSET Caller
  /\ taskRow \in [Caller -> OpenRow \cup {"closed"}]

LockerInit ==
  /\ mutex = Nobody /\ holderID = Nobody
  /\ call = [c \in Caller |-> "idle"]
  /\ waiter = [c \in Caller |-> "none"]
  /\ abandoned = {} /\ ctxDone = {}
  /\ taskRow = [c \in Caller |-> "dispatched"]

To(c, p) == call' = [call EXCEPT ![c] = p]

-----------------------------------------------------------------------------
(* Acquire *)

\* The fast path, or the slow path with its callback onWait.
TryLock(c) ==
  /\ call[c] = "idle"
  /\ IF mutex = Nobody
       THEN mutex' = c /\ To(c, "won")
       ELSE To(c, "parking") /\ UNCHANGED mutex
  /\ UNCHANGED <<holderID, waiter, abandoned, ctxDone, taskRow>>

\* onWait marks the row, best effort; then the goroutine queues on the mutex.
Park(c) ==
  /\ call[c] = "parking"
  /\ \/ /\ taskRow[c] = "dispatched"
        /\ taskRow' = [taskRow EXCEPT ![c] = "waiting_local_directory"]
     \/ UNCHANGED taskRow
  /\ To(c, "parked")
  /\ waiter' = [waiter EXCEPT ![c] = "locking"]
  /\ UNCHANGED <<mutex, holderID, abandoned, ctxDone>>

WaiterLocks(c) ==
  /\ waiter[c] = "locking" /\ mutex = Nobody
  /\ mutex' = c
  /\ waiter' = [waiter EXCEPT ![c] = "locked"]
  /\ UNCHANGED <<holderID, call, abandoned, ctxDone, taskRow>>

\* select takes <-acquired ...
WaitWon(c) ==
  /\ call[c] = "parked" /\ waiter[c] = "locked"
  /\ To(c, "won")
  /\ waiter' = [waiter EXCEPT ![c] = "none"]
  /\ ctxDone' = ctxDone \ {c}
  /\ UNCHANGED <<mutex, holderID, abandoned, taskRow>>

\* ... or <-ctx.Done(), even when both are ready.
WaitCancelled(c) ==
  /\ call[c] = "parked" /\ c \in ctxDone
  /\ To(c, "gone")
  /\ abandoned' = abandoned \cup {c}
  /\ ctxDone' = ctxDone \ {c}
  /\ UNCHANGED <<mutex, holderID, waiter, taskRow>>

\* Mutation: a cancelled wait leaves the lock its goroutine took to nobody.
KeepOn(c) ==
  /\ c \in abandoned /\ waiter[c] = "locked"
  /\ waiter' = [waiter EXCEPT ![c] = "none"]
  /\ abandoned' = abandoned \ {c}
  /\ UNCHANGED <<mutex, holderID, call, ctxDone, taskRow>>

\* The clean-up goroutine: <-acquired, then Unlock.
HandOn(c) ==
  /\ c \in abandoned /\ waiter[c] = "locked"
  /\ mutex' = Nobody
  /\ waiter' = [waiter EXCEPT ![c] = "none"]
  /\ abandoned' = abandoned \ {c}
  /\ UNCHANGED <<holderID, call, ctxDone, taskRow>>

SetHolder(c) ==
  /\ call[c] = "won"
  /\ holderID' = c
  /\ To(c, "inside")
  /\ UNCHANGED <<mutex, waiter, abandoned, ctxDone, taskRow>>

-----------------------------------------------------------------------------
(* The holder, and its release. *)

\* StartTask of an in_place task, once its workdir is prepared.
StartInPlace(c) ==
  /\ call[c] = "inside" /\ c \notin Worktree
  /\ taskRow[c] \in {"dispatched", "waiting_local_directory"}
  /\ taskRow' = [taskRow EXCEPT ![c] = "running"]
  /\ To(c, "running")
  /\ UNCHANGED <<mutex, holderID, waiter, abandoned, ctxDone>>

\* The snapshot is taken, or preparation or StartTask fails.
PrepareEnds(c) ==
  /\ call[c] = "inside"
  /\ To(c, "leaving")
  /\ UNCHANGED <<mutex, holderID, waiter, abandoned, ctxDone, taskRow>>

\* The agent is done or interrupted, and its report is saved.
RunEnds(c) ==
  /\ call[c] = "running"
  /\ To(c, "leaving")
  /\ UNCHANGED <<mutex, holderID, waiter, abandoned, ctxDone, taskRow>>

\* Mutation: the holder is left for the next owner to overwrite.
ClearNoHolder(c) ==
  /\ call[c] = "leaving"
  /\ To(c, "unlocking")
  /\ UNCHANGED <<mutex, holderID, waiter, abandoned, ctxDone, taskRow>>

ClearHolder(c) ==
  /\ call[c] = "leaving"
  /\ holderID' = Nobody
  /\ To(c, "unlocking")
  /\ UNCHANGED <<mutex, waiter, abandoned, ctxDone, taskRow>>

Unlock(c) ==
  /\ call[c] = "unlocking"
  /\ mutex' = Nobody
  /\ To(c, "gone")
  /\ UNCHANGED <<holderID, waiter, abandoned, ctxDone, taskRow>>

-----------------------------------------------------------------------------
(* The server, the watcher of the wait, and the daemon's own context. *)

\* A user cancels the task, or its report reaches the server.
CloseRow(c) ==
  /\ taskRow[c] \in OpenRow
  /\ taskRow' = [taskRow EXCEPT ![c] = "closed"]
  /\ UNCHANGED <<mutex, holderID, call, waiter, abandoned, ctxDone>>

\* Mutation: the wait is only watched when the row could be marked.
WatcherOfMarked(c) ==
  /\ call[c] = "parked" /\ taskRow[c] = "waiting_local_directory"
  /\ ctxDone' = ctxDone \cup {c}
  /\ UNCHANGED <<mutex, holderID, call, waiter, abandoned, taskRow>>

\* watchTaskCancellation, which onWait starts.
WatcherSeesClosed(c) ==
  /\ call[c] = "parked" /\ taskRow[c] = "closed"
  /\ ctxDone' = ctxDone \cup {c}
  /\ UNCHANGED <<mutex, holderID, call, waiter, abandoned, taskRow>>

\* The daemon stops, or the preparation of a worktree task times out.
ParentCancelled(c) ==
  /\ call[c] \in Queued
  /\ ctxDone' = ctxDone \cup {c}
  /\ UNCHANGED <<mutex, holderID, call, waiter, abandoned, taskRow>>

\* Another execution takes the identity of one that has left nothing behind.
NextTask(c) ==
  /\ call[c] = "gone" /\ c \notin abandoned
  /\ To(c, "idle")
  /\ taskRow' = [taskRow EXCEPT ![c] = "dispatched"]
  /\ UNCHANGED <<mutex, holderID, waiter, abandoned, ctxDone>>

-----------------------------------------------------------------------------
LockerStep(c) ==
  \/ TryLock(c) \/ Park(c) \/ WaiterLocks(c) \/ WaitWon(c) \/ WaitCancelled(c)
  \/ HandOn(c) \/ SetHolder(c) \/ StartInPlace(c) \/ PrepareEnds(c) \/ RunEnds(c)
  \/ ClearHolder(c) \/ Unlock(c)
  \/ CloseRow(c) \/ WatcherSeesClosed(c) \/ ParentCancelled(c) \/ NextTask(c)

LockerNext == \E c \in Caller : LockerStep(c)

\* Goroutines run; sync.Mutex hands itself to a starving waiter; a task that
\* is closed on the server is interrupted.  An agent may run for ever.
Advance(c) ==
  \/ TryLock(c) \/ Park(c) \/ WaitWon(c) \/ WaitCancelled(c) \/ SetHolder(c)
  \/ StartInPlace(c) \/ PrepareEnds(c) \/ (taskRow[c] = "closed" /\ RunEnds(c))
  \/ ClearHolder(c) \/ Unlock(c)

LockerFairness ==
  \A c \in Caller :
    /\ WF_lockerVars(Advance(c)) /\ WF_lockerVars(HandOn(c))
    /\ WF_lockerVars(WatcherSeesClosed(c)) /\ SF_lockerVars(WaiterLocks(c))

LockerSpec == LockerInit /\ [][LockerNext]_lockerVars
FairLockerSpec == LockerSpec /\ LockerFairness

-----------------------------------------------------------------------------
\* Callers that hold the path are inside, callers behind it wait.
Stage == [c \in Caller |->
            IF call[c] \in Owning THEN "inside"
            ELSE IF call[c] \in Queued THEN "waiting" ELSE "out"]

Lock == INSTANCE PathLock WITH stage <- Stage

\* The locker implements the abstract lock, its progress included: a phantom
\* holder that a cancelled wait leaves behind is handed on.
IsPathLock == Lock!PathLockSpec

\* The hint that names the holder never names a task that has let the path go.
HolderOwns == holderID # Nobody => mutex = holderID /\ call[holderID] \in {"inside", "running", "leaving"}

\* A task closed on the server gives the path or its place in the queue back,
\* whatever the agent ahead of it does: its slot is not pinned.
ClosedTaskLeaves ==
  \A c \in Caller : taskRow[c] = "closed" /\ call[c] # "idle" ~> call[c] \in {"gone", "idle"}

=============================================================================
