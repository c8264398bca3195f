-------------------------- MODULE PathLockerProofs --------------------------
(***************************************************************************)
(* LocalPathLocker implements the abstract lock of PathLock, for any       *)
(* number of tasks: the safety half of PathLocker's IsPathLock.            *)
(***************************************************************************)
EXTENDS PathLocker, TLAPS

(* A caller owns the mutex itself or through its goroutine, never both, and *)
(* a goroutine that outlives its caller is one of the abandoned.            *)
OwnerHolds ==
  \A c \in Caller : call[c] \in Owning => mutex = c /\ waiter[c] = "none"
GoroutineHolds == \A c \in Caller : waiter[c] = "locked" => mutex = c
GoroutineServes ==
  \A c \in Caller : IF c \in abandoned THEN call[c] = "gone" /\ waiter[c] # "none"
                    ELSE waiter[c] # "none" <=> call[c] = "parked"
HolderNamed ==
  \A c \in Caller : call[c] \in {"inside", "running", "leaving"} <=> holderID = c

LockerInv ==
  LockerTypeOK /\ OwnerHolds /\ GoroutineHolds /\ GoroutineServes /\ HolderNamed

LEMMA LockerInvInit == LockerInit => LockerInv
BY CallerAssumption
   DEF LockerInit, LockerInv, LockerTypeOK, OwnerHolds, GoroutineHolds, GoroutineServes,
       HolderNamed, Owning, Queued, OpenRow

(* Every step of every caller keeps the invariant. *)
LEMMA LockerInvStep ==
  ASSUME LockerInv, NEW c \in Caller, LockerStep(c)
  PROVE  LockerInv'
<1> USE CallerAssumption DEF Owning, Queued, OpenRow, To
<1>1. CASE TryLock(c)
  <2>1. LockerTypeOK'
    BY <1>1 DEF LockerInv, TryLock, LockerTypeOK
  <2>2. OwnerHolds'
    BY <1>1 DEF LockerInv, TryLock, OwnerHolds, GoroutineHolds, GoroutineServes, LockerTypeOK
  <2>3. GoroutineHolds'
    BY <1>1 DEF LockerInv, TryLock, OwnerHolds, GoroutineHolds, GoroutineServes, LockerTypeOK
  <2>4. GoroutineServes'
    BY <1>1 DEF LockerInv, TryLock, OwnerHolds, GoroutineServes, LockerTypeOK
  <2>5. HolderNamed'
    BY <1>1 DEF LockerInv, TryLock, OwnerHolds, HolderNamed, LockerTypeOK
  <2> QED BY <2>1, <2>2, <2>3, <2>4, <2>5 DEF LockerInv
<1>2. CASE Park(c)
  <2>1. LockerTypeOK'
    BY <1>2 DEF LockerInv, Park, LockerTypeOK
  <2>2. OwnerHolds'
    BY <1>2 DEF LockerInv, Park, OwnerHolds, GoroutineHolds, GoroutineServes, LockerTypeOK
  <2>3. GoroutineHolds'
    BY <1>2 DEF LockerInv, Park, OwnerHolds, GoroutineHolds, GoroutineServes, LockerTypeOK
  <2>4. GoroutineServes'
    BY <1>2 DEF LockerInv, Park, OwnerHolds, GoroutineServes, LockerTypeOK
  <2>5. HolderNamed'
    BY <1>2 DEF LockerInv, Park, OwnerHolds, HolderNamed, LockerTypeOK
  <2> QED BY <2>1, <2>2, <2>3, <2>4, <2>5 DEF LockerInv
<1>3. CASE WaiterLocks(c)
  <2>1. LockerTypeOK'
    BY <1>3 DEF LockerInv, WaiterLocks, LockerTypeOK
  <2>2. OwnerHolds'
    BY <1>3 DEF LockerInv, WaiterLocks, OwnerHolds, GoroutineHolds, GoroutineServes, LockerTypeOK
  <2>3. GoroutineHolds'
    BY <1>3 DEF LockerInv, WaiterLocks, OwnerHolds, GoroutineHolds, GoroutineServes, LockerTypeOK
  <2>4. GoroutineServes'
    BY <1>3 DEF LockerInv, WaiterLocks, OwnerHolds, GoroutineServes, LockerTypeOK
  <2>5. HolderNamed'
    BY <1>3 DEF LockerInv, WaiterLocks, OwnerHolds, HolderNamed, LockerTypeOK
  <2> QED BY <2>1, <2>2, <2>3, <2>4, <2>5 DEF LockerInv
<1>4. CASE WaitWon(c)
  <2>1. LockerTypeOK'
    BY <1>4 DEF LockerInv, WaitWon, LockerTypeOK
  <2>2. OwnerHolds'
    BY <1>4 DEF LockerInv, WaitWon, OwnerHolds, GoroutineHolds, GoroutineServes, LockerTypeOK
  <2>3. GoroutineHolds'
    BY <1>4 DEF LockerInv, WaitWon, OwnerHolds, GoroutineHolds, GoroutineServes, LockerTypeOK
  <2>4. GoroutineServes'
    BY <1>4 DEF LockerInv, WaitWon, OwnerHolds, GoroutineServes, LockerTypeOK
  <2>5. HolderNamed'
    BY <1>4 DEF LockerInv, WaitWon, OwnerHolds, HolderNamed, LockerTypeOK
  <2> QED BY <2>1, <2>2, <2>3, <2>4, <2>5 DEF LockerInv
<1>5. CASE WaitCancelled(c)
  <2>1. LockerTypeOK'
    BY <1>5 DEF LockerInv, WaitCancelled, LockerTypeOK
  <2>2. OwnerHolds'
    BY <1>5 DEF LockerInv, WaitCancelled, OwnerHolds, GoroutineHolds, GoroutineServes, LockerTypeOK
  <2>3. GoroutineHolds'
    BY <1>5 DEF LockerInv, WaitCancelled, OwnerHolds, GoroutineHolds, GoroutineServes, LockerTypeOK
  <2>4. GoroutineServes'
    BY <1>5 DEF LockerInv, WaitCancelled, OwnerHolds, GoroutineServes, LockerTypeOK
  <2>5. HolderNamed'
    BY <1>5 DEF LockerInv, WaitCancelled, OwnerHolds, HolderNamed, LockerTypeOK
  <2> QED BY <2>1, <2>2, <2>3, <2>4, <2>5 DEF LockerInv
<1>6. CASE HandOn(c)
  <2>1. LockerTypeOK'
    BY <1>6 DEF LockerInv, HandOn, LockerTypeOK
  <2>2. OwnerHolds'
    BY <1>6 DEF LockerInv, HandOn, OwnerHolds, GoroutineHolds, GoroutineServes, LockerTypeOK
  <2>3. GoroutineHolds'
    BY <1>6 DEF LockerInv, HandOn, OwnerHolds, GoroutineHolds, GoroutineServes, LockerTypeOK
  <2>4. GoroutineServes'
    BY <1>6 DEF LockerInv, HandOn, OwnerHolds, GoroutineServes, LockerTypeOK
  <2>5. HolderNamed'
    BY <1>6 DEF LockerInv, HandOn, OwnerHolds, HolderNamed, LockerTypeOK
  <2> QED BY <2>1, <2>2, <2>3, <2>4, <2>5 DEF LockerInv
<1>7. CASE SetHolder(c)
  <2>1. LockerTypeOK'
    BY <1>7 DEF LockerInv, SetHolder, LockerTypeOK
  <2>2. OwnerHolds'
    BY <1>7 DEF LockerInv, SetHolder, OwnerHolds, GoroutineHolds, GoroutineServes, LockerTypeOK
  <2>3. GoroutineHolds'
    BY <1>7 DEF LockerInv, SetHolder, OwnerHolds, GoroutineHolds, GoroutineServes, LockerTypeOK
  <2>4. GoroutineServes'
    BY <1>7 DEF LockerInv, SetHolder, OwnerHolds, GoroutineServes, LockerTypeOK
  <2>5. HolderNamed'
    BY <1>7 DEF LockerInv, SetHolder, OwnerHolds, HolderNamed, LockerTypeOK
  <2> QED BY <2>1, <2>2, <2>3, <2>4, <2>5 DEF LockerInv
<1>8. CASE StartInPlace(c)
  <2>1. LockerTypeOK'
    BY <1>8 DEF LockerInv, StartInPlace, LockerTypeOK
  <2>2. OwnerHolds'
    BY <1>8 DEF LockerInv, StartInPlace, OwnerHolds, GoroutineHolds, GoroutineServes, LockerTypeOK
  <2>3. GoroutineHolds'
    BY <1>8 DEF LockerInv, StartInPlace, OwnerHolds, GoroutineHolds, GoroutineServes, LockerTypeOK
  <2>4. GoroutineServes'
    BY <1>8 DEF LockerInv, StartInPlace, OwnerHolds, GoroutineServes, LockerTypeOK
  <2>5. HolderNamed'
    BY <1>8 DEF LockerInv, StartInPlace, OwnerHolds, HolderNamed, LockerTypeOK
  <2> QED BY <2>1, <2>2, <2>3, <2>4, <2>5 DEF LockerInv
<1>9. CASE PrepareEnds(c)
  <2>1. LockerTypeOK'
    BY <1>9 DEF LockerInv, PrepareEnds, LockerTypeOK
  <2>2. OwnerHolds'
    BY <1>9 DEF LockerInv, PrepareEnds, OwnerHolds, GoroutineHolds, GoroutineServes, LockerTypeOK
  <2>3. GoroutineHolds'
    BY <1>9 DEF LockerInv, PrepareEnds, OwnerHolds, GoroutineHolds, GoroutineServes, LockerTypeOK
  <2>4. GoroutineServes'
    BY <1>9 DEF LockerInv, PrepareEnds, OwnerHolds, GoroutineServes, LockerTypeOK
  <2>5. HolderNamed'
    BY <1>9 DEF LockerInv, PrepareEnds, OwnerHolds, HolderNamed, LockerTypeOK
  <2> QED BY <2>1, <2>2, <2>3, <2>4, <2>5 DEF LockerInv
<1>10. CASE RunEnds(c)
  <2>1. LockerTypeOK'
    BY <1>10 DEF LockerInv, RunEnds, LockerTypeOK
  <2>2. OwnerHolds'
    BY <1>10 DEF LockerInv, RunEnds, OwnerHolds, GoroutineHolds, GoroutineServes, LockerTypeOK
  <2>3. GoroutineHolds'
    BY <1>10 DEF LockerInv, RunEnds, OwnerHolds, GoroutineHolds, GoroutineServes, LockerTypeOK
  <2>4. GoroutineServes'
    BY <1>10 DEF LockerInv, RunEnds, OwnerHolds, GoroutineServes, LockerTypeOK
  <2>5. HolderNamed'
    BY <1>10 DEF LockerInv, RunEnds, OwnerHolds, HolderNamed, LockerTypeOK
  <2> QED BY <2>1, <2>2, <2>3, <2>4, <2>5 DEF LockerInv
<1>11. CASE ClearHolder(c)
  <2>1. LockerTypeOK'
    BY <1>11 DEF LockerInv, ClearHolder, LockerTypeOK
  <2>2. OwnerHolds'
    BY <1>11 DEF LockerInv, ClearHolder, OwnerHolds, GoroutineHolds, GoroutineServes, LockerTypeOK
  <2>3. GoroutineHolds'
    BY <1>11 DEF LockerInv, ClearHolder, OwnerHolds, GoroutineHolds, GoroutineServes, LockerTypeOK
  <2>4. GoroutineServes'
    BY <1>11 DEF LockerInv, ClearHolder, OwnerHolds, GoroutineServes, LockerTypeOK
  <2>5. HolderNamed'
    BY <1>11 DEF LockerInv, ClearHolder, OwnerHolds, HolderNamed, LockerTypeOK
  <2> QED BY <2>1, <2>2, <2>3, <2>4, <2>5 DEF LockerInv
<1>12. CASE Unlock(c)
  <2>1. LockerTypeOK'
    BY <1>12 DEF LockerInv, Unlock, LockerTypeOK
  <2>2. OwnerHolds'
    BY <1>12 DEF LockerInv, Unlock, OwnerHolds, GoroutineHolds, GoroutineServes, LockerTypeOK
  <2>3. GoroutineHolds'
    BY <1>12 DEF LockerInv, Unlock, OwnerHolds, GoroutineHolds, GoroutineServes, LockerTypeOK
  <2>4. GoroutineServes'
    BY <1>12 DEF LockerInv, Unlock, OwnerHolds, GoroutineServes, LockerTypeOK
  <2>5. HolderNamed'
    BY <1>12 DEF LockerInv, Unlock, OwnerHolds, HolderNamed, LockerTypeOK
  <2> QED BY <2>1, <2>2, <2>3, <2>4, <2>5 DEF LockerInv
<1>13. CASE CloseRow(c)
  <2>1. LockerTypeOK'
    BY <1>13 DEF LockerInv, CloseRow, LockerTypeOK
  <2>2. OwnerHolds'
    BY <1>13 DEF LockerInv, CloseRow, OwnerHolds, GoroutineHolds, GoroutineServes, LockerTypeOK
  <2>3. GoroutineHolds'
    BY <1>13 DEF LockerInv, CloseRow, OwnerHolds, GoroutineHolds, GoroutineServes, LockerTypeOK
  <2>4. GoroutineServes'
    BY <1>13 DEF LockerInv, CloseRow, OwnerHolds, GoroutineServes, LockerTypeOK
  <2>5. HolderNamed'
    BY <1>13 DEF LockerInv, CloseRow, OwnerHolds, HolderNamed, LockerTypeOK
  <2> QED BY <2>1, <2>2, <2>3, <2>4, <2>5 DEF LockerInv
<1>14. CASE WatcherSeesClosed(c)
  <2>1. LockerTypeOK'
    BY <1>14 DEF LockerInv, WatcherSeesClosed, LockerTypeOK
  <2>2. OwnerHolds'
    BY <1>14 DEF LockerInv, WatcherSeesClosed, OwnerHolds, GoroutineHolds, GoroutineServes, LockerTypeOK
  <2>3. GoroutineHolds'
    BY <1>14 DEF LockerInv, WatcherSeesClosed, OwnerHolds, GoroutineHolds, GoroutineServes, LockerTypeOK
  <2>4. GoroutineServes'
    BY <1>14 DEF LockerInv, WatcherSeesClosed, OwnerHolds, GoroutineServes, LockerTypeOK
  <2>5. HolderNamed'
    BY <1>14 DEF LockerInv, WatcherSeesClosed, OwnerHolds, HolderNamed, LockerTypeOK
  <2> QED BY <2>1, <2>2, <2>3, <2>4, <2>5 DEF LockerInv
<1>15. CASE ParentCancelled(c)
  <2>1. LockerTypeOK'
    BY <1>15 DEF LockerInv, ParentCancelled, LockerTypeOK
  <2>2. OwnerHolds'
    BY <1>15 DEF LockerInv, ParentCancelled, OwnerHolds, GoroutineHolds, GoroutineServes, LockerTypeOK
  <2>3. GoroutineHolds'
    BY <1>15 DEF LockerInv, ParentCancelled, OwnerHolds, GoroutineHolds, GoroutineServes, LockerTypeOK
  <2>4. GoroutineServes'
    BY <1>15 DEF LockerInv, ParentCancelled, OwnerHolds, GoroutineServes, LockerTypeOK
  <2>5. HolderNamed'
    BY <1>15 DEF LockerInv, ParentCancelled, OwnerHolds, HolderNamed, LockerTypeOK
  <2> QED BY <2>1, <2>2, <2>3, <2>4, <2>5 DEF LockerInv
<1>16. CASE NextTask(c)
  <2>1. LockerTypeOK'
    BY <1>16 DEF LockerInv, NextTask, LockerTypeOK
  <2>2. OwnerHolds'
    BY <1>16 DEF LockerInv, NextTask, OwnerHolds, GoroutineHolds, GoroutineServes, LockerTypeOK
  <2>3. GoroutineHolds'
    BY <1>16 DEF LockerInv, NextTask, OwnerHolds, GoroutineHolds, GoroutineServes, LockerTypeOK
  <2>4. GoroutineServes'
    BY <1>16 DEF LockerInv, NextTask, OwnerHolds, GoroutineServes, LockerTypeOK
  <2>5. HolderNamed'
    BY <1>16 DEF LockerInv, NextTask, OwnerHolds, HolderNamed, LockerTypeOK
  <2> QED BY <2>1, <2>2, <2>3, <2>4, <2>5 DEF LockerInv
<1> QED
  BY <1>1, <1>2, <1>3, <1>4, <1>5, <1>6, <1>7, <1>8, <1>9, <1>10, <1>11, <1>12, <1>13, <1>14, <1>15, <1>16 DEF LockerStep

(* The invariant of the locker holds in every reachable state. *)
THEOREM LockerInvariant == LockerSpec => []LockerInv
<1>1. LockerInit => LockerInv
  BY LockerInvInit
<1>2. LockerInv /\ [LockerNext]_lockerVars => LockerInv'
  <2> SUFFICES ASSUME LockerInv, [LockerNext]_lockerVars PROVE LockerInv'
    OBVIOUS
  <2>1. CASE LockerNext
    BY <2>1, LockerInvStep DEF LockerNext
  <2>2. CASE UNCHANGED lockerVars
    BY <2>2 DEF LockerInv, LockerTypeOK, OwnerHolds, GoroutineHolds, GoroutineServes,
                HolderNamed, lockerVars
  <2> QED BY <2>1, <2>2
<1> QED BY <1>1, <1>2, PTL DEF LockerSpec

(* The holder that a waiting task is told of is one that still has the path. *)
THEOREM LockerHint == LockerSpec => []HolderOwns
<1>1. LockerInv => HolderOwns
  BY CallerAssumption DEF LockerInv, LockerTypeOK, OwnerHolds, HolderNamed, HolderOwns, Owning
<1> QED BY <1>1, LockerInvariant, PTL

(* Each step of the locker is a step of the abstract lock, or none of it. *)
LEMMA LockerRefinesStep ==
  ASSUME LockerInv, NEW c \in Caller, LockerStep(c)
  PROVE  [Lock!PathLockNext]_Stage
<1> USE CallerAssumption DEF Owning, Queued

<1>1. CASE TryLock(c)
  <2>1. CASE mutex = Nobody
    <3>1. Lock!Enter(c)
      BY <1>1, <2>1 DEF TryLock, To, Stage, LockerInv, LockerTypeOK, OwnerHolds, Lock!Enter, Lock!Vacant
    <3> QED BY <3>1 DEF Lock!PathLockNext
  <2>2. CASE mutex # Nobody
    <3>1. Lock!Ask(c)
      BY <1>1, <2>2 DEF TryLock, To, Stage, LockerInv, LockerTypeOK, Lock!Ask
    <3> QED BY <3>1 DEF Lock!PathLockNext
  <2> QED BY <2>1, <2>2
<1>2. CASE Park(c)
  BY <1>2 DEF Park, To, Stage, LockerInv, LockerTypeOK
<1>3. CASE WaiterLocks(c)
  BY <1>3 DEF WaiterLocks, To, Stage, LockerInv, LockerTypeOK
<1>4. CASE WaitWon(c)
  <2>1. Lock!Enter(c)
    BY <1>4 DEF WaitWon, To, Stage, LockerInv, LockerTypeOK, OwnerHolds, GoroutineHolds, Lock!Enter, Lock!Vacant
  <2> QED BY <2>1 DEF Lock!PathLockNext
<1>5. CASE WaitCancelled(c)
  <2>1. Lock!GiveUp(c)
    BY <1>5 DEF WaitCancelled, To, Stage, LockerInv, LockerTypeOK, Lock!GiveUp
  <2> QED BY <2>1 DEF Lock!PathLockNext
<1>6. CASE HandOn(c)
  BY <1>6 DEF HandOn, To, Stage, LockerInv, LockerTypeOK
<1>7. CASE SetHolder(c)
  BY <1>7 DEF SetHolder, To, Stage, LockerInv, LockerTypeOK
<1>8. CASE StartInPlace(c)
  BY <1>8 DEF StartInPlace, To, Stage, LockerInv, LockerTypeOK
<1>9. CASE PrepareEnds(c)
  BY <1>9 DEF PrepareEnds, To, Stage, LockerInv, LockerTypeOK
<1>10. CASE RunEnds(c)
  BY <1>10 DEF RunEnds, To, Stage, LockerInv, LockerTypeOK
<1>11. CASE ClearHolder(c)
  BY <1>11 DEF ClearHolder, To, Stage, LockerInv, LockerTypeOK
<1>12. CASE Unlock(c)
  <2>1. Lock!Leave(c)
    BY <1>12 DEF Unlock, To, Stage, LockerInv, LockerTypeOK, Lock!Leave
  <2> QED BY <2>1 DEF Lock!PathLockNext
<1>13. CASE CloseRow(c)
  BY <1>13 DEF CloseRow, To, Stage, LockerInv, LockerTypeOK
<1>14. CASE WatcherSeesClosed(c)
  BY <1>14 DEF WatcherSeesClosed, To, Stage, LockerInv, LockerTypeOK
<1>15. CASE ParentCancelled(c)
  BY <1>15 DEF ParentCancelled, To, Stage, LockerInv, LockerTypeOK
<1>16. CASE NextTask(c)
  BY <1>16 DEF NextTask, To, Stage, LockerInv, LockerTypeOK
<1> QED
  BY <1>1, <1>2, <1>3, <1>4, <1>5, <1>6, <1>7, <1>8, <1>9, <1>10, <1>11, <1>12, <1>13, <1>14, <1>15, <1>16 DEF LockerStep

(* The locker implements the abstract lock: never two tasks inside one     *)
(* directory, in whatever order locks, cancellations and releases happen.  *)
(* What is proved is IsPathLock without its liveness conjunct.             *)
THEOREM LockerRefinesPathLock == LockerSpec => Lock!PathLockSafe
<1>1. LockerInit => Lock!PathLockInit
  BY DEF LockerInit, Lock!PathLockInit, Stage, Owning, Queued
<1>2. LockerInv /\ [LockerNext]_lockerVars => [Lock!PathLockNext]_Stage
  <2> SUFFICES ASSUME LockerInv, [LockerNext]_lockerVars PROVE [Lock!PathLockNext]_Stage
    OBVIOUS
  <2>1. CASE LockerNext
    BY <2>1, LockerRefinesStep DEF LockerNext
  <2>2. CASE UNCHANGED lockerVars
    BY <2>2 DEF lockerVars, Stage
  <2> QED BY <2>1, <2>2
<1> QED BY <1>1, <1>2, LockerInvariant, PTL DEF LockerSpec, Lock!PathLockSafe

=============================================================================
