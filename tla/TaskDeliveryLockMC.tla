------------------------- MODULE TaskDeliveryLockMC -------------------------
(***************************************************************************)
(* The instance of TaskDelivery with one task, and the path locker of the  *)
(* daemon with a directory that three executions want.  They share no      *)
(* state here: each behaviour picks one of them and leaves the other as it *)
(* was.                                                                    *)
(***************************************************************************)
EXTENDS TaskDeliveryMC, PathLocker

VARIABLE part

DeliveryOrLockInit == part \in {"delivery", "lock"} /\ Init /\ LockerInit

DeliveryOrLockNext ==
  /\ UNCHANGED part
  /\ \/ part = "delivery" /\ Next /\ UNCHANGED lockerVars
     \/ part = "lock" /\ LockerNext /\ UNCHANGED vars

\* The fairness of the two modules, each for the behaviours that picked it.
DeliveryOrLockSpec ==
  /\ DeliveryOrLockInit /\ [][DeliveryOrLockNext]_<<vars, lockerVars, part>>
  /\ WF_vars(part = "delivery" /\ Restart)
  /\ WF_vars(part = "delivery" /\ RecoverTrackedOrphans)
  /\ WF_vars(part = "delivery" /\ FallbackFailure)
  /\ \A c \in Claim : WF_vars(part = "delivery" /\ DeliverClaim(c))
  /\ \A e \in Exec : WF_vars(part = "delivery" /\ Run(e))
  /\ \A r \in Report : WF_vars(part = "delivery" /\ Deliver(r))
  /\ \A t \in Task :
       /\ WF_vars(part = "delivery" /\ LeaseLapses(t))
       /\ WF_vars(part = "delivery" /\ FailStaleTask(t))
  /\ \A c \in Caller :
       /\ WF_lockerVars(part = "lock" /\ Advance(c))
       /\ WF_lockerVars(part = "lock" /\ HandOn(c))
       /\ WF_lockerVars(part = "lock" /\ WatcherSeesClosed(c))
       /\ SF_lockerVars(part = "lock" /\ WaiterLocks(c))

\* A task closed on the server leaves the queue of its path (PathLocker).
ClosedCallerLeaves == part = "lock" => ClosedTaskLeaves
=============================================================================
