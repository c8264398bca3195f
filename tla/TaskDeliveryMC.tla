--------------------------- MODULE TaskDeliveryMC ---------------------------
(* The instances of TaskDelivery for TLC have one row; Slots, MaxFence and  *)
(* MaxFault say how many executions, claims and faults it sees.             *)
EXTENDS TaskDelivery

CONSTANT t1

OneTask == {t1}
=============================================================================
