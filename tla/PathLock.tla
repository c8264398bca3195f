------------------------------ MODULE PathLock ------------------------------
(***************************************************************************)
(* What LocalPathLocker promises the tasks that share a directory: at most *)
(* one of them is inside, a caller may give up while it waits, and one     *)
(* that keeps waiting while the directory is free again and again gets in. *)
(***************************************************************************)
CONSTANT Caller

VARIABLE stage

PathLockInit == stage = [c \in Caller |-> "out"]

Vacant == \A c \in Caller : stage[c] # "inside"

Ask(c) == stage[c] = "out" /\ stage' = [stage EXCEPT ![c] = "waiting"]

Enter(c) == Vacant /\ stage' = [stage EXCEPT ![c] = "inside"]

GiveUp(c) == stage[c] = "waiting" /\ stage' = [stage EXCEPT ![c] = "out"]

Leave(c) == stage[c] = "inside" /\ stage' = [stage EXCEPT ![c] = "out"]

PathLockNext == \E c \in Caller : Ask(c) \/ Enter(c) \/ GiveUp(c) \/ Leave(c)

\* Nobody waits for ever for a directory that is vacant again and again.
PathLockLive == \A c \in Caller : []<>Vacant => []<>(stage[c] # "waiting")

PathLockSafe == PathLockInit /\ [][PathLockNext]_stage
PathLockSpec == PathLockSafe /\ PathLockLive

=============================================================================
