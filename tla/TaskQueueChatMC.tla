-------------------------- MODULE TaskQueueChatMC ---------------------------
(***************************************************************************)
(* The instance of TaskQueue with a chat, the reclaim check cache of a     *)
(* runtime, and the way of two messages of a chat to their tasks.  They    *)
(* share no state here: each behaviour picks one of them and leaves the    *)
(* others as they were.                                                    *)
(***************************************************************************)
EXTENDS TaskQueueMC, ReclaimCheck, ChannelInboundMC

VARIABLE part

ChatRunInit ==
  /\ part \in {"queue", "cache", "inbound"}
  /\ Init /\ ReclaimInit /\ InboundInit
  /\ part # "inbound" => kind = CHOOSE k \in MCKinds : TRUE

\* No delivery, flush, turn or timer is under way.
InboundAtRest ==
  /\ \A h \in Try : try[h] \in {"none", "over"}
  /\ armed = {} /\ At({"none", "done", "cancelled", "over"}) = Turn

ChatRunNext ==
  /\ UNCHANGED part
  /\ \/ part = "queue" /\ Next /\ UNCHANGED <<reclaimVars, inboundVars>>
     \/ part = "cache" /\ ReclaimNext /\ UNCHANGED <<vars, inboundVars>>
     \/ part = "inbound" /\ InboundNext /\ UNCHANGED <<vars, reclaimVars>>
     \/ part = "inbound" /\ InboundAtRest /\ UNCHANGED <<vars, reclaimVars, inboundVars>>

ChatRunSpec ==
  /\ ChatRunInit /\ [][ChatRunNext]_<<vars, reclaimVars, inboundVars, part>>
  /\ WF_inboundVars(part = "inbound" /\ Progress)

\* Every state of the cache and of the inbound path is well typed.
ChatRunTypesOK == ReclaimTypeOK /\ InboundTypeOK

\* EveryMessageServed, where the inbound path runs.
StoredIsServed == part = "inbound" => EveryMessageServed
=============================================================================
