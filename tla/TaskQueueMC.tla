---------------------------- MODULE TaskQueueMC ----------------------------
(* Instances of TaskQueue for TLC: one agent with an issue that has a main  *)
(* lane and a side lane, and a chat.                                        *)
EXTENDS TaskQueue

CONSTANTS main, side, chat, issue, a

MCSlot     == {issue}
MCMainLane == [s \in MCSlot |-> main]
MCAgent    == {a}

\* An issue with its main lane and a side lane.
IssueLanes == {main, side}
IssueSlots == [l \in IssueLanes |-> issue]
IssueAgent == [l \in IssueLanes |-> a]

\* An issue without side lanes, and a chat of the same agent.
ChatLanes == {main, chat}
ChatSlots == [l \in ChatLanes |-> IF l = chat THEN NoSlot ELSE issue]
ChatAgent == [l \in ChatLanes |-> a]
=============================================================================
