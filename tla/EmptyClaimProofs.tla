-------------------------- MODULE EmptyClaimProofs --------------------------
(***************************************************************************)
(* Proofs about EmptyClaim, for any number of rows and of claim requests,  *)
(* whatever Redis loses and whenever the servers crash.                    *)
(***************************************************************************)
EXTENDS EmptyClaim, FiniteSetTheorems, TLAPS

(* The inductive invariant.  TypeOK speaks of version \in 0 .. MaxVersion,  *)
(* so it needs BumpRoom.  AnnouncedTaskVisible is about the verdict that is *)
(* cached; the one a request is about to write must be harmless as well     *)
(* (NoLateVerdict), and a Bump must outdate both, so every tag, cached or   *)
(* sampled, is at most the current version (TagsBehind).                    *)

\* Every committed row has room for its Bump.
BumpRoom ==
  /\ IsFiniteSet(unbumped)
  /\ version + Cardinality(unbumped) <= MaxVersion

Sampled == {c \in Claimer : pc[c] \in {"select", "mark"}}

TagsBehind ==
  /\ \A v \in verdict : v <= version
  /\ \A c \in Sampled : observed[c] <= version

\* A request about to write its verdict sampled an older version if some
\* queued row has been announced.
NoLateVerdict ==
  hinted # {} => \A c \in Claimer : pc[c] = "mark" => observed[c] # version

Visible == hinted # {} => version \notin verdict

IInv == TypeOK /\ BumpRoom /\ TagsBehind /\ NoLateVerdict /\ Visible

-----------------------------------------------------------------------------
(* Initially. *)

\* No row is queued, no verdict is cached and the counter is absent.
LEMMA InitIInv == Init => IInv
<1> SUFFICES ASSUME Init PROVE IInv
  OBVIOUS
<1> USE DEF Init
<1>1. TypeOK
  BY LegacyAssumption, BoundAssumption DEF TypeOK, Version
<1>2. BumpRoom
  BY FS_EmptySet, BoundAssumption DEF BumpRoom
<1>3. TagsBehind /\ NoLateVerdict /\ Visible
  BY DEF TagsBehind, Sampled, NoLateVerdict, Visible
<1> QED BY <1>1, <1>2, <1>3 DEF IInv

-----------------------------------------------------------------------------
(* Claim requests leave the rows alone but for Claim, which only takes rows. *)

\* IsEmpty reads and moves on.
LEMMA IsEmptyStep ==
  ASSUME IInv, NEW c \in Claimer, IsEmpty(c)
  PROVE  IInv'
<1> USE DEF IInv, IsEmpty, rows
<1>1. TypeOK'
  BY DEF TypeOK
<1>2. BumpRoom'
  BY DEF BumpRoom
<1>3. (TagsBehind /\ NoLateVerdict /\ Visible)'
  BY DEF TypeOK, TagsBehind, Sampled, NoLateVerdict, Visible
<1> QED BY <1>1, <1>2, <1>3

\* CurrentVersion samples a version that is not in the future.
LEMMA CurrentVersionStep ==
  ASSUME IInv, NEW c \in Claimer, CurrentVersion(c)
  PROVE  IInv'
<1> USE DEF IInv, CurrentVersion, rows
<1>1. PICK v \in {version} \cup (IF RedisErrors THEN {0} ELSE {}) :
        observed' = [observed EXCEPT ![c] = v]
  OBVIOUS
<1>2. v \in Version /\ v <= version
  BY <1>1, BoundAssumption DEF TypeOK, Version
<1>3. TypeOK'
  BY <1>1, <1>2 DEF TypeOK
<1>4. BumpRoom'
  BY DEF BumpRoom
<1>5. TagsBehind'
  BY <1>1, <1>2 DEF TypeOK, TagsBehind, Sampled
<1>6. (NoLateVerdict /\ Visible)'
  BY <1>1 DEF TypeOK, NoLateVerdict, Visible
<1> QED BY <1>3, <1>4, <1>5, <1>6

\* Select proceeds to "mark" only when no row is queued, so none is hinted.
LEMMA SelectStep ==
  ASSUME IInv, NEW c \in Claimer, Select(c)
  PROVE  IInv'
<1> USE DEF IInv, Select, rows
<1>1. TypeOK'
  BY DEF TypeOK
<1>2. BumpRoom'
  BY DEF BumpRoom
<1>3. TagsBehind'
  BY DEF TypeOK, TagsBehind, Sampled
<1>4. NoLateVerdict'
  BY DEF TypeOK, NoLateVerdict
<1>5. Visible'
  BY DEF Visible
<1> QED BY <1>1, <1>2, <1>3, <1>4, <1>5

\* Claim takes rows away.
LEMMA ClaimStep ==
  ASSUME IInv, NEW c \in Claimer, Claim(c)
  PROVE  IInv'
<1> USE DEF IInv, Claim
<1>1. TypeOK'
  BY DEF TypeOK
<1>2. BumpRoom'
  BY DEF BumpRoom
<1>3. (TagsBehind /\ NoLateVerdict /\ Visible)'
  BY DEF TypeOK, TagsBehind, Sampled, NoLateVerdict, Visible
<1> QED BY <1>1, <1>2, <1>3

\* MarkEmpty writes the tag it sampled: NoLateVerdict is what makes it harmless.
LEMMA MarkEmptyStep ==
  ASSUME IInv, NEW c \in Claimer, MarkEmpty(c)
  PROVE  IInv'
<1> USE DEF IInv, MarkEmpty, rows
<1>1. TypeOK'
  BY DEF TypeOK
<1>2. BumpRoom'
  BY DEF BumpRoom
<1>3. TagsBehind'
  BY DEF TypeOK, TagsBehind, Sampled
<1>4. NoLateVerdict'
  BY DEF TypeOK, NoLateVerdict
<1>5. Visible'
  BY DEF TypeOK, NoLateVerdict, Visible
<1> QED BY <1>1, <1>2, <1>3, <1>4, <1>5

-----------------------------------------------------------------------------
(* Bumps. *)

\* A Bump, sent or lost, outdates every tag there is; the caller has left room
\* for it and takes no row away from those queued.
LEMMA BumpOutdates ==
  ASSUME IInv, Bump, version < MaxVersion,
         UNCHANGED <<queued, verdict, pc, observed>>
  PROVE  /\ version' \in Version /\ version' <= version + 1
         /\ hinted' \subseteq queued'
         /\ (TagsBehind /\ NoLateVerdict /\ Visible)'
<1> USE DEF IInv
<1>0. version \in Nat /\ MaxVersion \in Nat
  BY BoundAssumption DEF TypeOK, Version
<1>1. CASE version' = version + 1 /\ hinted' = queued
  <2>1. version' \in Version
    BY <1>0, <1>1 DEF Version
  <2>2. \A v \in verdict : v \in Nat /\ v <= version
    BY DEF TagsBehind, TypeOK, Version
  <2>3. \A c \in Sampled : observed[c] \in Nat /\ observed[c] <= version
    BY DEF TagsBehind, TypeOK, Version, Sampled
  <2>4. TagsBehind'
    BY <1>0, <1>1, <2>2, <2>3 DEF TagsBehind, Sampled
  <2>5. NoLateVerdict' /\ Visible'
    BY <1>0, <1>1, <2>2, <2>3 DEF NoLateVerdict, Visible, Sampled
  <2> QED BY <1>0, <1>1, <2>1, <2>4, <2>5
<1>2. CASE UNCHANGED <<version, hinted>>
  BY <1>0, <1>2 DEF TypeOK, TagsBehind, Sampled, NoLateVerdict, Visible
<1> QED BY <1>1, <1>2 DEF Bump

\* The Bump that is due for t was paid for when t was queued.
LEMMA NotifyTaskAvailableStep ==
  ASSUME IInv, NEW t \in Task, NotifyTaskAvailable(t)
  PROVE  IInv'
<1> USE DEF IInv, NotifyTaskAvailable
<1>1. /\ IsFiniteSet(unbumped')
      /\ Cardinality(unbumped') = Cardinality(unbumped) - 1
      /\ Cardinality(unbumped) \in Nat /\ Cardinality(unbumped') \in Nat
  BY FS_RemoveElement, FS_CardinalityType DEF BumpRoom
<1>2. version \in Nat /\ MaxVersion \in Nat
  BY BoundAssumption DEF TypeOK, Version
<1>3. version < MaxVersion
  BY <1>1, <1>2 DEF BumpRoom
<1>4. /\ version' \in Version /\ version' <= version + 1 /\ hinted' \subseteq queued'
      /\ (TagsBehind /\ NoLateVerdict /\ Visible)'
  BY <1>3, BumpOutdates
<1>5. TypeOK'
  BY <1>4 DEF TypeOK
<1>6. BumpRoom'
  BY <1>1, <1>2, <1>4 DEF BumpRoom, Version
<1> QED BY <1>4, <1>5, <1>6

\* NotifyTaskFinished bumps within the room that is left.
LEMMA NotifyTaskFinishedStep ==
  ASSUME IInv, NEW t \in Task, NotifyTaskFinished(t)
  PROVE  IInv'
<1> USE DEF IInv, NotifyTaskFinished
<1>1. Cardinality(unbumped) \in Nat
  BY FS_CardinalityType DEF BumpRoom
<1>2. version \in Nat /\ MaxVersion \in Nat
  BY BoundAssumption DEF TypeOK, Version
<1>3. version < MaxVersion
  BY <1>1, <1>2 DEF RoomToBump
<1>4. /\ version' \in Version /\ version' <= version + 1 /\ hinted' \subseteq queued'
      /\ (TagsBehind /\ NoLateVerdict /\ Visible)'
  BY <1>3, BumpOutdates
<1>5. TypeOK'
  BY <1>4 DEF TypeOK
<1>6. BumpRoom'
  BY <1>1, <1>2, <1>4 DEF BumpRoom, RoomToBump, Version
<1> QED BY <1>4, <1>5, <1>6

-----------------------------------------------------------------------------
(* Rows that become queued. *)

\* One more row whose Bump is due fits into the room that is left.
LEMMA RoomForOneMore ==
  ASSUME BumpRoom, RoomToBump, version \in Nat, NEW t,
         unbumped' = unbumped \cup {t}, version' = version
  PROVE  BumpRoom'
<1>1. IsFiniteSet(unbumped) /\ Cardinality(unbumped) \in Nat
  BY FS_CardinalityType DEF BumpRoom
<1>2. /\ IsFiniteSet(unbumped \cup {t})
      /\ \/ Cardinality(unbumped \cup {t}) = Cardinality(unbumped)
         \/ Cardinality(unbumped \cup {t}) = Cardinality(unbumped) + 1
  BY <1>1, FS_AddElement
<1> QED BY <1>1, <1>2, BoundAssumption DEF BumpRoom, RoomToBump

\* A row that is queued is not announced yet: the tags stay as harmless as
\* they were.
LEMMA EnqueueStep ==
  ASSUME IInv, NEW t \in Task, Enqueue(t)
  PROVE  IInv'
<1> USE DEF IInv, Enqueue
<1>1. TypeOK'
  BY DEF TypeOK
<1>2. BumpRoom'
  BY RoomForOneMore DEF TypeOK, Version
<1>3. (TagsBehind /\ NoLateVerdict /\ Visible)'
  BY DEF TagsBehind, Sampled, NoLateVerdict, Visible
<1> QED BY <1>1, <1>2, <1>3

\* The same of a claim that is given back.
LEMMA RequeueStep ==
  ASSUME IInv, NEW t \in Task, RequeueTaskAfterClaimFailure(t)
  PROVE  IInv'
<1> USE DEF IInv, RequeueTaskAfterClaimFailure
<1>1. TypeOK'
  BY BoundAssumption DEF TypeOK
<1>2. BumpRoom'
  BY RoomForOneMore DEF TypeOK, Version
<1>3. (TagsBehind /\ NoLateVerdict /\ Visible)'
  BY DEF TagsBehind, Sampled, NoLateVerdict, Visible
<1> QED BY <1>1, <1>2, <1>3

-----------------------------------------------------------------------------
(* The steps of nobody in particular. *)

\* Expiry of a verdict or of the counter, a merge, a crash.
LEMMA EnvironmentStep ==
  ASSUME IInv, VerdictExpires \/ VersionExpires \/ MergeLegacyRuntime \/ ServerCrash
  PROVE  IInv'
<1> USE DEF IInv
<1>1. CASE VerdictExpires
  BY <1>1 DEF VerdictExpires, rows, TypeOK, BumpRoom, TagsBehind, Sampled, NoLateVerdict, Visible
<1>2. CASE VersionExpires
  <2> USE <1>2 DEF VersionExpires, rows
  <2>1. TypeOK'
    BY BoundAssumption DEF TypeOK, Version
  <2>2. BumpRoom'
    BY FS_EmptySet, BoundAssumption DEF BumpRoom
  <2>3. (TagsBehind /\ NoLateVerdict /\ Visible)'
    BY DEF TagsBehind, Sampled, NoLateVerdict, Visible
  <2> QED BY <2>1, <2>2, <2>3
<1>3. CASE MergeLegacyRuntime
  <2> USE <1>3 DEF MergeLegacyRuntime
  <2>1. TypeOK'
    BY LegacyAssumption DEF TypeOK
  <2>2. (BumpRoom /\ TagsBehind /\ NoLateVerdict /\ Visible)'
    BY DEF BumpRoom, TagsBehind, Sampled, NoLateVerdict, Visible
  <2> QED BY <2>1, <2>2
<1>4. CASE ServerCrash
  <2> USE <1>4 DEF ServerCrash
  <2>1. TypeOK'
    BY BoundAssumption DEF TypeOK
  <2>2. BumpRoom'
    BY FS_EmptySet, FS_CardinalityType, BoundAssumption DEF BumpRoom, TypeOK, Version
  <2>3. (TagsBehind /\ NoLateVerdict /\ Visible)'
    BY DEF TagsBehind, Sampled, NoLateVerdict, Visible
  <2> QED BY <2>1, <2>2, <2>3
<1> QED BY <1>1, <1>2, <1>3, <1>4

\* Every step preserves the invariant.
LEMMA NextIInv == IInv /\ [Next]_vars => IInv'
<1> SUFFICES ASSUME IInv, [Next]_vars PROVE IInv'
  OBVIOUS
<1>1. ASSUME NEW c \in Claimer, Request(c) PROVE IInv'
  BY <1>1, IsEmptyStep, CurrentVersionStep, SelectStep, ClaimStep, MarkEmptyStep DEF Request
<1>2. ASSUME NEW t \in Task, Write(t) PROVE IInv'
  BY <1>2, EnqueueStep, NotifyTaskAvailableStep, RequeueStep, NotifyTaskFinishedStep DEF Write
<1>3. CASE VerdictExpires \/ VersionExpires \/ MergeLegacyRuntime \/ ServerCrash
  BY <1>3, EnvironmentStep
<1>4. CASE UNCHANGED vars
  BY <1>4 DEF vars, rows, IInv, TypeOK, BumpRoom, TagsBehind, Sampled, NoLateVerdict, Visible
<1> QED BY <1>1, <1>2, <1>3, <1>4 DEF Next

\* The invariant holds of every reachable state.
LEMMA Invariance == Spec => []IInv
<1> QED BY InitIInv, NextIInv, PTL DEF Spec

\* The counter never exceeds its bound, a row is in one place at a time, and
\* every other variable keeps its type.
THEOREM TypeCorrect == Spec => []TypeOK
<1>1. IInv => TypeOK
  BY DEF IInv
<1> QED BY Invariance, <1>1, PTL

\* The race empty_claim_cache.go was written against is closed for any number
\* of rows, concurrent claims and lost commands: once a Bump has succeeded
\* after a row was queued, no verdict hides the row.
THEOREM Announced == Spec => []AnnouncedTaskVisible
<1>1. IInv => AnnouncedTaskVisible
  BY DEF IInv, Visible, AnnouncedTaskVisible, Believed
<1> QED BY Invariance, <1>1, PTL
=============================================================================
