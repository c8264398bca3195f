--------------------------- MODULE IntegrationsMC ---------------------------
(***************************************************************************)
(* The integrations with services outside: the channel connections and     *)
(* their leases, the Linear synchronisation, and the ledger of channel     *)
(* media.  They share no state: each behaviour picks one of them and       *)
(* leaves the others as they were.                                         *)
(***************************************************************************)
EXTENDS ChannelLease, LinearSync, MediaLedger

VARIABLE part

IntegrationInit ==
  part \in {"lease", "sync", "media"} /\ LeaseInit /\ SyncInit /\ LedgerInit

\* The outbox is empty, nothing is edited any more and the workers find no work.
SyncAtRest ==
  /\ part = "sync" /\ \A k \in Rows : outbox[k].state \in {"done", "dead"}
  /\ UNCHANGED <<leaseVars, syncVars, ledgerVars>>

\* The media job is over, its row is gone, and no reconciler has a row.
MediaAtRest ==
  /\ part = "media" /\ mediaJob \in {"recorded", "over"} /\ intent = "none"
  /\ \A w \in Reconciler : settler[w] = "idle"
  /\ UNCHANGED <<leaseVars, syncVars, ledgerVars>>

IntegrationNext ==
  /\ UNCHANGED part
  /\ \/ part = "lease" /\ LeaseNext /\ UNCHANGED <<syncVars, ledgerVars>>
     \/ part = "sync" /\ SyncNext /\ UNCHANGED <<leaseVars, ledgerVars>>
     \/ part = "media" /\ LedgerNext /\ UNCHANGED <<leaseVars, syncVars>>
     \/ SyncAtRest \/ MediaAtRest

\* The fairness of the modules, each for the behaviours that picked it.
IntegrationSpec ==
  /\ IntegrationInit /\ [][IntegrationNext]_<<leaseVars, syncVars, ledgerVars, part>>
  /\ \A t \in Token :
       /\ WF_leaseVars(part = "lease" /\ Progress(t))
       /\ WF_leaseVars(part = "lease" /\ Renew(t))
  /\ \A n \in Replica : WF_leaseVars(part = "lease" /\ SweepStep(n))
  /\ WF_leaseVars(part = "lease" /\ \E m \in delayed : DelayedRuns(m))
  /\ SF_leaseVars(part = "lease" /\ Tick)
  /\ \A w \in SyncWorker : WF_syncVars(part = "sync" /\ Works(w))
  /\ SF_syncVars(part = "sync" /\ \E w \in SyncWorker, k \in Rows : ClaimOutbox(w, k))
  /\ SF_syncVars(part = "sync" /\ \E w \in SyncWorker : PollRemote(w))
  /\ WF_ledgerVars(part = "media" /\ JobStep)
  /\ WF_ledgerVars(part = "media" /\ LatePutLands)
  /\ WF_ledgerVars(part = "media" /\ LateDeleteLands)
  /\ WF_ledgerVars(part = "media" /\ \E w \in Reconciler : ClaimNext(w))
  /\ \A w \in Reconciler : WF_ledgerVars(part = "media" /\ Settle(w))

\* The type invariants of the modules.
IntegrationTypesOK == LeaseTypeOK /\ SyncTypeOK /\ LedgerTypeOK

\* A connectable installation is taken over again and again (ChannelLease).
LeaseIsTakenOver == part = "lease" => LeaseTakenOver

\* The two sides of the synchronisation agree in the end (LinearSync).
SidesAgree == part = "sync" => EndsInSync

\* What a media job leaves behind is reclaimed in the end (MediaLedger).
OrphansAreReclaimed == part = "media" => OrphansGo
=============================================================================
